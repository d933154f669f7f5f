---------------------------- MODULE MiniVmeProofs ----------------------------
(***************************************************************************)
(* Proofs about MiniVme for every set of data, and of addresses in which   *)
(* those of this card are its registers: the masters that the bootloader   *)
(* is made for.  Those that use others are the subject of a finding.       *)
(***************************************************************************)
EXTENDS MiniVme, TLAPS

OnlyRegisters == \A t \in Targets : t.mine => t.register

Ours == ForRegister(cycle.target)

\* What the synchronisers show of the strobes is of the current cycle, or of
\* one that has ended.
SyncInv ==
  /\ ds => as
  /\ as_p1 => as_synced
  /\ ds_p1 => ds_synced
  /\ (as /\ ds_synced) => ds

\* What is latched is of the current cycle once the pulse is over, and valid for
\* one clock longer than the strobe that it came with.
LatchInv ==
  /\ as_p1 => ~addr_valid
  /\ ds_p1 => ~data_valid
  /\ (as_synced /\ ~as_p1) => addr_valid /\ addr_latched = cycle.target
  /\ (ds_synced /\ ~ds_p1) => data_valid /\ data_latched = cycle.data
  /\ (as /\ as_synced /\ data_valid) => ds_synced

\* A cycle for this card's registers ends in DTACK only, and DTACK is left when
\* nothing of it is to be seen any more.
EndInv ==
  (Ours /\ ~as /\ state # "DTACK") => ~as_synced /\ ~ds_synced /\ ~addr_valid

\* The cycle is for this card's registers, and everybody sees it.
InCycle ==
  /\ as /\ ds /\ as_synced /\ ds_synced
  /\ Ours

Latched ==
  /\ addr_valid /\ addr_latched = cycle.target
  /\ data_valid /\ data_latched = cycle.data

\* No word is on its way to the register file.
Quiet == ~stb /\ ack_in = 0

Executed == writes = IF cycle.write THEN 1 ELSE 0

\* A state other than IDLE has not been entered for a stale address of this card,
\* nor is one waiting when it is left.
IdleInv ==
  state = "IDLE" =>
    /\ Quiet
    /\ (addr_valid /\ ~as_synced) => ~addr_latched.mine

DecodeInv ==
  state = "DECODE_ADDR" =>
    /\ Quiet
    /\ match => InCycle /\ Latched
    /\ ~addr_valid => ~addr_latched.mine

ExecInv ==
  state = "EXEC_CYCLE" =>
    Quiet /\ InCycle /\ Latched /\ we = cycle.write

WaitInv ==
  state = "WAIT_ACK" =>
    /\ InCycle /\ we = cycle.write
    /\ stb => ack_in = 0 /\ writes = 0 /\ dat = cycle.data
    /\ ~stb => ack_in # 0 /\ Executed

DtackInv ==
  state = "DTACK" =>
    /\ Quiet
    /\ as_synced => Ours /\ Executed
    /\ as => (as_synced <=> ds_synced)

\* What has not been executed has not been written.
WritesInv ==
  /\ (as /\ state \in {"IDLE", "DECODE_ADDR", "EXEC_CYCLE"}) => writes = 0
  /\ (as /\ ~as_synced) => writes = 0

StateInv ==
  IdleInv /\ DecodeInv /\ ExecInv /\ WaitInv /\ DtackInv /\ WritesInv

MiniVmeInv == TypeOK /\ SyncInv /\ LatchInv /\ EndInv /\ StateInv

-----------------------------------------------------------------------------
LEMMA OursIsMine ==
  ASSUME OnlyRegisters, TypeOK
  PROVE  Ours <=> cycle.target.mine
  BY DEF OnlyRegisters, Ours, ForRegister, TypeOK, BusCycle

LEMMA InitInv == ASSUME Init PROVE MiniVmeInv
  <1>1. TypeOK
    <2>1. addr_latched \in Target
      BY MiniVmeAssumption DEF Init
    <2>2. /\ as \in BOOLEAN /\ ds \in BOOLEAN /\ as_synced \in BOOLEAN /\ as_p1 \in BOOLEAN
          /\ ds_synced \in BOOLEAN /\ ds_p1 \in BOOLEAN /\ addr_valid \in BOOLEAN
          /\ data_valid \in BOOLEAN /\ match \in BOOLEAN /\ stb \in BOOLEAN /\ we \in BOOLEAN
      BY DEF Init
    <2>3. /\ cycle \in BusCycle /\ data_latched \in Data /\ adr \in Target /\ dat \in Data
          /\ ack_in \in 0 .. 3 /\ writes \in 0 .. 2
      BY <2>1 DEF Init
    <2>4. state \in {"IDLE", "DECODE_ADDR", "EXEC_CYCLE", "WAIT_ACK", "DTACK"}
      BY DEF Init
    <2>5. QED
      BY <2>1, <2>2, <2>3, <2>4 DEF TypeOK
  <1>2. SyncInv /\ LatchInv /\ EndInv
    BY DEF Init, SyncInv, LatchInv, EndInv
  <1>3. StateInv
    BY DEF Init, StateInv, IdleInv, DecodeInv, ExecInv, WaitInv, DtackInv, WritesInv, Quiet
  <1>4. QED
    BY <1>1, <1>2, <1>3 DEF MiniVmeInv

\* A step is one of the bus, or an edge of the clock.
Bus == BeginCycle \/ StrobeData \/ EndCycle

LEMMA BusFacts ==
  ASSUME Bus
  PROVE  UNCHANGED <<as_synced, as_p1, ds_synced, ds_p1, addr_latched, addr_valid,
                     data_latched, data_valid, match, state, stb, we, adr, dat, ack_in>>
  BY DEF Bus, BeginCycle, StrobeData, EndCycle, syncVars, latchVars, masterVars

\* What an edge does, whatever the state of p_fsm.
LEMMA ClockFacts ==
  ASSUME TypeOK, LateClock
  PROVE  /\ as_synced' \in BOOLEAN /\ as_p1' \in BOOLEAN
         /\ ds_synced' \in BOOLEAN /\ ds_p1' \in BOOLEAN
         /\ (as_synced' <=> as) \/ (as_synced' <=> as_synced)
         /\ (ds_synced' <=> ds) \/ (ds_synced' <=> ds_synced)
         /\ as_p1' <=> (as_synced' /\ ~as_synced)
         /\ ds_p1' <=> (ds_synced' /\ ~ds_synced)
         /\ Latch /\ Decode /\ Fsm /\ RegisterFile
         /\ as' = as /\ ds' = ds /\ cycle' = cycle
  <1>1. PICK a \in {as, as_synced}, d \in {ds, ds_synced} : Clock(a, d)
    BY DEF LateClock
  <1>2. /\ as_synced' = a /\ as_p1' = (a /\ ~as_synced)
        /\ ds_synced' = d /\ ds_p1' = (d /\ ~ds_synced)
    BY <1>1 DEF Clock, Synchronise
  <1>3. Latch /\ Decode /\ Fsm /\ RegisterFile /\ as' = as /\ ds' = ds /\ cycle' = cycle
    BY <1>1 DEF Clock, busVars
  <1>4. as \in BOOLEAN /\ ds \in BOOLEAN /\ as_synced \in BOOLEAN /\ ds_synced \in BOOLEAN
    BY DEF TypeOK
  <1>5. a \in BOOLEAN /\ d \in BOOLEAN
    BY <1>4
  <1>6. as_synced' \in BOOLEAN /\ as_p1' \in BOOLEAN /\ ds_synced' \in BOOLEAN /\ ds_p1' \in BOOLEAN
    BY <1>2, <1>5
  <1>7. /\ as_p1' <=> (as_synced' /\ ~as_synced)
        /\ ds_p1' <=> (ds_synced' /\ ~ds_synced)
    BY <1>2
  <1>8. (as_synced' <=> as) \/ (as_synced' <=> as_synced)
    BY <1>1, <1>2
  <1>9. (ds_synced' <=> ds) \/ (ds_synced' <=> ds_synced)
    BY <1>1, <1>2
  <1>10. QED
    BY <1>3, <1>6, <1>7, <1>8, <1>9

LEMMA TypeStep == ASSUME TypeOK, [Next]_vars PROVE TypeOK'
  <1>1. CASE UNCHANGED vars
    <2>1. UNCHANGED <<busVars, syncVars, latchVars>>
      BY <1>1, Zenon DEF vars
    <2>2. UNCHANGED <<masterVars, ack_in, writes>>
      BY <1>1, Zenon DEF vars
    <2>3. UNCHANGED <<as, ds, cycle, as_synced, as_p1, ds_synced, ds_p1>>
      BY <2>1, Zenon DEF busVars, syncVars
    <2>4. UNCHANGED <<addr_latched, addr_valid, data_latched, data_valid, match>>
      BY <2>1, Zenon DEF latchVars
    <2>5. UNCHANGED <<state, stb, we, adr, dat, ack_in, writes>>
      BY <2>2, Zenon DEF masterVars
    <2>6. /\ as' \in BOOLEAN /\ ds' \in BOOLEAN /\ cycle' \in BusCycle
          /\ as_synced' \in BOOLEAN /\ as_p1' \in BOOLEAN
          /\ ds_synced' \in BOOLEAN /\ ds_p1' \in BOOLEAN
      BY <2>3, Zenon DEF TypeOK
    <2>7. /\ addr_latched' \in Target /\ addr_valid' \in BOOLEAN
          /\ data_latched' \in Data /\ data_valid' \in BOOLEAN /\ match' \in BOOLEAN
      BY <2>4, Zenon DEF TypeOK
    <2>8. /\ state' \in {"IDLE", "DECODE_ADDR", "EXEC_CYCLE", "WAIT_ACK", "DTACK"}
          /\ stb' \in BOOLEAN /\ we' \in BOOLEAN /\ adr' \in Target /\ dat' \in Data
          /\ ack_in' \in 0 .. 3 /\ writes' \in 0 .. 2
      BY <2>5, Zenon DEF TypeOK
    <2>9. QED
      BY <2>6, <2>7, <2>8 DEF TypeOK
  <1>2. CASE Bus
    <2>1. as' \in BOOLEAN /\ ds' \in BOOLEAN /\ cycle' \in BusCycle /\ writes' \in 0 .. 2
      <3>1. CASE BeginCycle
        BY <3>1 DEF BeginCycle, TypeOK
      <3>2. CASE StrobeData
        BY <3>2 DEF StrobeData, TypeOK
      <3>3. CASE EndCycle
        BY <3>3 DEF EndCycle, TypeOK
      <3>4. QED
        BY <1>2, <3>1, <3>2, <3>3 DEF Bus
    <2>2. QED
      BY <1>2, <2>1, BusFacts DEF TypeOK
  <1>3. CASE LateClock
    <2>1. as' \in BOOLEAN /\ ds' \in BOOLEAN /\ cycle' \in BusCycle
      BY <1>3, ClockFacts DEF TypeOK
    <2>2. as_synced' \in BOOLEAN /\ ds_synced' \in BOOLEAN /\ as_p1' \in BOOLEAN
          /\ ds_p1' \in BOOLEAN
      BY <1>3, ClockFacts DEF TypeOK
    <2>3. addr_latched' \in Target /\ data_latched' \in Data
      <3>1. cycle.target \in Target /\ cycle.data \in Data
        BY MiniVmeAssumption DEF TypeOK, BusCycle
      <3>2. QED
        BY <1>3, <3>1, ClockFacts DEF TypeOK, Latch
    <2>4. addr_valid' \in BOOLEAN /\ data_valid' \in BOOLEAN /\ match' \in BOOLEAN
      <3>1. addr_latched.mine \in BOOLEAN
        BY DEF TypeOK, Target
      <3>2. QED
        BY <1>3, <3>1, ClockFacts DEF TypeOK, Latch, Decode
    <2>5. /\ state' \in {"IDLE", "DECODE_ADDR", "EXEC_CYCLE", "WAIT_ACK", "DTACK"}
          /\ stb' \in BOOLEAN /\ we' \in BOOLEAN /\ adr' \in Target /\ dat' \in Data
      <3>1. cycle.write \in BOOLEAN
        BY DEF TypeOK, BusCycle
      <3>2. CASE Idle \/ Dtack
        BY <3>2 DEF Idle, Dtack, MasterIdle, TypeOK
      <3>3. CASE DecodeAddr
        BY <3>1, <3>3 DEF DecodeAddr, TypeOK, Target
      <3>4. CASE ExecCycle
        BY <3>4 DEF ExecCycle, TypeOK
      <3>5. CASE WaitAck
        BY <3>5 DEF WaitAck, TypeOK
      <3>6. QED
        BY <1>3, <3>2, <3>3, <3>4, <3>5, ClockFacts DEF Fsm
    <2>6. ack_in' \in 0 .. 3 /\ writes' \in 0 .. 2
      <3>1. RegisterFile
        BY <1>3, ClockFacts
      <3>2. ack_in \in 0 .. 3 /\ writes \in 0 .. 2
        BY DEF TypeOK
      <3>3. ack_in' \in 0 .. 3
        BY <3>1, <3>2 DEF RegisterFile
      <3>4. writes' = writes \/ (writes < 2 /\ writes' = writes + 1)
        BY <3>1 DEF RegisterFile
      <3>5. QED
        BY <3>2, <3>3, <3>4
    <2>7. QED
      BY <2>1, <2>2, <2>3, <2>4, <2>5, <2>6 DEF TypeOK
  <1>4. QED
    BY <1>1, <1>2, <1>3 DEF Next, Bus

LEMMA SyncStep == ASSUME TypeOK, TypeOK', SyncInv, [Next]_vars PROVE SyncInv'
  <1>1. CASE UNCHANGED vars
    BY <1>1, Zenon DEF vars, busVars, syncVars, SyncInv
  <1>2. CASE Bus
    BY <1>2, BusFacts DEF Bus, BeginCycle, StrobeData, EndCycle, SyncInv, TypeOK
  <1>3. CASE LateClock
    BY <1>3, ClockFacts DEF SyncInv, TypeOK
  <1>4. QED
    BY <1>1, <1>2, <1>3 DEF Next, Bus

LEMMA LatchStep == ASSUME TypeOK, TypeOK', SyncInv, LatchInv, [Next]_vars PROVE LatchInv'
  <1>1. CASE UNCHANGED vars
    BY <1>1, Zenon DEF vars, busVars, syncVars, latchVars, LatchInv
  <1>2. CASE Bus
    BY <1>2, BusFacts DEF Bus, BeginCycle, StrobeData, EndCycle, SyncInv, LatchInv, TypeOK
  <1>3. CASE LateClock
    <2>1. (as_p1' => ~addr_valid') /\ (ds_p1' => ~data_valid')
      BY <1>3, ClockFacts DEF SyncInv, Latch
    <2>2. (as_synced' /\ ~as_p1') => addr_valid' /\ addr_latched' = cycle'.target
      BY <1>3, ClockFacts DEF LatchInv, Latch, TypeOK
    <2>3. (ds_synced' /\ ~ds_p1') => data_valid' /\ data_latched' = cycle'.data
      BY <1>3, ClockFacts DEF LatchInv, Latch, TypeOK
    <2>4. (as' /\ as_synced' /\ data_valid') => ds_synced'
      <3>1. data_valid' => ds_synced
        BY <1>3, ClockFacts DEF SyncInv, Latch
      <3>2. (as /\ ds_synced) => ds /\ ds_synced'
        BY <1>3, ClockFacts DEF SyncInv, TypeOK
      <3>3. QED
        BY <1>3, <3>1, <3>2, ClockFacts
    <2>5. QED
      BY <2>1, <2>2, <2>3, <2>4 DEF LatchInv
  <1>4. QED
    BY <1>1, <1>2, <1>3 DEF Next, Bus

LEMMA EndStep ==
  ASSUME OnlyRegisters, TypeOK, TypeOK', SyncInv, LatchInv, EndInv, StateInv, [Next]_vars
  PROVE  EndInv'
  <1>1. CASE UNCHANGED vars
    BY <1>1, Zenon DEF vars, busVars, syncVars, latchVars, masterVars, EndInv, Ours, ForRegister
  <1>2. CASE Bus
    BY <1>2, BusFacts DEF Bus, BeginCycle, StrobeData, EndCycle, EndInv, Ours, ForRegister
  <1>3. CASE LateClock
    <2>1. SUFFICES ASSUME Ours', ~as', state' # "DTACK"
                   PROVE  ~as_synced' /\ ~ds_synced' /\ ~addr_valid'
      BY DEF EndInv
    <2>2. Ours /\ ~as /\ ~ds
      BY <1>3, <2>1, ClockFacts DEF Ours, ForRegister, SyncInv, TypeOK
    <2>3. CASE state # "DTACK"
      BY <1>3, <2>2, <2>3, ClockFacts DEF EndInv, SyncInv, Latch
    <2>4. CASE state = "DTACK"
      <3>1. Dtack
        BY <1>3, <2>4, ClockFacts DEF Fsm, Idle, DecodeAddr, ExecCycle, WaitAck
      <3>2. ~ds_synced /\ ~as_synced
        BY <2>1, <3>1 DEF Dtack
      <3>3. QED
        BY <1>3, <2>2, <3>2, ClockFacts DEF SyncInv, Latch
    <2>5. QED
      BY <2>3, <2>4
  <1>4. QED
    BY <1>1, <1>2, <1>3 DEF Next, Bus

LEMMA StateUnchanged ==
  ASSUME TypeOK, TypeOK', StateInv, UNCHANGED vars
  PROVE  StateInv'
  <1>1. UNCHANGED <<as, ds, cycle, as_synced, ds_synced, ack_in, writes>>
    BY Zenon DEF vars, busVars, syncVars
  <1>2. UNCHANGED <<addr_latched, addr_valid, data_latched, data_valid, match>>
    BY Zenon DEF vars, latchVars
  <1>3. UNCHANGED <<state, stb, we, dat>>
    BY Zenon DEF vars, masterVars
  <1>4. QED
    BY <1>1, <1>2, <1>3 DEF TypeOK, StateInv, IdleInv, DecodeInv, ExecInv, WaitInv, DtackInv,
       WritesInv, Quiet, InCycle, Latched, Executed, Ours, ForRegister

LEMMA StateBus ==
  ASSUME TypeOK, TypeOK', SyncInv, StateInv, Bus
  PROVE  StateInv'
  <1>1. UNCHANGED <<as_synced, ds_synced, addr_latched, addr_valid, data_latched, data_valid,
                    match, state, stb, we, dat, ack_in>>
    BY BusFacts
  <1> USE DEF TypeOK, StateInv, IdleInv, DecodeInv, ExecInv, WaitInv, DtackInv, WritesInv,
       Quiet, InCycle, Latched, Executed, Ours, ForRegister
  <1>2. CASE BeginCycle
    <2>1. ~as /\ ~as_synced /\ ~ds_synced /\ as' /\ writes' = 0
      BY <1>2 DEF BeginCycle
    <2>2. state \notin {"EXEC_CYCLE", "WAIT_ACK"} /\ (state = "DECODE_ADDR" => ~match)
      BY <2>1
    <2>3. QED
      BY <1>1, <2>1, <2>2
  <1>3. CASE StrobeData
    <2>1. ~ds /\ as' = as /\ cycle' = cycle /\ writes' = writes
      BY <1>3 DEF StrobeData
    <2>2. state \notin {"EXEC_CYCLE", "WAIT_ACK"} /\ (state = "DECODE_ADDR" => ~match)
      BY <2>1
    <2>3. QED
      BY <1>1, <2>1, <2>2
  <1>4. CASE EndCycle
    <2>1. ~as' /\ cycle' = cycle /\ writes' = writes
          /\ (Ours => state = "DTACK")
      BY <1>4 DEF EndCycle
    <2>2. state \notin {"EXEC_CYCLE", "WAIT_ACK"} /\ (state = "DECODE_ADDR" => ~match)
      BY <2>1
    <2>3. QED
      BY <1>1, <2>1, <2>2
  <1>5. QED
    BY <1>2, <1>3, <1>4 DEF Bus

\* A cycle that everybody sees is still seen after an edge, and what is latched
\* of it stays.
LEMMA StaysInCycle ==
  ASSUME TypeOK, LateClock, InCycle
  PROVE  InCycle' /\ (Latched => Latched')
  BY ClockFacts DEF InCycle, Latched, Ours, ForRegister, Latch, TypeOK

\* An address of this card that is valid and is not of the last cycle is of one
\* that everybody sees.
LEMMA SeenInIdle ==
  ASSUME OnlyRegisters, TypeOK, SyncInv, LatchInv, EndInv, IdleInv,
         state = "IDLE", addr_valid, data_valid, addr_latched.mine
  PROVE  InCycle /\ Latched
  <1>1. as_synced /\ ~as_p1 /\ addr_latched = cycle.target
    BY DEF IdleInv, LatchInv
  <1>2. Ours /\ as
    BY <1>1, OursIsMine DEF EndInv
  <1>3. ds_synced /\ ds /\ ~ds_p1
    BY <1>1, <1>2 DEF LatchInv, SyncInv
  <1>4. data_latched = cycle.data
    BY <1>3 DEF LatchInv
  <1>5. QED
    BY <1>1, <1>2, <1>3, <1>4 DEF InCycle, Latched

\* An address that outlives its strobe is another card's, except in DTACK.
LEMMA OutlivingAddress ==
  ASSUME OnlyRegisters, TypeOK, TypeOK', SyncInv, LatchInv, EndInv, LateClock,
         state # "DTACK", addr_valid', ~as_synced'
  PROVE  ~addr_latched'.mine
  <1>1. as_synced
    BY ClockFacts DEF Latch, SyncInv, TypeOK
  <1>2. ~as
    BY <1>1, ClockFacts DEF TypeOK
  <1>3. ~cycle.target.mine
    BY <1>1, <1>2, OursIsMine DEF EndInv
  <1>4. addr_latched' = cycle.target
    BY <1>1, ClockFacts DEF LatchInv, Latch, TypeOK
  <1>5. QED
    BY <1>3, <1>4

\* The register file does nothing when there is nothing on its way to it.
LEMMA QuietFile ==
  ASSUME TypeOK, LateClock, Quiet
  PROVE  ack_in' = 0 /\ writes' = writes
  BY ClockFacts DEF Quiet, RegisterFile, Takes

LEMMA StateClock ==
  ASSUME OnlyRegisters, TypeOK, TypeOK', SyncInv, LatchInv, EndInv, StateInv, LateClock
  PROVE  StateInv'
  <1>1. /\ as' = as /\ ds' = ds /\ cycle' = cycle /\ (Ours' <=> Ours)
        /\ match' = addr_latched.mine
    BY ClockFacts DEF Decode, Ours, ForRegister
  <1>2. CASE Idle
    <2>1. state = "IDLE" /\ Quiet /\ Quiet' /\ writes' = writes
      <3>1. state = "IDLE" /\ stb' = stb
        BY <1>2 DEF Idle, MasterIdle
      <3>2. Quiet
        BY <3>1 DEF StateInv, IdleInv
      <3>3. QED
        BY <3>1, <3>2, QuietFile DEF Quiet, TypeOK
    <2>2. as => writes' = 0
      BY <2>1 DEF StateInv, WritesInv
    <2>3. CASE addr_valid /\ data_valid
      <3>1. state' = "DECODE_ADDR"
        BY <1>2, <2>3 DEF Idle
      <3>2. match' => InCycle' /\ Latched'
        BY <1>1, <2>1, <2>3, SeenInIdle, StaysInCycle DEF StateInv
      <3>3. ~addr_valid' => ~addr_latched'.mine
        <4>1. ~addr_valid' => ~as_synced /\ addr_latched' = addr_latched
          BY <2>3, ClockFacts DEF Latch, TypeOK
        <4>2. QED
          BY <2>1, <2>3, <4>1 DEF StateInv, IdleInv
      <3>4. QED
        BY <1>1, <2>1, <2>2, <3>1, <3>2, <3>3
           DEF StateInv, IdleInv, DecodeInv, ExecInv, WaitInv, DtackInv, WritesInv
    <2>4. CASE ~(addr_valid /\ data_valid)
      <3>1. state' = "IDLE"
        BY <1>2, <2>4 DEF Idle
      <3>2. (addr_valid' /\ ~as_synced') => ~addr_latched'.mine
        BY <2>1, OutlivingAddress
      <3>3. QED
        BY <1>1, <2>1, <2>2, <3>1, <3>2
           DEF StateInv, IdleInv, DecodeInv, ExecInv, WaitInv, DtackInv, WritesInv
    <2>5. QED
      BY <2>3, <2>4
  <1>3. CASE DecodeAddr
    <2>1. state = "DECODE_ADDR" /\ Quiet /\ Quiet' /\ writes' = writes
      <3>1. state = "DECODE_ADDR" /\ stb' = stb
        BY <1>3 DEF DecodeAddr
      <3>2. Quiet
        BY <3>1 DEF StateInv, DecodeInv
      <3>3. QED
        BY <3>1, <3>2, QuietFile DEF Quiet, TypeOK
    <2>2. as => writes' = 0
      BY <2>1 DEF StateInv, WritesInv
    <2>3. CASE ~addr_valid
      <3>1. state' = "DECODE_ADDR"
        BY <1>3, <2>3 DEF DecodeAddr
      <3>2. ~match'
        BY <1>1, <2>1, <2>3 DEF StateInv, DecodeInv
      <3>3. ~addr_valid' => ~addr_latched'.mine
        BY <2>1, <2>3, ClockFacts DEF StateInv, DecodeInv, Latch, TypeOK
      <3>4. QED
        BY <1>1, <2>1, <2>2, <3>1, <3>2, <3>3
           DEF StateInv, IdleInv, DecodeInv, ExecInv, WaitInv, DtackInv, WritesInv
    <2>4. CASE addr_valid /\ ~match
      <3>1. state' = "IDLE"
        BY <1>3, <2>4 DEF DecodeAddr
      <3>2. (addr_valid' /\ ~as_synced') => ~addr_latched'.mine
        BY <2>1, OutlivingAddress
      <3>3. QED
        BY <1>1, <2>1, <2>2, <3>1, <3>2
           DEF StateInv, IdleInv, DecodeInv, ExecInv, WaitInv, DtackInv, WritesInv
    <2>5. CASE addr_valid /\ match
      <3>1. InCycle /\ Latched
        BY <2>1, <2>5 DEF StateInv, DecodeInv
      <3>2. addr_latched.register
        BY <3>1 DEF InCycle, Latched, Ours, ForRegister
      <3>3. state' = "EXEC_CYCLE" /\ we' = cycle.write
        BY <1>3, <2>5, <3>2 DEF DecodeAddr
      <3>4. InCycle' /\ Latched'
        BY <3>1, StaysInCycle
      <3>5. QED
        BY <1>1, <2>1, <2>2, <3>3, <3>4
           DEF StateInv, IdleInv, DecodeInv, ExecInv, WaitInv, DtackInv, WritesInv
    <2>6. QED
      BY <2>3, <2>4, <2>5
  <1>4. CASE ExecCycle
    <2>1. /\ state = "EXEC_CYCLE" /\ state' = "WAIT_ACK" /\ stb' = TRUE
          /\ dat' = data_latched /\ we' = we
      BY <1>4 DEF ExecCycle
    <2>2. Quiet /\ InCycle /\ Latched /\ we = cycle.write
      BY <2>1 DEF StateInv, ExecInv
    <2>3. InCycle'
      BY <2>2, StaysInCycle
    <2>4. ack_in' = 0 /\ writes' = 0
      BY <2>1, <2>2, QuietFile DEF StateInv, WritesInv, InCycle
    <2>5. dat' = cycle'.data /\ we' = cycle'.write
      BY <1>1, <2>1, <2>2 DEF Latched
    <2>6. QED
      BY <2>1, <2>3, <2>4, <2>5
         DEF StateInv, IdleInv, DecodeInv, ExecInv, WaitInv, DtackInv, WritesInv
  <1>5. CASE WaitAck
    <2>1. state = "WAIT_ACK" /\ stb' = FALSE /\ we' = we
      BY <1>5 DEF WaitAck
    <2>2. /\ InCycle /\ we = cycle.write
          /\ stb => ack_in = 0 /\ writes = 0
          /\ ~stb => ack_in # 0 /\ Executed
      BY <2>1 DEF StateInv, WaitInv
    <2>3. InCycle' /\ ds_synced /\ as_synced' /\ ds_synced'
      BY <2>2, StaysInCycle DEF InCycle
    <2>4. RegisterFile
      BY ClockFacts
    <2>5. CASE stb
      <3>1. ack_in' \in {1, 3}
        BY <2>2, <2>4, <2>5 DEF RegisterFile, Takes
      <3>2. writes' = IF we THEN 1 ELSE 0
        BY <2>2, <2>4, <2>5 DEF RegisterFile, Takes
      <3>3. Executed'
        BY <1>1, <2>2, <3>2 DEF Executed
      <3>4. state' = "WAIT_ACK"
        BY <1>5, <2>2, <2>3, <2>5 DEF WaitAck, Ack
      <3>5. ack_in' # 0 /\ we' = cycle'.write /\ ~stb'
        BY <1>1, <2>1, <2>2, <3>1
      <3>6. QED
        BY <2>3, <3>3, <3>4, <3>5
           DEF StateInv, IdleInv, DecodeInv, ExecInv, WaitInv, DtackInv, WritesInv
    <2>6. CASE ~stb
      <3>1. ack_in \in 1 .. 3 /\ ack_in' = ack_in - 1 /\ writes' = writes
        BY <2>2, <2>4, <2>6 DEF RegisterFile, Takes, TypeOK
      <3>2. Executed'
        BY <1>1, <2>2, <2>6, <3>1 DEF Executed
      <3>3. CASE ack_in = 1
        <4>1. state' = "DTACK" /\ ack_in' = 0
          BY <1>5, <3>1, <3>3 DEF WaitAck, Ack
        <4>2. Quiet' /\ Ours'
          BY <2>1, <2>3, <4>1 DEF Quiet, InCycle
        <4>3. QED
          BY <2>3, <3>2, <4>1, <4>2
             DEF StateInv, IdleInv, DecodeInv, ExecInv, WaitInv, DtackInv, WritesInv
      <3>4. CASE ack_in # 1
        <4>1. state' = "WAIT_ACK"
          BY <1>5, <2>3, <3>4 DEF WaitAck, Ack
        <4>2. ack_in' # 0 /\ we' = cycle'.write /\ ~stb'
          BY <1>1, <2>1, <2>2, <3>1, <3>4
        <4>3. QED
          BY <2>3, <3>2, <4>1, <4>2
             DEF StateInv, IdleInv, DecodeInv, ExecInv, WaitInv, DtackInv, WritesInv
      <3>5. QED
        BY <3>3, <3>4
    <2>7. QED
      BY <2>5, <2>6
  <1>6. CASE Dtack
    <2>1. state = "DTACK" /\ Quiet /\ Quiet' /\ writes' = writes
      <3>1. state = "DTACK" /\ stb' = stb
        BY <1>6 DEF Dtack, MasterIdle
      <3>2. Quiet
        BY <3>1 DEF StateInv, DtackInv
      <3>3. QED
        BY <3>1, <3>2, QuietFile DEF Quiet, TypeOK
    <2>2. (as /\ ~as_synced') => writes' = 0
      <3>1. (as /\ ~as_synced') => ~as_synced
        BY ClockFacts DEF TypeOK
      <3>2. QED
        BY <2>1, <3>1 DEF StateInv, WritesInv
    <2>3. CASE ~ds_synced /\ ~as_synced
      <3>1. state' = "IDLE"
        BY <1>6, <2>3 DEF Dtack
      <3>2. ~addr_valid'
        BY <2>3, ClockFacts DEF Latch, SyncInv, TypeOK
      <3>3. as => writes' = 0
        BY <2>1, <2>3 DEF StateInv, WritesInv
      <3>4. QED
        BY <1>1, <2>1, <3>1, <3>2, <3>3
           DEF StateInv, IdleInv, DecodeInv, ExecInv, WaitInv, DtackInv, WritesInv
    <2>4. CASE ds_synced \/ as_synced
      <3>1. state' = "DTACK"
        BY <1>6, <2>4 DEF Dtack
      <3>2. as => as_synced /\ ds_synced /\ ds
        BY <2>1, <2>4 DEF StateInv, DtackInv, SyncInv, TypeOK
      <3>3. as => as_synced' /\ ds_synced'
        BY <3>2, ClockFacts DEF TypeOK
      <3>4. as_synced' => as_synced
        BY <3>2, ClockFacts DEF TypeOK
      <3>5. as_synced' => Ours' /\ Executed'
        BY <1>1, <2>1, <3>4 DEF StateInv, DtackInv, Executed
      <3>6. QED
        BY <1>1, <2>1, <2>2, <3>1, <3>3, <3>5
           DEF StateInv, IdleInv, DecodeInv, ExecInv, WaitInv, DtackInv, WritesInv
    <2>5. QED
      BY <2>3, <2>4
  <1>7. QED
    BY <1>2, <1>3, <1>4, <1>5, <1>6, ClockFacts DEF Fsm

-----------------------------------------------------------------------------
LEMMA InvStep ==
  ASSUME OnlyRegisters, MiniVmeInv, [Next]_vars
  PROVE  MiniVmeInv'
  <1>1. TypeOK /\ SyncInv /\ LatchInv /\ EndInv /\ StateInv
    BY DEF MiniVmeInv
  <1>2. TypeOK'
    BY <1>1, TypeStep
  <1>3. SyncInv' /\ LatchInv' /\ EndInv'
    BY <1>1, <1>2, SyncStep, LatchStep, EndStep
  <1>4. StateInv'
    BY <1>1, <1>2, StateUnchanged, StateBus, StateClock DEF Next, Bus
  <1>5. QED
    BY <1>2, <1>3, <1>4 DEF MiniVmeInv

\* The invariant, when this card is accessed at its registers only.
THEOREM MiniVmeInvariant == OnlyRegisters => (Spec => []MiniVmeInv)
  <1> SUFFICES ASSUME OnlyRegisters PROVE Spec => []MiniVmeInv
    OBVIOUS
  <1>1. Init => MiniVmeInv
    BY InitInv
  <1>2. MiniVmeInv /\ [Next]_vars => MiniVmeInv'
    BY InvStep
  <1>3. QED
    BY <1>1, <1>2, PTL DEF Spec

\* Types, whatever addresses are used.
THEOREM TypeCorrect == Spec => []TypeOK
  <1>1. Init => TypeOK
    BY InitInv DEF MiniVmeInv
  <1>2. TypeOK /\ [Next]_vars => TypeOK'
    BY TypeStep
  <1>3. QED
    BY <1>1, <1>2, PTL DEF Spec

\* A cycle that is acknowledged has been executed, once, for any data and however
\* late each edge of a strobe is seen.
THEOREM Acknowledged == OnlyRegisters => (Spec => []AcknowledgedOnce)
  <1>1. MiniVmeInv => AcknowledgedOnce
    BY DEF MiniVmeInv, StateInv, DtackInv, AcknowledgedOnce, Ours, Executed
  <1>2. QED
    BY <1>1, MiniVmeInvariant, PTL

\* Nothing but a write cycle to one of this card's registers writes to one, and
\* it writes the data of that cycle.
THEOREM Ignored == OnlyRegisters => (Spec => OthersIgnored)
  <1>1. ASSUME MiniVmeInv
        PROVE  (Takes /\ we /\ ack_in' # 0)
                 => as /\ cycle.write /\ ForRegister(cycle.target) /\ dat = cycle.data
    <2> SUFFICES ASSUME stb, we
                 PROVE  as /\ cycle.write /\ ForRegister(cycle.target) /\ dat = cycle.data
      BY DEF Takes
    <2>1. state = "WAIT_ACK"
      BY <1>1 DEF MiniVmeInv, TypeOK, StateInv, IdleInv, DecodeInv, ExecInv, DtackInv, Quiet
    <2>2. InCycle /\ we = cycle.write /\ dat = cycle.data
      BY <1>1, <2>1 DEF MiniVmeInv, StateInv, WaitInv
    <2>3. QED
      BY <2>2 DEF InCycle, Ours
  <1>2. QED
    BY <1>1, MiniVmeInvariant, PTL DEF OthersIgnored
=============================================================================
