------------------------------ MODULE SfpgaBoot ------------------------------
(***************************************************************************)
(* The System FPGA (sfpga_bootloader.vhd and svec_sfpga_top.vhd): it boots *)
(* the AFPGA from the flash after a reset (flash_boot.vhd), lets a host    *)
(* take over with the trigger sequence, and decides which of the two FPGAs *)
(* may answer on the VME bus.                                              *)
(*                                                                         *)
(* The host is any bus master: it writes any register in any order, within *)
(* HostOps.  The trigger sequence (module BootTrigger) is one action here. *)
(***************************************************************************)
EXTENDS XilinxLoader

CONSTANTS
  HostOps,      \* the registers hosts write
  FlashLen,     \* c_BITSTREAM_SIZE: the longest bitstream looked for
  FifoDepth,    \* words of the FIFO
  Resets        \* bound: how many resets follow power-up

ASSUME SfpgaBootAssumption ==
  /\ HostOps \subseteq {"trigger", "swrst", "start", "exit", "fifo", "far"}
  /\ FlashLen \in Nat
  /\ FifoDepth \in Nat \ {0}
  /\ Resets \in Nat

VARIABLES
  boot_source,    \* "FLASH" or "HOST": who drives the loader
  boot_en,        \* the VME core of the System FPGA drives the bus
  go_passive,     \* EXIT was written: the core goes passive when it is idle
  erase,          \* the erase pulse holds PROG_B low
  cycle,          \* the VME core is in a bus cycle (vme_idle = '0')
  flash,          \* the state of the flash boot engine
  byte_count,     \* bytes of the bitstream read from the flash
  in_place,       \* the flash is read where the engine expects it
  fifo,           \* the words hosts wrote, of one byte each
  sig_ok,         \* the flash holds the SDB signature ...
  image_ok,       \* ... and a good bitstream; both fixed for a behaviour
  resets,         \* resets since power-up
  cut             \* history: the last reset fell into an erase pulse, and
                  \* there was no trigger since

flashVars == <<flash, byte_count, in_place>>
arbiterVars == <<boot_source, boot_en, go_passive, erase, cycle>>
contents == <<sig_ok, image_ok>>
counts == <<resets, cut>>
vars == <<xldrVars, flashVars, arbiterVars, contents, fifo, counts>>

\* CHECK stands for SELECT_SDB to CHECK_SIG3, FETCH for SELECT_BITSTREAM to
\* FETCH_BS_BYTE; NO_BITSTREAM is split at the pulse it gives.
FlashState ==
  {"STARTUP", "CHECK", "FETCH", "LOAD", "NO_BITSTREAM", "GAVE_UP", "BOOT_DONE"}

TypeOK ==
  /\ XldrTypeOK
  /\ boot_source \in {"FLASH", "HOST"}
  /\ boot_en \in BOOLEAN
  /\ go_passive \in BOOLEAN
  /\ erase \in BOOLEAN
  /\ cycle \in BOOLEAN
  /\ flash \in FlashState
  /\ byte_count \in 0 .. FlashLen + 1
  /\ in_place \in BOOLEAN
  /\ fifo \in Seq([byte : Int, last : BOOLEAN])
  /\ sig_ok \in BOOLEAN
  /\ image_ok \in BOOLEAN
  /\ resets \in 0 .. Resets
  /\ cut \in BOOLEAN

Init ==
  /\ XldrInit
  /\ boot_source = "FLASH"
  /\ boot_en = FALSE
  /\ go_passive = FALSE
  /\ erase = FALSE
  /\ cycle = FALSE
  /\ flash = "STARTUP"
  /\ byte_count = 0
  /\ in_place = TRUE
  /\ fifo = <<>>
  /\ sig_ok \in BOOLEAN
  /\ image_ok \in BOOLEAN
  /\ resets = 0
  /\ cut = FALSE

\* A reset of the System FPGA: the button or the VME bus.  It does not reach
\* the AFPGA, which stays as it is.  Nor does it reach erase_afpga_n_d0: an
\* erase pulse that the reset cuts is seen to end on the first clock after it,
\* and makes the bootloader active.
Reset ==
  /\ resets < Resets
  /\ resets' = resets + 1
  /\ state' = "IDLE"
  /\ csr_done' = FALSE
  /\ csr_error' = FALSE
  /\ boot_source' = "FLASH"
  /\ boot_en' = erase
  /\ cut' = erase
  /\ go_passive' = FALSE
  /\ erase' = FALSE
  /\ cycle' = FALSE
  /\ flash' = "STARTUP"
  /\ in_place' = TRUE
  /\ fifo' = <<>>
  /\ UNCHANGED <<d_data, d_last, afpgaVars, alive, byte_count, contents>>

-----------------------------------------------------------------------------
(* Booting from the flash.                                                 *)

\* The engine is enabled while the flash is the boot source.
FlashStartup ==
  /\ boot_source = "FLASH"
  /\ flash = "STARTUP"
  /\ flash' = "CHECK"
  /\ byte_count' = 0
  /\ in_place' = TRUE
  /\ UNCHANGED <<xldrVars, arbiterVars, contents, fifo, counts>>

\* The pins of the flash belong to the AFPGA while its DONE is high.
FlashReads == in_place /\ ~Done

\* The signature is there: the loader is started and the flash is set to the
\* beginning of the bitstream.
SignatureFound ==
  /\ flash = "CHECK"
  /\ FlashReads
  /\ sig_ok
  /\ Start
  /\ flash' = "FETCH"
  /\ in_place' = TRUE
  /\ UNCHANGED <<arbiterVars, contents, fifo, counts, byte_count>>

SignatureMissing ==
  /\ flash = "CHECK"
  /\ ~(FlashReads /\ sig_ok)
  /\ flash' = "NO_BITSTREAM"
  /\ UNCHANGED <<xldrVars, arbiterVars, contents, fifo, counts, byte_count, in_place>>

\* Reading a byte takes longer than DONE needs to be seen.
FetchBsByte ==
  /\ flash = "FETCH"
  /\ ~Configurable
  /\ flash' = "LOAD"
  /\ UNCHANGED <<xldrVars, arbiterVars, contents, fifo, counts, byte_count, in_place>>

FlashByte == IF FlashReads /\ image_ok THEN byte_count + 1 ELSE 0

\* Fault: one byte too many is read ...
LoadOneMore ==
  /\ flash = "LOAD"
  /\ \/ Fetch(<<FlashByte>>, FALSE)
     \/ Drop
  /\ flash' = CASE csr_done -> "BOOT_DONE"
                [] ~csr_done /\ byte_count = FlashLen + 1 -> "NO_BITSTREAM"
                [] OTHER -> "FETCH"
  /\ byte_count' = byte_count + 1
  /\ UNCHANGED <<arbiterVars, contents, fifo, counts, in_place>>

\* ... or one too few.
LoadOneLess ==
  /\ flash = "LOAD"
  /\ \/ Fetch(<<FlashByte>>, FALSE)
     \/ Drop
  /\ flash' = CASE csr_done -> "BOOT_DONE"
                [] ~csr_done /\ byte_count = FlashLen - 1 -> "NO_BITSTREAM"
                [] OTHER -> "FETCH"
  /\ byte_count' = byte_count + 1
  /\ UNCHANGED <<arbiterVars, contents, fifo, counts, in_place>>

\* The loader takes the byte; DONE ends the boot, whatever ERROR says.
LoadBsByte ==
  /\ flash = "LOAD"
  /\ \/ Fetch(<<FlashByte>>, FALSE)
     \/ Drop
  /\ flash' = CASE csr_done -> "BOOT_DONE"
                [] ~csr_done /\ byte_count = FlashLen -> "NO_BITSTREAM"
                [] OTHER -> "FETCH"
  /\ byte_count' = byte_count + 1
  /\ UNCHANGED <<arbiterVars, contents, fifo, counts, in_place>>

\* Without a bitstream the engine gives a pulse that has the effect of the
\* trigger on the erase pulse, but not on the boot source.
NoBitstreamPulse ==
  /\ flash = "NO_BITSTREAM"
  /\ flash' = "GAVE_UP"
  /\ erase' = TRUE
  /\ ClearAfpga
  /\ UNCHANGED <<loaderVars, alive, boot_source, boot_en, go_passive, cycle,
                 byte_count, in_place, contents, fifo, counts>>

\* In flash mode the startup input of the loader is always '1'.
FlashExit ==
  /\ boot_source = "FLASH"
  /\ state = "GOT_DONE"
  /\ StartupPulse
  /\ UNCHANGED <<flashVars, arbiterVars, contents, fifo, counts>>

-----------------------------------------------------------------------------
(* A host writes a register: a bus cycle, whether the core answers or not. *)
(* After EXIT the core goes passive two clocks after the cycle has ended,  *)
(* before another one can have begun.                                      *)

BeginCycle(op) ==
  /\ op \in HostOps
  /\ ~cycle /\ ~go_passive
  /\ cycle' = TRUE

\* Fault: the trigger does not erase the AFPGA.
TriggerWithoutErase ==
  /\ BeginCycle("trigger")
  /\ boot_source' = "HOST"
  /\ flash' = "STARTUP"
  /\ erase' = TRUE
  /\ cut' = FALSE
  /\ UNCHANGED <<xldrVars, boot_en, go_passive, byte_count, in_place, contents,
                 fifo, resets>>

\* The trigger sequence is accepted in every mode.
Trigger ==
  /\ BeginCycle("trigger")
  /\ boot_source' = "HOST"
  /\ flash' = "STARTUP"
  /\ erase' = TRUE
  /\ ClearAfpga
  /\ cut' = FALSE
  /\ UNCHANGED <<loaderVars, alive, boot_en, go_passive, byte_count, in_place,
                 contents, fifo, resets>>

\* SWRST reaches the loader in host mode, be the core active or passive.
HostSwrst ==
  /\ BeginCycle("swrst")
  /\ IF boot_source = "HOST" THEN Swrst ELSE UNCHANGED xldrVars
  /\ UNCHANGED <<flashVars, boot_source, boot_en, go_passive, erase, contents, fifo, counts>>

\* Fault: START is not gated either.
StartUngated ==
  /\ BeginCycle("start")
  /\ IF boot_source = "HOST" THEN Start ELSE UNCHANGED xldrVars
  /\ UNCHANGED <<flashVars, boot_source, boot_en, go_passive, erase, contents, fifo, counts>>

\* START is the one pulse that boot_en gates.
HostStart ==
  /\ BeginCycle("start")
  /\ IF boot_source = "HOST" /\ boot_en THEN Start ELSE UNCHANGED xldrVars
  /\ UNCHANGED <<flashVars, boot_source, boot_en, go_passive, erase, contents, fifo, counts>>

\* Bound: hosts do not write more once the AFPGA has what it needs.
HostFifo(b, last) ==
  /\ BeginCycle("fifo")
  /\ Len(fifo) < FifoDepth
  /\ Len(received) + Len(fifo) <= ConfigLen
  /\ fifo' = Append(fifo, [byte |-> b, last |-> last])
  /\ UNCHANGED <<xldrVars, flashVars, boot_source, boot_en, go_passive, erase, contents, counts>>

\* A write to FAR stops the read that the flash engine has begun.
HostFar ==
  /\ BeginCycle("far")
  /\ in_place' = FALSE
  /\ UNCHANGED <<xldrVars, flash, byte_count, boot_source, boot_en, go_passive,
                 erase, contents, fifo, counts>>

\* Fault: EXIT does not make the core passive.
ExitStaysActive ==
  /\ BeginCycle("exit")
  /\ IF boot_source = "HOST" THEN StartupPulse ELSE UNCHANGED xldrVars
  /\ UNCHANGED <<flashVars, boot_source, boot_en, go_passive, erase, contents, fifo, counts>>

HostExit ==
  /\ BeginCycle("exit")
  /\ IF boot_source = "HOST" THEN StartupPulse ELSE UNCHANGED xldrVars
  /\ go_passive' = TRUE
  /\ UNCHANGED <<flashVars, boot_source, boot_en, erase, contents, fifo, counts>>

HostWrite ==
  \/ HostSwrst
  \/ HostStart
  \/ \E b \in 0 .. ConfigLen, last \in BOOLEAN : HostFifo(b, last)
  \/ HostFar
  \/ HostExit

EndCycle ==
  /\ cycle
  /\ cycle' = FALSE
  /\ UNCHANGED <<xldrVars, flashVars, boot_source, boot_en, go_passive, erase,
                 contents, fifo, counts>>

\* Fault: an EXIT still pending wins over the end of the erase pulse.
EraseEndYields ==
  /\ erase
  /\ erase' = FALSE
  /\ boot_en' = ~go_passive
  /\ UNCHANGED <<xldrVars, flashVars, boot_source, go_passive, cycle, contents, fifo, counts>>

\* Fault: the pending EXIT is forgotten.
ForgetExit ==
  /\ go_passive
  /\ ~cycle
  /\ go_passive' = FALSE
  /\ UNCHANGED <<xldrVars, flashVars, boot_source, boot_en, erase, cycle, contents,
                 fifo, counts>>

\* p_enable_disable_bootloader: active when the erase pulse ends, passive when
\* the cycle that wrote EXIT is over.
EraseEnd ==
  /\ erase
  /\ erase' = FALSE
  /\ boot_en' = TRUE
  /\ go_passive' = FALSE
  /\ UNCHANGED <<xldrVars, flashVars, boot_source, cycle, contents, fifo, counts>>

GoPassive ==
  /\ go_passive
  /\ ~cycle
  /\ go_passive' = FALSE
  /\ boot_en' = FALSE
  /\ UNCHANGED <<xldrVars, flashVars, boot_source, erase, cycle, contents, fifo, counts>>

-----------------------------------------------------------------------------
(* The loader and the AFPGA.                                               *)

TakeHostWord ==
  /\ boot_source = "HOST"
  /\ fifo # <<>>
  /\ Fetch(<<Head(fifo).byte>>, Head(fifo).last) \/ Drop
  /\ fifo' = Tail(fifo)
  /\ UNCHANGED <<flashVars, arbiterVars, contents, counts>>

\* The AFPGA cannot leave its clearing while PROG_B is held low.
AfpgaClears ==
  /\ ~erase
  /\ AfpgaReady
  /\ UNCHANGED <<flashVars, arbiterVars, contents, fifo, counts>>

AfpgaConfigured ==
  /\ AfpgaDone
  /\ UNCHANGED <<flashVars, arbiterVars, contents, fifo, counts>>

\* The 1024 startup clocks take longer than a bus master takes to end the
\* cycle that wrote EXIT.
LoaderStep ==
  /\ Internal
  /\ state = "STARTUP" => ~(boot_en /\ go_passive)
  /\ UNCHANGED <<flashVars, arbiterVars, contents, fifo, counts>>

FlashEngine ==
  \/ FlashStartup
  \/ SignatureFound
  \/ SignatureMissing
  \/ FetchBsByte
  \/ LoadBsByte
  \/ NoBitstreamPulse

Loader == FlashExit \/ TakeHostWord \/ AfpgaClears \/ LoaderStep

Arbiter == EraseEnd \/ GoPassive

Next ==
  \/ Reset
  \/ Trigger
  \/ HostWrite
  \/ EndCycle
  \/ FlashEngine
  \/ Loader
  \/ AfpgaConfigured
  \/ Arbiter

Spec == Init /\ [][Next]_vars

\* What is clocked goes on, and bus masters end their cycles.  A good AFPGA
\* with a good bitstream raises DONE.  Hosts and resets owe nothing.
Fairness ==
  /\ WF_vars(FlashEngine)
  /\ WF_vars(FlashExit)
  /\ WF_vars(TakeHostWord)
  /\ WF_vars(AfpgaClears)
  /\ WF_vars(LoaderStep)
  /\ WF_vars(AfpgaConfigured)
  /\ WF_vars(EraseEnd)
  /\ WF_vars(GoPassive)
  /\ WF_vars(EndCycle)

FairSpec == Spec /\ Fairness

-----------------------------------------------------------------------------
\* What svec_sfpga_top.vhd:318-320 says of the erase pulse: it prevents two VME
\* cores from working simultaneously on a single bus.
OneVmeCore == ~(boot_en /\ afpga = "running")

\* The System FPGA and the AFPGA never drive the VME bus together: the AFPGA is
\* erased before the bootloader's core becomes active, and starts only when it
\* is passive again, whatever the hosts write and whenever the card is reset --
\* but for a reset in the middle of an erase pulse, until the next trigger.
OneVmeCoreUncut == ~cut => OneVmeCore

\* A running AFPGA is lost only through the trigger sequence, or to the flash
\* boot of a reset: no other write of a host, in any mode, can stop it.
RunningLostOnlyByTrigger ==
  [][(afpga = "running" /\ afpga' # "running")
     => (erase' \/ boot_source = "FLASH")]_vars

\* A trigger always ends with the bootloader active.
TriggerActivates == erase ~> boot_en

\* EXIT always ends with the bootloader passive, unless the card is triggered
\* again meanwhile.
ExitPassivates == go_passive ~> (~boot_en \/ erase)

\* A good flash boots a good card that is left alone.
FlashBoots ==
  (flash = "CHECK" /\ sig_ok /\ image_ok /\ alive)
  ~> (afpga = "running" \/ boot_source = "HOST")

-----------------------------------------------------------------------------
(* The strengthening that makes OneVmeCoreUncut and the type invariant      *)
(* inductive, in parts.                                                    *)

\* PROG_B is held low during the erase pulse: an AFPGA that is there is being
\* cleared, and one that is not never changes.
ErasedByPulse ==
  /\ (erase /\ alive) => afpga = "clearing"
  /\ ~alive => afpga = "ready"

\* The loader gives startup clocks to a configured AFPGA only if the core is
\* passive or about to be.
StartsPassive ==
  (~cut /\ state = "STARTUP" /\ afpga = "done") => (~boot_en \/ go_passive)

\* The flash engine rests in host mode.  In flash mode only the pulse of an
\* engine that found nothing can activate the core ...
ActiveInFlashMode ==
  /\ (~cut /\ boot_source = "FLASH" /\ flash # "GAVE_UP") => ~boot_en
  /\ (erase /\ boot_source = "FLASH") => flash = "GAVE_UP"
  /\ cut => boot_source = "FLASH"
  /\ boot_source = "HOST" => flash = "STARTUP"

\* ... and what that engine has left in the loader cannot configure an AFPGA.
GaveUpConfiguresNothing ==
  (boot_source = "FLASH" /\ flash = "GAVE_UP") =>
    /\ state = "SHIFT" => (~Done /\ received = <<>>)
    /\ state \in {"GOT_DONE", "STARTUP"} => afpga # "done"

\* The words of this module have one byte; the engine counts up to FlashLen.
WordsAndCounts ==
  /\ state = "SHIFT" => Len(d_data) = 1
  /\ flash \in {"CHECK", "FETCH", "LOAD"} => byte_count <= FlashLen

ArbiterInv ==
  /\ OneVmeCoreUncut
  /\ ErasedByPulse
  /\ StartsPassive
  /\ ActiveInFlashMode
  /\ GaveUpConfiguresNothing
  /\ WordsAndCounts
=============================================================================
