# A TLA+ model of the SVEC carrier

The SVEC (Simple VME FMC Carrier) is a VME64x board with two FPGAs. The big **Application FPGA (AFPGA)** holds the
user's design and forgets it at power-off. The small **System FPGA** is always there: it configures the AFPGA, from a
flash memory or from bytes that a host sends over VME, and answers on the bus as long as the AFPGA does not. A Linux
driver loads bitstreams through it, and registers devices for what the bitstream contains.

This directory models how a card is booted, loaded, handed over, torn down and updated: the System FPGA's hardware
(VHDL), the driver's download and the life of a driver instance, the tool that programs the flash and the library by
which it maps the card (C). TLC checks the modules on small instances; TLAPS proves every safety property that
they are checked for, for all values of the constants.

`PROJECT.json` maps every definition to the source lines it stands for, and lists runs, mutants, findings, hazards and
theorems. Paths below are relative to the repository's root.

## 1. Inventory

### 1.1 Parts, their state, and what makes them correct

| Part (source) | State | Operations | What must hold |
|---|---|---|---|
| Boot trigger detector (`sfpga_bootloader.vhd`, `p_detect_boot_trigger`) | position in an 8-byte magic sequence, pulse | a byte written to BTRIGR; a clock without one | a running AFPGA is never erased by anything but the sequence; a host can always get through |
| Register file (`svec_xloader_wb.vhd`) | CSR, FIFO, IDR, FAR registers, acknowledge counter | VME reads and writes | one write per bus cycle |
| VME core (`mini_vme.vhd`) | synchronisers, address and data latches, `p_fsm` | a bus cycle | answers its own registers, only those, once each |
| Xilinx loader (`xilinx_loader.vhd`) | `p_main_fsm`, DONE/ERROR flags, shift register | START, SWRST, EXIT, words from FIFO or flash | all bytes arrive in order; DONE and ERROR tell the truth; startup only after EXIT |
| Flash boot engine (`flash_boot.vhd`) | SDB signature check, byte counter | runs by itself after reset | a good flash boots a good card |
| Arbitration (`sfpga_bootloader.vhd`, `svec_sfpga_top.vhd`) | boot source, `boot_en`, `go_passive`, erase pulse, flash pins | trigger, EXIT, end of bus cycle, reset | never two VME cores on one bus |
| SPI flash controller (`m25p_flash.vhd`) | FAR handshake, read stream | byte transfers | the host and the engine do not mix their transfers |
| SPI flash (external) | contents, busy bit | sector erase, page program, read | programming clears bits only; a busy flash ignores commands |
| Download (`svec-core.c`, FPGA manager operations) | word held back, polls left | write_init, write, write_complete | no byte lost; success means configured |
| Driver instance (`svec-core.c`) | `svec_dev`, mutex, sysfs and debugfs files | probe, remove, store to `firmware_name` | nothing used after it was freed; a store removes its own instance |
| AFPGA devices (`svec-core-fpga.c`) | mapping, VIC, devices, FMC carrier, application device | `svec_fpga_init`, `svec_fpga_exit` | detached before the AFPGA is erased; nothing left behind |
| vme-flasher (`svec-flasher.c`) | image, position, sectors erased | update of the AFPGA's or (`-b`) the System FPGA's bitstream, direct load (`-f`) | "OK" means stored or loaded; a good flash is programmed without error; the card stays recoverable; the tool ends |
| VME window library (`libvmebus.c`) | descriptor of each mapping; flags kept by the driver for everybody | `vme_map`, `vme_unmap`, `find_controller`, `return_controller`, DMA | flags restored, no file leaked, a mapping stays until its owner removes it |
| SVEC base (`svec_base_wr.vhd`, `svec_base_regs.vhd`) | resets, DDR address, metadata | register accesses | resets are independent; DDR address advances once per word |

Also in the repository, and not modelled: example designs (wiring only), generated register headers and packages,
the firmware version tool (prints a ROM), testbenches, hardware tests that address device files this driver no longer
has, synthesis, constraints and packaging.

### 1.2 How they interact

```
 host: svec-core.c, svec-flasher.c
   | VME cycles
 mini_vme --- svec_xloader_wb --+-- BTRIGR --> trigger detector --> boot source, erase pulse
                                +-- CSR ----> loader <-- words --- FIFO (host) / flash boot engine
                                +-- FAR ----> m25p_flash <-------- flash boot engine
   loader --> PROG_B, CCLK, DIN --> AFPGA --> INIT_B, DONE --> loader, arbitration, flash pin multiplexer
```

The host acts only by bus cycles, between any two of which the hardware takes any number of clocks. The AFPGA, once
running, has its own VME core at the same address: the host's EXIT hands the bus over. The System FPGA's reset
does not reach the AFPGA. In the driver, `firmware_name_store` runs in the context of a writer, without the device
lock, beside probe, remove and debugfs readers.

### 1.3 What is hard here

* Two independent pulse paths (erase and EXIT) decide who owns the bus, against a bus cycle that may still run.
* The loader ignores EXIT in all states but one, drops FIFO words in IDLE, and keeps flags from earlier downloads.
* The driver holds one word back, because only `write_complete` knows which is the last; the word crosses chunks.
* Resets at any moment; a boot detector left halfway by an interrupted host; a flash whose pins the AFPGA may own.
* Strobes that cross clock domains; an FSM that may be left in a state by a cycle that was not for it.
* A sysfs store that removes the device it belongs to; partial failures of a seven-step initialisation.
* A flash update that may be killed or lose its power anywhere, on a flash that must be erased before it is written.
* A library that changes a setting of everybody's for the time of one call, in four system calls that all may fail.

Every such place, with its line and the property that watches it, is under `hazards` in `PROJECT.json`.

## 2. Modules

| Module | Models | Checked by | Proofs |
|---|---|---|---|
| `BootTrigger` | the trigger detector | `MCBootTrigger` | `BootTriggerProofs` |
| `XilinxLoader` | the loader with the AFPGA at its pins (no `Next`: the modules below say when each action happens) | through the modules below that extend it | |
| `Download` | `svec-core.c`'s FPGA manager operations, FIFO, loader | `MCDownload` | `DownloadProofs`, `FlattenProofs` |
| `AfpgaLoad` | the abstract specification of a download | as a property in `MCDownload` | |
| `SfpgaBoot` | arbitration, flash boot engine, resets, any bus master; loader | `MCSfpgaBoot` | `SfpgaBootProofs` |
| `MiniVme` | VME core and bus side of the register file, per clock | `MCMiniVme` | `MiniVmeProofs` |
| `SvecDriver` | probe, remove, `firmware_name`, `svec_fpga_init/exit`, debugfs | `MCSvecDriver` | `SvecDriverProofs` |
| `Flasher` | `svec-flasher.c`, the SPI flash, power failures; loader and FIFO | `MCFlasher` | `FlasherProofs` |
| `VmeWindow` | `libvmebus.c` in concurrent processes, the vmebus driver's windows and flags | `MCVmeWindow` | `VmeWindowProofs` |

Definitions introduced by `\* Fault:` are not part of a specification. Each is a bug that could plausibly be made
in the definition below it, and shows that some property would notice it (`mutants` in `PROJECT.json`).

**BootTrigger.** An action is a clock edge of `p_detect_boot_trigger`: `WriteBtrigr(b)` with a byte, `Idle` without.
`boot_state` numbers the states TWORD0.. and BOOT_READY. Bytes are never presented on consecutive edges since a write
takes the register file several clocks. `recent` and `streak` are history only.

**XilinxLoader.** `state` is `p_main_fsm`'s. A step shifts one byte. The clock divider and counted delays only
postpone a step, which interleaving covers. The AFPGA is `clearing`, `ready`, `done` or `running`; an image is good
if its first `ConfigLen` bytes are 1, 2, 3... without a gap, so any loss, swap or duplication makes it bad.
An AFPGA that is missing (`~alive`) never pulls INIT_B low.

**Download.** One action per VME access or decision of the driver, so that the hardware can run in between:
`WriteInit` (the trigger sequence, which the detector may miss, and the check of IDR), `WriteSwrst`, `WriteStart`,
`WriteBuf` (an iteration of `svec_fpga_write_buf`), `PollFull`/`GiveUp...`, `WriteLast`, `PollDone`/`PollTimeout`,
`WriteExit`. A failed `write` is not followed by `write_complete`; `write_init` keeps nothing of a failed download;
the FPGA manager admits one download at a time. `active` says that the card answers as a bootloader: after a download
that was given up without EXIT, or at the start (another program was killed), it does so although a trigger is missed,
and the download goes on with an AFPGA that only START will clear. `AfpgaLoad` says the same without words: a download
that begins need not have cleared the AFPGA yet, but one that succeeds has (`cleared`).

**SfpgaBoot.** The host is any bus master: every register, in any order, in any mode, for ever. Bus cycles begin and
end, and EXIT waits for the end. `Reset` may fall between any two steps; it leaves the AFPGA (and, as in the code, the
delayed copy of the erase pulse) alone. The flash holds a signature or not, a good image or not.

**MiniVme.** Each clock edge is one step in which all processes read old values. The strobes pass synchronisers that
may see an edge one clock late, independently. Targets are four: mine or not, register or not.

**SvecDriver.** Every call that can sleep is a step. Memory is `none`, `live` or `freed`; use after free, double
free, double unregistration and the null `vic_pdev` set `crashed`. kernfs's active references, `device_lock`, the
vmebus driver and the FPGA manager are external and are modelled by what the driver relies on: removing an attribute
waits for running stores, `device_remove_file_self` succeeds for one of them.

**Flasher.** The second program that drives the loader, and the only one that writes the flash. A step is one SPI
command (WREN with the erase or program it enables, RDSR until the busy bit falls, one byte of the verifying read) or
one access to the loader. A byte of the flash is blank, the i-th of the header or of the image, or something else:
enough to tell right from wrong. `Programmed` clears bits only, so that a byte programmed over another is neither.
`flash_program` is called for the header at `SdbBase`, then for the image at `BitstreamBase`, or with `-b` for the
image at 0; `addr` says which. The tool does not look at the image's size, and neither does the model: an address
keeps only the bits that a command has (`Wrap`), so an image that does not end within the flash goes on at its
beginning, while the sector's number is taken from the whole address and `sector_map` is read past its end
(`BeyondMap`: what is found there is not determined, and a sector may then be erased or not). `Sent` is what
`flash_program_page` gets: `plen` comes from the whole size, so the last page of a long image goes on with whatever
follows it in memory (blank or not). `Kill` is Ctrl-C at any step, and may leave a page programmed in part;
`PowerLoss` may also lose what the flash was busy with. `worn` cells fail or not at each write. `good` says whether
the AFPGA takes the image, which only `-f` finds out. A flash that is still busy with a killed run's command answers
no identity, so the next run gives up (`FlashAnswers`).

**VmeWindow.** A step is one system call of one process; every call may fail. `create_on_find_fail` and
`destroy_on_remove` are the vmebus driver's, one of each for all processes (the ioctls of `vmebus.h`). Old and new
functions take the same steps and differ where the code does: `find_controller` always forces, rounds address and size
down, and forgets its file after an error. A flag that `return_controller` could not read is restored to any value.
Whether a window without mappings goes with its last file is the driver's business: both happen. Each process has one
mapping at a time, and DMA calls between mappings. `alone` and `clean` are history: no two calls have overlapped, no
call was killed or kept from restoring a flag.

### 2.1 Timing assumptions

The VHDL is not modelled per clock except in MiniVme. The models assume what the clock ratios give:
two clocks suffice to go passive before a new bus cycle begins; the 1024 startup clocks outlast the end of the cycle
that wrote EXIT; reading a flash byte takes longer than sampling DONE; a bus cycle outlasts its synchronisers, and a
bus timeout outlasts this card's answer; `gc_extend_pulse` clears its output in reset. EXIT on the very clock on
which the erase pulse ends is not modelled. Of hosts: they do not set several command bits of CSR in one write, and
they write a FIFO word's two registers (R0, R1) without another master in between, which the FPGA manager's lock gives
for the driver. In SfpgaBoot hosts do not write into a full FIFO (Download checks that the driver looks). In SvecDriver
memory is not allocated again while somebody may still use its old contents. In Flasher nobody else uses the card
while the tool runs, and an SPI command is not interrupted.

## 3. Runs

| Run | Bounds | Shows |
|---|---|---|
| `boot_trigger` | 5-byte sequence with a repeated inner byte, alphabet of 5 | only the whole sequence fires (`PulseOnlyAfterMagic`); of two sequences in a row the second fires, whatever came before (`SecondSequenceFires`); the inductive `IInv` |
| `download` | 13 bytes in 2 chunks cut inside a word, words of 2 bytes, FIFO of 2 words, 3 downloads, 1 retry | `NothingLost`, `LastWordMarked`, `MarkedAtTheEnd`, `SuccessMeansConfigured`, `HeldUntilExit`; every step is a step of `AfpgaLoad`; `DriverReturns`, `ExitStartsAfpga` |
| `download_start` (violation) | an image whose DONE comes after its last word | finding 1 |
| `sfpga_boot` | bitstream of 2 bytes, FIFO of 1, 1 reset, all registers | `OneVmeCoreUncut`, `RunningLostOnlyByTrigger`, the inductive `ArbiterInv` |
| `sfpga_boot_live` | no reset, hosts leave FAR alone, flash of 3 bytes | `TriggerActivates`, `ExitPassivates`, `FlashBoots` |
| `sfpga_boot_reset` (violation) | one reset, one kind of write (trigger) | finding 2 |
| `mini_vme` | 2 data values, masters that use only the registers of this card's space | `OthersIgnored`, `AcknowledgedOnce`, `CyclesAnswered` |
| `mini_vme_doc` (violation) | masters that use any address | finding 3 |
| `driver` | 2 writers, administrator, reader, every step may fail | `NoCrashInTurn`, `DetachedInTurn`, `RemovedClean`, `StoreRemoves` |
| `driver_stores` (violation) | 2 writers | finding 4 |
| `flasher` | flash of 16 bytes (4 bootloader, 8 bitstream, header), pages of 2, sectors of 2 or 4, images of 0, 1, 4, 7, 9, 13 and 17 bytes, FIFO of 2 words of 2 bytes, one worn cell, 2 runs | `SuccessMeansStored`, `GoodFlashSucceeds`, `BootloaderKept`, `DirectMeansConfigured`; `ToolEnds` |
| `vme_window` | 2 processes, 2 files, a bridge with 2 windows, 2 overlapping requests, one of them not aligned | `FlagsRestored`, `FailedCallHoldsNothing`, `MappedUntilUnmapped`, `CreatedByForceOnly` |

**Why the bounds are enough.** The trigger's behaviour depends on which byte follows which: five bytes with a
repetition have all cases of the board's eight, and the proof covers the rest. In `download` the FIFO (two words) is
smaller than the image (seven), so it fills and empties, the cut at byte 3 ends a chunk inside a word, DONE can rise
after byte 3 while ten bytes are still to come, and three downloads let leftovers of one failed download meet the next
and its leftovers the one after. In `sfpga_boot` two bytes distinguish a bitstream that is begun from one that is
complete; one reset falls into every step of a boot and of a trigger, and the proofs hold for any number. `mini_vme`
needs two data values to tell old from new, and its cycles repeat without a bound. Two stores are the fewest that
overlap. In `flasher` the images are empty, shorter than a page, whole pages, and whole pages with a part of one; one
is longer than the bitstream's place and runs into the header, one goes a byte over the flash's end when it is written
without `-b`, one with `-b` too; sectors of one page and of two; the second run meets everything that the first has
left. The second run has the first one's option, or programs a bitstream after an update of the bootloader
(`NextOption`), which keeps the run short; the proofs hold for any number and order of runs. In `vme_window` two
processes suffice for every overlap of two calls; the second request, when rounded, is inside the first, so windows
are shared as well as created, and calls repeat without a bound.

**Deadlock.** TLC checks for it in `boot_trigger` and `mini_vme`, where a clock always runs. The other systems may
rest: a card that nobody writes to, a driver that nobody uses (and, in SvecDriver, a crashed kernel), a flasher that
has run as often as its bound says or polls for ever, processes without a file left to open. There, liveness
properties say what must not get stuck.

### 3.1 Fairness

Hardware is clocked, so whatever the clocked processes can do they do (`WF` on the loader, the flash engine, the
arbiter, in MiniVme the clock edge that sees the true strobes). Bus masters end their cycles. A driver's thread is
scheduled and its loops are bounded. Nobody owes anything beyond that: users start no downloads, hosts write nothing,
no reset comes, a bad bitstream never raises DONE. `FlashBoots` also takes from a healthy AFPGA with a good bitstream
that DONE rises. In Flasher the tool goes on as long as it can (users answer its question), the flash finishes what it
began and the loader is clocked; nothing makes an AFPGA accept a bitstream or a FIFO empty. `ToolEnds` therefore
excludes exactly the direct loads that poll for ever, see section 5. In SvecDriver calls return and free locks are
granted; whoever waits for a lock that is never free waits for ever, which is what `StoreRemoves` is about.

## 4. Proofs

TLAPS checks `BootTriggerProofs`, `FlattenProofs`, `DownloadProofs`, `SfpgaBootProofs`, `MiniVmeProofs`,
`SvecDriverProofs`, `FlasherProofs` and `VmeWindowProofs`. Every invariant and every action property of the passing
runs is a theorem, and so is the refinement of AfpgaLoad. The proofs use the constants' assumptions only: for the
trigger, that the sequence has at least two bytes and its first byte does not recur in it (true of de ad be ef ca fe
ba be); for the download, that image, words and FIFO are not empty and the image's end is the end of a chunk; for the
arbitration, that `ConfigLen` and `FifoDepth` are positive; for the VME core, that masters use of this card's
addresses its registers only (a hypothesis of the theorems, `OnlyRegisters`: finding 3 shows what others do); for the
driver, that writers, administrator and reader are different; for the flasher, that the header fits into the flash (of
images nothing, but that their size is a number), that sectors and pages are aligned blocks none of which lies on both
sides of the bitstream's or the header's base, and that a page lies in one sector (true of 0x100000, 0x600000 and
blocks of 256 bytes, 64 KiB and 256 KiB); for the library, that no request is empty, and that `None` is no process.

**BootTriggerProofs.** `TriggerInvariant` (`IInv` always), `TriggerSound` (the pulse starts only after the magic
sequence), `SecondSequence` (the second of two sequences fires). Neither property is inductive: that BOOT_READY is
reached says nothing by itself about the bytes before. `IInv` adds that in state k the last k bytes were the first k
of the sequence (`Matched`), and relates the state to how long the bytes have been running through the sequence
(`InStep`): in the first round the detector is in step or back at its start, because the first byte does not recur
it cannot be in between, and from the first byte of the second round on it is in step.

**DownloadProofs.** Every invariant of the run and the refinement, for every image, division into chunks, word length,
FIFO depth and number of downloads. `TypeInv` is `TypeOK` without empty words (`NeverEmpty`): a loader that met one
would neither shift nor ask for the next. `ControlInv` adds to `FlagsInv` where a download stands; that no AFPGA runs
under an active bootloader holds beyond a single download (`StartupBetweenDownloads`), so it does not matter that a
trigger may be missed. `SuccessCorrect`, `HeldCorrect` and `Refinement` (one step of AfpgaLoad or a stutter for each
action) follow from it. `LastWordMarked` needs the mark to stay behind everything that is still to be fetched
(`LastInv`), `MarkedAtTheEnd` that there is none before (`NoMarkInv`); if no bytes were stale at START there were no
words either, since none is empty. `NothingLost` is inductive once words are known to go out unswapped to an AFPGA
that takes them (`ReadyInv`); its proof moves a byte, a word or a chunk's next word across the places where the
concatenation is divided. What `FlattenSeq` does with a word put in or taken out is a matter of induction over the
FIFO; `FlattenProofs` has these lemmas about the community module's operator and proves them by the least index where
the statement fails (`LeastElement`), with no induction theorem.

**SfpgaBootProofs.** `NeverTwoCores` (the System FPGA and the AFPGA never drive the bus together, but for the reset
of finding 2), `OnlyTriggerStops` (no register but the trigger, and no boot but that after a reset, stops a running
AFPGA), `ArbiterInvariant` and `TypeCorrect`. The argument: the erase pulse holds PROG_B low, so when its end makes the
core active the AFPGA does not run (`ErasedByPulse`). From then on only the loader could start it, in state STARTUP
with DONE high; in host mode it gets there by EXIT, which announces the core's end (`StartsPassive`); in flash mode it
gets there by itself, but then the core is passive (`ActiveInFlashMode`) -- unless the engine found nothing, whose
pulse makes it active as well: then the loader holds at most one byte of what the engine sent, too little for any
AFPGA that the pulse has cleared (`GaveUpConfiguresNothing`). This last part is why types and arbitration are proved
together: a word in the shift register has one byte.

Lemmas go action by action, one for each part of the invariant, and meet in `SfpgaInvariant`.

**MiniVmeProofs.** `Acknowledged` and `Ignored`, for any data and any other cards' addresses, however late each edge of
a strobe is seen. The hazard is the pipeline: in any state the latches may hold the last cycle's address, the match
may be a clock older than the address, and data may be seen before the address. `LatchInv` says when a latch speaks of
the cycle on the bus, `EndInv` that of a cycle for this card nothing is left to be seen outside DTACK, and one conjunct
for each state of `p_fsm` what that state knows; a state machine left in DECODE_ADDR by another card's cycle knows a
mismatch, which sends it back to IDLE before the new address is used (`DecodeInv`).

**SvecDriverProofs.** `NoCrash`, `Detached`, `Removed` and `TypeCorrect`, by `DriverInvariant`, for any number of
writers. Its parts say who holds `device_lock` and the mutex (`LockInv`: who is in probe or remove has the first, and
at most one actor is), how long the instance lives (`InstanceInv`), what `svec_fpga_init` has registered when it comes
to each step (`InitInv`), and what `svec_fpga_exit` finds (`ResInv`). None of these needs operations not to overlap,
as long as nothing has crashed; that stores run into each other shows only in the last part, `InTurnInv`: in turn, a
store has the instance to itself from its first step on, so what it undoes is what `svec_fpga_init` has completed.
`RemovedClean` follows from `ResInv` and `InstanceInv`, which is why it holds after overlapping operations too.

**FlasherProofs.** Everything the run checks but `ToolEnds`, by one invariant, `FlasherInv`.

* `SuccessIsStored`: that the byte compared last was right says nothing of the others, so the invariant says what holds
  at each point: while verifying, the first `n` bytes are in the flash (`StoredInv`); while the image is programmed, the
  header is, because the cells written then lie below `SdbBase` unless the image is too long, whose pages the header's
  sector need not survive -- this is where the alignment is used.
* `BootloaderIsKept`, of images that fit: `PhaseInv` ties `addr` to the mode, an address of such an image is the cell it
  names (`DataAddress`), and sectors and pages at or above the bitstream's base have no cell below it.
* `GoodFlash`, of images that fit: in the middle of a pass the flash of a worn-free card holds the first `n` bytes,
  and blank cells from there to the end of the sectors erased so far (`CellsInv`). An erase keeps that because the
  bytes so far lie in sectors that are in the sector map (`PassInv`), so the sector erased now is none of theirs; a
  program keeps it because `addr + n` is the start of a page (the bases are: `BaseAligned`, and only the last page is
  short: `NextPage`) and a page lies in one sector. Arithmetic of blocks is in `DivIs` and `BlockStart`.
* `DirectIsConfigured`: SWRST leaves the loader in IDLE, so START is obeyed and clears the flags, and from then on no
  flag is raised for an AFPGA that is not configured (`FlagsFresh`), whatever words a killed run left in the FIFO. A
  byte shifted out of an empty word could end anywhere; the types (`WordsType`) exclude it.

**VmeWindowProofs.** First `FlagsAreRestored`, by `FlagsInvariant`. While no two calls have overlapped at most one
process is in a call (`OneCall`), and what it has saved is the driver's first value, from the ioctl that reads a flag
to the one that restores it; between the one that sets it and that one the flag may be anything, everywhere else it is
the first value (`FlagsKnown`). One lemma for each system call; the rest of the state is needed only as far as calls
find their own descriptor again (`ShapeInv`).

Then `MappedStays`, `NothingHeld` and `CreatedIsForced`. `MappedUntilUnmapped` speaks of idle processes
only, so `OwnInv` says it of every point of a call: whose file the descriptor names (`HasFile`), whether its window is
mapped and in the bridge (`Mapping`), and, by `vme_map`, that there is no other file. What makes this inductive for any
number of processes is that a step is confined to its own process (`Confined`): it touches no file of another, and takes
no window that one has mapped, since the driver destroys a window only when no other file has it. `OthersKeep` draws the
conclusion once, and each call is then looked at from its own process. `CreatedIsForced` rests on `ForceKnown` (the flag
is what the caller at `find` asked for) and on `OneCall` of `FlagsInv`. `TypeCorrect` adds that rounding a request down
never takes it below zero (`RoundedDown`) and that the bridge never has more windows than slots, since a window is
created only where one is free (`FindWindows`).

**Only model-checked:** all liveness (`DriverReturns`, `ExitStartsAfpga`, `TriggerActivates`, `ExitPassivates`,
`FlashBoots`, `CyclesAnswered`, `StoreRemoves`, `ToolEnds`): it rests on fairness and with it on ENABLED, which is out
of TLAPS's reach. The findings of section 5 are counterexamples, which only TLC can show.

## 5. Findings

1. `download_start`: when DONE rises after the last word, the loader goes to IDLE with CSR.DONE set, and IDLE ignores
   EXIT. No startup clocks are given to an AFPGA that was reported as configured (`xilinx_loader.vhd:251`, against
   the comment at :277).
2. `sfpga_boot_reset`: `erase_afpga_n_d0` has no reset value. A reset inside the erase pulse ends in an active
   bootloader, whose flash engine then boots the AFPGA: two VME cores (`svec_sfpga_top.vhd:331`, against
   the comment at :318).
3. `mini_vme_doc`: an access to this card's space outside the registers leaves `p_fsm` in DECODE_ADDR, and the next
   cycle, for another card, may be executed here with old data (`mini_vme.vhd:219`, against `hdl-bootloader.rst:43`).
4. `driver_stores`: `svec_fpga_exit` runs before the mutex is taken; two stores free the same structure twice
   (`svec-core.c:57`).

Met while modelling, without a run of their own:

* Hardware. One complete sequence after an interrupted one may be missed (`sfpga_bootloader.vhd:203`; a second one is
  not, see `SecondSequenceFires`). A card without a bitstream in flash becomes active without a trigger. A passive
  bootloader obeys SWRST, EXIT, FIFO and FAR writes, START alone is gated (`sfpga_bootloader.vhd:260`). After a reset
  that leaves the AFPGA configured, the flash is wired to the AFPGA; the engine reads no signature and erases a card
  whose flash is good (`svec_sfpga_top.vhd:367`).
* Driver. A store during the probe finds no `svec_fpga` yet and writes the AFPGA while its devices are being set up
  (`svec-core.c:555`; `DetachedInTurn` is about stores that do not overlap). `svec_fpga_devices_init` dereferences a
  null `vic_pdev` if the bitstream has no VIC. A failed initialisation leaks the device and its mapping
  (`svec-core-fpga.c:964`).
* Flasher, flash. The last page is read past the end of the image (`svec-flasher.c:254`); an image of more than 5 MiB
  overwrites the SDB header, with success reported, since the header was verified before; the sector erase for the
  header takes what `hw-spi-flash.rst:25` calls private data with it; a flash that never finishes is awaited for ever.
* Flasher, size of the image. `flash_program` loops to `n < size` and nobody compares the size with the flash
  (`svec-flasher.c:253`). Beyond 15 MiB (16 MiB with `-b`), `addr + n` needs a 25th bit, which the commands do not
  have (:198-200, :217-219): the erase and the program go to sector 0. So without `-b`, and without the confirmation
  that `hdl-bootloader.rst:129-134` speaks of, the bootloader is destroyed; `sector_map` is read and written past its
  end (:257, :262); and since the verifying read wraps too, "Programming OK." may be the answer. `BootloaderKept` and
  `GoodFlashSucceeds` are therefore about images that fit (`ImageFits`); without that restriction the run refutes
  both, the first with the image of 13 bytes, whose last byte lands in cell 0. `SuccessMeansStored` holds of every
  image: what is reported as stored compares equal at the addresses where the flash has it. The model reads
  `sector_map` past its end; what a write there does to the process is not modelled, beyond that the process may end
  at any step. Of a file whose size no `int` holds nothing would be written and success reported.
* Flasher, `-f`. XLAST marks short words only (`svec-flasher.c:365`; `hdl-bootloader.rst:89` speaks of the last word
  of the bitstream). The tool polls for ever if an image of whole words does not raise DONE before its end, if more
  than a FIFO follows DONE, or after words that a killed run left in the FIFO. EXIT is written after an error too, so
  the bus goes to an AFPGA that is not configured.
* Library. `find_controller` leaks its file, and the mapping made through it, on every error after `open`; it rounds
  the size down where its message announces the size above (`libvmebus.c:208`); it returns the address of the rounded
  base. Calls that overlap leave the flags changed, or create a window for a caller that did not force.

## 6. Plan

Done, in this order: BootTrigger, the loader, Download with its refinement, SfpgaBoot, MiniVme, SvecDriver, Flasher and
VmeWindow, and the proofs of all of them. Left:

1. **Register file**: the alias of CSR at 0x70020, which needs addresses in MiniVme.
2. **Abstract specifications** of a flash update and of a window call, in the way AfpgaLoad is one of a download, with
   the proof that Flasher and VmeWindow implement them.

## 7. Not modelled

* The SVEC base (`svec_base_wr.vhd`, its generated registers): resets and the DDR data port are single registers
  around cores of other repositories (VME64x, DDR, White Rabbit, VIC, I2C, SPI), whose behaviour would have to be
  guessed.
* The attributes of the AFPGA's device (temperatures, serial number, `reset_app`): single register accesses. RESETS is
  changed without a lock, but only ever in one bit, to the value of whoever writes last.
* The bus error queries of `libvmebus.c`: one ioctl each that changes nothing the library keeps.
* The bits and clocks of SPI, wiring and analogue matters, the example designs, tools that only print, generated
  headers.
