------------------------------ MODULE Flasher ------------------------------
(***************************************************************************)
(* svec-flasher.c: programs the SPI flash of a card over VME with a new    *)
(* bitstream for the AFPGA or for the System FPGA (-b), or loads the AFPGA *)
(* directly (-f).  The tool may be killed and the card may lose its power  *)
(* between any two steps; somebody may then run the tool again.            *)
(*                                                                         *)
(* A step is one SPI command, which no other host can interrupt, or one    *)
(* access to the loader's registers, between which the loader runs.        *)
(***************************************************************************)
EXTENDS XilinxLoader

CONSTANTS
  FlashSize,      \* bytes of the flash
  PageSize,       \* FLASH_PAGE_SIZE
  SectorSize,     \* the size of a sector, for each flash that the tool knows
  BitstreamBase,  \* BOOTLOADER_BITSTREAM_BASE
  SdbBase,        \* BOOTLOADER_SDB_BASE
  SdbLen,         \* sizeof(sdb_header)
  Sizes,          \* the sizes of the images
  WordLen,        \* bytes of a FIFO word (4)
  FifoDepth,      \* words of the FIFO (256)
  WornCells,      \* the cells of an old flash that may fail
  Runs            \* bound: how often the tool is run

Cells == 0 .. FlashSize - 1
FlashId == DOMAIN SectorSize

\* Of an image only its size is known, and the tool takes any (as long as an
\* int holds it).
ASSUME FlasherAssumption ==
  /\ FlashSize \in Nat /\ PageSize \in Nat \ {0}
  /\ \A id \in FlashId : SectorSize[id] \in Nat \ {0}
  /\ BitstreamBase \in Cells /\ SdbBase \in Cells /\ 0 < BitstreamBase
  /\ BitstreamBase < SdbBase
  /\ SdbLen \in 1 .. PageSize - 1
  /\ SdbBase + SdbLen <= FlashSize
  /\ WornCells \subseteq Cells
  /\ Sizes \subseteq Nat
  /\ WordLen \in Nat \ {0} /\ FifoDepth \in Nat \ {0}
  /\ Runs \in Nat

\* Sectors and pages are aligned blocks: no sector lies on both sides of the
\* base of a bitstream or of the header, and a page lies in one sector.
ASSUME AlignmentAssumption ==
  \A block \in {PageSize} \cup {SectorSize[id] : id \in FlashId} :
    \A base \in {BitstreamBase, SdbBase} :
      \A a, c \in Cells : a \div block = c \div block => (a < base <=> c < base)

ASSUME PageAssumption ==
  \A id \in FlashId :
    \A a, c \in Cells : a \div PageSize = c \div PageSize
                         => a \div SectorSize[id] = c \div SectorSize[id]

VARIABLES
  flash,      \* the contents of the flash
  busy,       \* the cells the flash is still erasing or programming
  card,       \* what answers in the slot: its flash, or why there is none
  worn,       \* the cells that may fail to store what is written
  mode,       \* what the tool does: "afpga", "boot" (-b) or "direct" (-f)
  size,       \* bytes of the image
  good,       \* the image is a bitstream the AFPGA accepts
  pc,         \* where the tool is
  addr, n,    \* flash_program: where the data go, and how far it is
  erased,     \* sector_map: the numbers of the sectors it has erased
  rv,         \* what the last run returned
  runs,       \* runs of the tool so far
  fifo        \* the words between the tool and the loader

flashVars == <<flash, busy, card, worn>>
argVars == <<mode, size, good, runs>>
loopVars == <<addr, n, erased>>
vars == <<xldrVars, flashVars, argVars, loopVars, pc, rv, fifo>>

Mode == {"afpga", "boot", "direct"}
Card == FlashId \cup {"absent", "old_bootloader", "unknown_flash"}
Pc == {"idle", "identify", "confirm", "program", "wait", "verify",
       "swrst", "start", "fill", "poll", "exit"}
Result == {"none", "ok", "failed", "refused"}

\* A byte of the flash: erased, of one of the files the tool knows, or else.
Byte(of, i) == [of |-> of, at |-> i]
Blank == Byte("blank", 0)
Other == Byte("other", 0)
Content == [of : {"blank", "other", "sdb", "image"}, at : Nat]

TypeOK ==
  /\ XldrTypeOK
  /\ flash \in [Cells -> Content]
  /\ busy \subseteq Cells
  /\ card \in Card
  /\ worn \subseteq Cells
  /\ mode \in Mode
  /\ size \in Sizes
  /\ good \in BOOLEAN
  /\ pc \in Pc
  /\ addr \in {0, BitstreamBase, SdbBase}
  /\ n \in Nat
  /\ erased \subseteq Nat
  /\ rv \in Result
  /\ runs \in 0 .. Runs
  /\ fifo \in Seq([bytes : Seq(Int), last : BOOLEAN])

\* The flash is new, or holds something where the bitstreams belong.
Init ==
  /\ XldrInit
  /\ \E before \in {Blank, Other} : flash = [c \in Cells |-> before]
  /\ busy = {}
  /\ card \in Card
  /\ worn \in {{}, WornCells}
  /\ mode = "afpga"
  /\ size \in Sizes
  /\ good = TRUE
  /\ pc = "idle"
  /\ addr = 0
  /\ n = 0
  /\ erased = {}
  /\ rv = "none"
  /\ runs = 0
  /\ fifo = <<>>

\* The process ends; its local variables go with it.
Return(value) ==
  /\ pc' = "idle"
  /\ rv' = value
  /\ addr' = 0
  /\ n' = 0
  /\ erased' = {}

-----------------------------------------------------------------------------
(* The flash.                                                              *)

\* The cell of an address, of which the commands send 24 bits and no more.
Wrap(a) == a % FlashSize

\* The aligned block of a size that holds cell a.
Block(a, block) == {c \in Cells : c \div block = a \div block}
SectorAt(a) == Block(a, SectorSize[card])
PageAt(a) == Block(a, PageSize)
Sector(a) == a \div SectorSize[card]

\* Programming only clears bits: over a byte that was not erased it leaves
\* neither the old one nor the new one.
Programmed(old, new) ==
  CASE old = Blank -> new
    [] new \in {Blank, old} -> old
    [] OTHER -> Other

\* An erase or a program of some cells, after WREN.  A busy flash ignores both;
\* a worn one may get it wrong.
Execute(new) ==
  IF busy = {}
  THEN /\ \E wrong \in {{}, worn} :
            flash' = [c \in Cells |-> IF c \notin DOMAIN new THEN flash[c]
                                      ELSE IF c \in wrong THEN Other ELSE new[c]]
       /\ busy' = DOMAIN new
  ELSE UNCHANGED <<flash, busy>>

\* The flash finishes an erase or a program.
FlashFinishes ==
  /\ busy # {}
  /\ busy' = {}
  /\ UNCHANGED <<xldrVars, flash, card, worn, argVars, loopVars, pc, rv, fifo>>

\* What was being erased or programmed may be lost, the AFPGA forgets its
\* configuration, and the tool does not get an answer any more.
PowerLoss ==
  /\ runs < Runs
  /\ pc # "idle"
  /\ \E torn \in {{}, busy} :
       flash' = [c \in Cells |-> IF c \in torn THEN Other ELSE flash[c]]
  /\ busy' = {}
  /\ Return("none")
  /\ state' = "IDLE"
  /\ csr_done' = FALSE
  /\ csr_error' = FALSE
  /\ afpga' = IF alive THEN "clearing" ELSE afpga
  /\ received' = <<>>
  /\ fifo' = <<>>
  /\ UNCHANGED <<d_data, d_last, alive, card, worn, argVars>>

-----------------------------------------------------------------------------
(* main, init_vme and enter_bootloader.                                    *)

\* The trigger sequence clears the AFPGA, if there is a card.
EnterBootloader ==
  IF card = "absent"
  THEN Return("refused") /\ UNCHANGED afpgaVars
  ELSE /\ ClearAfpga
       /\ pc' = IF mode' = "direct" THEN "swrst" ELSE "identify"
       /\ rv' = "none"
       /\ UNCHANGED loopVars

Main ==
  /\ pc = "idle"
  /\ runs < Runs
  /\ runs' = runs + 1
  /\ mode' \in Mode
  /\ size' \in Sizes
  /\ good' \in IF mode' = "direct" THEN BOOLEAN ELSE {TRUE}
  /\ EnterBootloader
  /\ UNCHANGED <<loaderVars, alive, flashVars, fifo>>

-----------------------------------------------------------------------------
(* program_flash.                                                          *)

\* What flash_program starts with.
Begin(base) ==
  /\ addr' = base
  /\ n' = 0
  /\ erased' = {}
  /\ pc' = "program"

\* spi_test_presence and flash_read_id: a flash that is busy does not tell
\* its identity.
FlashAnswers == card \in FlashId /\ busy = {}

Identify ==
  /\ pc = "identify"
  /\ IF FlashAnswers
     THEN /\ rv' = rv
          /\ IF mode = "boot" THEN pc' = "confirm" /\ UNCHANGED loopVars
                              ELSE Begin(SdbBase)
     ELSE Return("refused")
  /\ UNCHANGED <<xldrVars, flashVars, argVars, fifo>>

Confirm ==
  /\ pc = "confirm"
  /\ \/ Begin(0) /\ rv' = rv
     \/ Return("refused")
  /\ UNCHANGED <<xldrVars, flashVars, argVars, fifo>>

\* The data that flash_program was called with.
DataLen == IF addr = SdbBase THEN SdbLen ELSE size
Data(i) == Byte(IF addr = SdbBase THEN "sdb" ELSE "image", i)

\* plen is that of the first page, for every page.
PageLen == IF DataLen > PageSize THEN PageSize ELSE DataLen

\* Fault: the data are sent from the byte before them.
SentFromBefore(i, junk) == IF n + i <= DataLen THEN Data(n + i - 1) ELSE junk

\* Byte i of the page that is sent: short data are padded, but the last page
\* of longer data goes on with what follows them in memory.
Sent(i, junk) ==
  CASE n + i < DataLen -> Data(n + i)
    [] n + i >= DataLen /\ i < PageLen -> junk
    [] OTHER -> Blank

\* The cell that the loop has come to.
Target == Wrap(addr + n)

\* The page at this cell when the first k bytes of it have been sent.
PageOf(k, junk) ==
  [c \in PageAt(Target) |->
     IF c - Target \in 0 .. k - 1
     THEN Programmed(flash[c], Sent(c - Target, junk))
     ELSE flash[c]]

InLoop == pc = "program" /\ n < DataLen

\* What sector_map[sector] says.  The number is computed from the whole address,
\* and the map has an entry for each sector of the flash: what is read beyond it
\* is not determined.
BeyondMap == addr + n >= FlashSize
MayErase == Sector(addr + n) \notin erased
MayProgram == Sector(addr + n) \in erased \/ BeyondMap

\* Fault: the sector's number is computed without the address.
EraseWrongSector ==
  /\ InLoop
  /\ Sector(n) \notin erased
  /\ Execute([c \in SectorAt(Wrap(n)) |-> Blank])
  /\ erased' = erased \cup {Sector(n)}
  /\ pc' = "wait"
  /\ UNCHANGED <<xldrVars, card, worn, argVars, addr, n, rv, fifo>>

\* A sector is erased when the loop comes to its first page.
EraseSector ==
  /\ InLoop
  /\ MayErase
  /\ Execute([c \in SectorAt(Target) |-> Blank])
  /\ erased' = erased \cup {Sector(addr + n)}
  /\ pc' = "wait"
  /\ UNCHANGED <<xldrVars, card, worn, argVars, addr, n, rv, fifo>>

\* Fault: nobody waits for the end of the program.
ProgramWithoutWait ==
  /\ InLoop
  /\ MayProgram
  /\ \E junk \in {Blank, Other} : Execute(PageOf(PageSize, junk))
  /\ n' = n + PageLen
  /\ UNCHANGED <<xldrVars, card, worn, argVars, addr, erased, pc, rv, fifo>>

ProgramPage ==
  /\ InLoop
  /\ MayProgram
  /\ \E junk \in {Blank, Other} : Execute(PageOf(PageSize, junk))
  /\ n' = n + PageLen
  /\ pc' = "wait"
  /\ UNCHANGED <<xldrVars, card, worn, argVars, addr, erased, rv, fifo>>

\* flash_wait_completion, which has no timeout.
WaitCompletion ==
  /\ pc = "wait"
  /\ busy = {}
  /\ pc' = "program"
  /\ UNCHANGED <<xldrVars, flashVars, argVars, loopVars, rv, fifo>>

StartVerification ==
  /\ pc = "program"
  /\ n >= DataLen
  /\ n' = 0
  /\ pc' = "verify"
  /\ UNCHANGED <<xldrVars, flashVars, argVars, addr, erased, rv, fifo>>

VerifyByte ==
  /\ pc = "verify"
  /\ n < DataLen
  /\ IF flash[Target] = Data(n)
     THEN n' = n + 1 /\ UNCHANGED <<pc, rv, addr, erased>>
     ELSE Return("failed")
  /\ UNCHANGED <<xldrVars, flashVars, argVars, fifo>>

\* Fault: the last byte is not compared.
VerifiedTooEarly ==
  /\ pc = "verify"
  /\ n >= DataLen - 1
  /\ IF addr = SdbBase THEN Begin(BitstreamBase) /\ rv' = rv
                       ELSE Return("ok")
  /\ UNCHANGED <<xldrVars, flashVars, argVars, fifo>>

\* The header comes first, then the bitstream.
Verified ==
  /\ pc = "verify"
  /\ n >= DataLen
  /\ IF addr = SdbBase THEN Begin(BitstreamBase) /\ rv' = rv
                       ELSE Return("ok")
  /\ UNCHANGED <<xldrVars, flashVars, argVars, fifo>>

ProgramFlash ==
  \/ Identify
  \/ Confirm
  \/ EraseSector
  \/ ProgramPage
  \/ WaitCompletion
  \/ StartVerification
  \/ VerifyByte
  \/ Verified

-----------------------------------------------------------------------------
(* program_afpga.                                                          *)

directUnchanged == <<flashVars, argVars, addr, erased>>

WriteSwrst ==
  /\ pc = "swrst"
  /\ Swrst
  /\ pc' = "start"
  /\ UNCHANGED <<directUnchanged, n, rv, fifo>>

WriteStart ==
  /\ pc = "start"
  /\ Start
  /\ n' = 0
  /\ pc' = IF size > 0 THEN "fill" ELSE "poll"
  /\ UNCHANGED <<directUnchanged, rv, fifo>>

WordAt(i) ==
  [k \in 1 .. (IF size - i > WordLen THEN WordLen ELSE size - i) |->
     IF good THEN i + k ELSE 0]

\* Fault: no word is marked as the last one.
FillUnmarked ==
  /\ pc = "fill"
  /\ n < size
  /\ Len(fifo) < FifoDepth
  /\ fifo' = Append(fifo, [bytes |-> WordAt(n), last |-> FALSE])
  /\ n' = n + Len(WordAt(n))
  /\ pc' = IF n' < size THEN "fill" ELSE "poll"
  /\ UNCHANGED <<xldrVars, directUnchanged, rv>>

\* A short word is the last one; a last word that is not short is not marked.
\* A FIFO that stays full is polled for ever.
FillWord ==
  /\ pc = "fill"
  /\ n < size
  /\ Len(fifo) < FifoDepth
  /\ fifo' = Append(fifo, [bytes |-> WordAt(n), last |-> Len(WordAt(n)) < WordLen])
  /\ n' = n + Len(WordAt(n))
  /\ pc' = IF n' < size THEN "fill" ELSE "poll"
  /\ UNCHANGED <<xldrVars, directUnchanged, rv>>

\* Fault: CSR.ERROR is not looked at.
DoneIsSuccess ==
  /\ pc = "poll"
  /\ csr_done
  /\ rv' = "ok"
  /\ pc' = "exit"
  /\ UNCHANGED <<xldrVars, directUnchanged, n, fifo>>

PollDone ==
  /\ pc = "poll"
  /\ csr_done
  /\ rv' = IF csr_error THEN "failed" ELSE "ok"
  /\ pc' = "exit"
  /\ UNCHANGED <<xldrVars, directUnchanged, n, fifo>>

\* The AFPGA gets the bus, whether it is configured or not.
WriteExit ==
  /\ pc = "exit"
  /\ StartupPulse
  /\ Return(rv)
  /\ UNCHANGED <<flashVars, argVars, fifo>>

ProgramAfpga ==
  \/ WriteSwrst
  \/ WriteStart
  \/ FillWord
  \/ PollDone
  \/ WriteExit

\* The loader takes a word, or drops it in IDLE.
TakeWord ==
  /\ fifo # <<>>
  /\ Fetch(Head(fifo).bytes, Head(fifo).last) \/ Drop
  /\ fifo' = Tail(fifo)
  /\ UNCHANGED <<directUnchanged, n, pc, rv>>

LoaderStep ==
  /\ Internal \/ AfpgaReady
  /\ UNCHANGED <<directUnchanged, n, pc, rv, fifo>>

AfpgaConfigured ==
  /\ AfpgaDone
  /\ UNCHANGED <<directUnchanged, n, pc, rv, fifo>>

-----------------------------------------------------------------------------
\* Ctrl-C.  A page that was being sent is programmed as far as it came.
Kill ==
  /\ pc # "idle"
  /\ runs < Runs
  /\ IF InLoop /\ MayProgram
     THEN \E k \in 0 .. PageSize : Execute(PageOf(k, Blank))
     ELSE UNCHANGED <<flash, busy>>
  /\ Return("none")
  /\ UNCHANGED <<xldrVars, card, worn, argVars, fifo>>

Next ==
  \/ Main
  \/ ProgramFlash
  \/ ProgramAfpga
  \/ FlashFinishes
  \/ TakeWord
  \/ LoaderStep
  \/ AfpgaConfigured
  \/ Kill
  \/ PowerLoss

Spec == Init /\ [][Next]_vars

\* The tool goes on as long as it can, the flash finishes what it began, the
\* loader is clocked.  Nothing makes an AFPGA accept a bitstream.
Fairness ==
  /\ WF_vars(ProgramFlash)
  /\ WF_vars(ProgramAfpga)
  /\ WF_vars(FlashFinishes)
  /\ WF_vars(TakeWord)
  /\ WF_vars(LoaderStep)

FairSpec == Spec /\ Fairness

-----------------------------------------------------------------------------
(* Properties.                                                             *)

\* The files as the tool was given them, where the System FPGA looks for them.
ImageStored(base) == \A i \in 0 .. size - 1 : flash[Wrap(base + i)] = Byte("image", i)
HeaderStored == \A i \in 0 .. SdbLen - 1 : flash[SdbBase + i] = Byte("sdb", i)

\* When the tool says "Programming OK." the flash holds the whole image, and
\* the header that makes the flash boot engine find it: whatever the flash held
\* or forgot, and although the header was verified before the bitstream was
\* written.  (An image that is longer than its place overwrites the header.)
SuccessMeansStored ==
  rv = "ok" =>
    /\ mode = "boot" => ImageStored(0)
    /\ mode = "afpga" =>
         ImageStored(BitstreamBase) /\ (BitstreamBase + size <= SdbBase => HeaderStored)

\* The image ends before the flash does.  Nothing in the tool sees to it.
ImageFits ==
  CASE mode = "boot" -> size <= FlashSize
    [] mode = "afpga" -> BitstreamBase + size <= FlashSize
    [] mode = "direct" -> TRUE

\* A flash that works is programmed without an error with an image that fits:
\* every byte is erased once before it is programmed, whatever an earlier run,
\* killed or cut off at any point, has left in it.
GoodFlashSucceeds == (rv = "failed" /\ mode # "direct" /\ ImageFits) => worn # {}

\* Without -b an image that fits leaves the bootloader's bitstream alone, even
\* if the run is interrupted: the card can be programmed again over VME.  (An
\* image that does not fit goes on at the beginning of the flash and destroys
\* the bootloader.  The power may go while the flash is still busy with what an
\* earlier, killed run was writing there.)
BootloaderKept ==
  [][mode # "boot" /\ ImageFits =>
       \A c \in 0 .. BitstreamBase - 1 : c \notin busy => flash'[c] = flash[c]]_vars

\* -f reports success only of an AFPGA that has taken the bitstream, and whose
\* flags are not those of an earlier run.
DirectMeansConfigured == (rv = "ok" /\ mode = "direct" /\ pc # "idle") => Done

\* The tool ends, whatever the flash, the card and the image are -- unless it
\* loads an image directly whose end the loader is not told (it consists of whole
\* words), of which more follows the end of the bitstream than the FIFO takes
\* when nobody empties it, or after words that a killed run left in the FIFO.
EndsOnItsOwn ==
  mode = "direct" =>
    /\ size % WordLen # 0
    /\ size <= ConfigLen + FifoDepth * WordLen
    /\ runs = 1

ToolEnds == (pc # "idle" /\ EndsOnItsOwn) ~> (pc = "idle")
=============================================================================
