--------------------------- MODULE FlasherProofs ---------------------------
(***************************************************************************)
(* Proofs about Flasher for every flash, image size and number of runs,    *)
(* whatever options the runs have.                                         *)
(***************************************************************************)
EXTENDS Flasher, SequenceTheorems, TLAPS

FlashPc == {"program", "wait", "verify"}
DirectPc == {"swrst", "start", "fill", "poll", "exit"}

\* The types the proofs need, and what the tool does in each mode.
PhaseInv ==
  /\ pc \in Pc
  /\ mode \in Mode
  /\ size \in Sizes
  /\ n \in Nat
  /\ pc = "identify" => mode # "direct"
  /\ pc = "confirm" => mode = "boot" /\ card \in FlashId
  /\ pc \in FlashPc =>
       /\ card \in FlashId
       /\ \/ mode = "boot" /\ addr = 0
          \/ mode = "afpga" /\ addr \in {BitstreamBase, SdbBase}
  /\ pc \in DirectPc => mode = "direct"
  /\ rv = "ok" => pc \in {"idle", "exit"}

Fits == BitstreamBase + size <= SdbBase

\* While the bitstream is programmed, the header that was verified before it
\* stays; while something is verified, what has been compared is as it should be.
StoredInv ==
  /\ (pc \in FlashPc /\ mode = "afpga" /\ addr = BitstreamBase /\ Fits) => HeaderStored
  /\ pc = "verify" => \A k \in Nat : (k < n /\ k < DataLen) => flash[Wrap(addr + k)] = Data(k)

VerifiedInv == PhaseInv /\ StoredInv /\ SuccessMeansStored

-----------------------------------------------------------------------------
(* The flash.                                                              *)

\* An erase or a program changes no cell but its own.
LEMMA ExecuteKeeps ==
  ASSUME NEW new, Execute(new), NEW c \in Cells, c \notin DOMAIN new
  PROVE  flash'[c] = flash[c]
  <1>1. CASE busy = {}
    <2>1. PICK wrong \in {{}, worn} :
            flash' = [d \in Cells |-> IF d \notin DOMAIN new THEN flash[d]
                                      ELSE IF d \in wrong THEN Other ELSE new[d]]
      BY <1>1 DEF Execute
    <2>2. QED
      BY <2>1
  <1>2. CASE busy # {}
    BY <1>2 DEF Execute
  <1>3. QED
    BY <1>1, <1>2

\* Every address has a cell, that of the same number if the flash reaches so far.
LEMMA WrapIsCell ==
  ASSUME NEW a \in Nat
  PROVE  Wrap(a) \in Cells /\ Wrap(a) \in Nat /\ (a < FlashSize => Wrap(a) = a)
  <1>1. FlashSize \in Nat \ {0}
    BY FlasherAssumption DEF FlasherAssumption, Cells
  <1>2. Wrap(a) \in 0 .. FlashSize - 1 /\ (a < FlashSize => Wrap(a) = a)
    BY <1>1 DEF Wrap
  <1>3. QED
    BY <1>1, <1>2 DEF Cells

\* The data of a pass and, if they fit, where they are.
LEMMA DataAddress ==
  ASSUME PhaseInv, pc \in FlashPc, NEW k \in Nat
  PROVE  /\ addr \in Nat /\ addr + k \in Nat /\ Wrap(addr + k) \in Cells
         /\ k < DataLen /\ (ImageFits \/ addr = SdbBase) =>
              addr + k \in Cells /\ Wrap(addr + k) = addr + k
  <1> USE FlasherAssumption DEF FlasherAssumption
  <1>1. addr \in Nat /\ addr + k \in Nat
    BY DEF PhaseInv, Cells
  <1>2. /\ \/ mode = "boot" /\ addr = 0
           \/ mode = "afpga" /\ addr \in {BitstreamBase, SdbBase}
        /\ size \in Nat
    BY DEF PhaseInv
  <1>3. ASSUME k < DataLen, ImageFits \/ addr = SdbBase PROVE addr + k < FlashSize
    <2>1. CASE addr = SdbBase
      BY <1>2, <1>3, <2>1 DEF DataLen, Cells
    <2>2. CASE addr # SdbBase /\ mode = "boot"
      <3>1. size <= FlashSize /\ addr = 0 /\ DataLen = size
        BY <1>2, <1>3, <2>2 DEF ImageFits, DataLen
      <3>2. QED
        BY <1>2, <1>3, <3>1
    <2>3. CASE addr # SdbBase /\ mode = "afpga"
      <3>1. BitstreamBase + size <= FlashSize /\ addr = BitstreamBase /\ DataLen = size
        BY <1>2, <1>3, <2>3 DEF ImageFits, DataLen
      <3>2. QED
        BY <1>2, <1>3, <3>1 DEF Cells
    <2>4. QED
      BY <1>2, <2>1, <2>2, <2>3
  <1>4. addr + k < FlashSize => addr + k \in Cells
    BY <1>1 DEF Cells
  <1>5. QED
    BY <1>1, <1>3, <1>4, WrapIsCell

\* The cell the loop has come to, which is that of the address if the image fits.
LEMMA LoopInFlash ==
  ASSUME PhaseInv, InLoop
  PROVE  /\ Target \in Cells /\ Target \in Nat /\ addr + n \in Nat /\ DataLen \in Nat
         /\ (ImageFits \/ addr = SdbBase) => Target = addr + n
  <1>1. pc \in FlashPc /\ n \in Nat /\ n < DataLen
    BY DEF PhaseInv, InLoop, FlashPc
  <1>2. DataLen \in Nat
    BY FlasherAssumption DEF FlasherAssumption, PhaseInv, DataLen
  <1>3. /\ Target \in Cells /\ addr + n \in Nat
        /\ (ImageFits \/ addr = SdbBase) => Target = addr + n
    BY <1>1, DataAddress DEF Target
  <1>4. QED
    BY <1>2, <1>3, FlasherAssumption DEF Cells, FlasherAssumption

\* No sector and no page lies on both sides of a base.
LEMMA BlockOnOneSide ==
  ASSUME NEW block \in {PageSize} \cup {SectorSize[id] : id \in FlashId},
         NEW base \in {BitstreamBase, SdbBase},
         NEW a \in Cells, NEW c \in Block(a, block)
  PROVE  c \in Cells /\ (c < base <=> a < base)
  <1>1. c \in Cells /\ c \div block = a \div block
    BY DEF Block
  <1>2. QED
    BY <1>1, AlignmentAssumption DEF AlignmentAssumption

Writes == EraseSector \/ ProgramPage \/ (Kill /\ InLoop)

\* What is on the other side of a base than the data is not changed.
LEMMA OtherSideKept ==
  ASSUME PhaseInv, InLoop, Writes,
         NEW base \in {BitstreamBase, SdbBase},
         NEW c \in Cells, ~(c < base <=> Target < base)
  PROVE  flash'[c] = flash[c]
  <1>1. Target \in Cells
    BY LoopInFlash
  <1>2. card \in FlashId
    BY DEF PhaseInv, InLoop, FlashPc
  <1>3. c \notin SectorAt(Target)
    BY <1>1, <1>2, BlockOnOneSide DEF SectorAt
  <1>4. c \notin PageAt(Target)
    BY <1>1, BlockOnOneSide DEF PageAt
  <1>5. CASE EraseSector
    <2>1. Execute([d \in SectorAt(Target) |-> Blank])
      BY <1>5 DEF EraseSector
    <2>2. QED
      BY <2>1, <1>3, ExecuteKeeps
  <1>6. ASSUME NEW k, NEW junk, Execute(PageOf(k, junk))
        PROVE  flash'[c] = flash[c]
    <2>1. DOMAIN PageOf(k, junk) = PageAt(Target)
      BY DEF PageOf
    <2>2. QED
      BY <2>1, <1>4, <1>6, ExecuteKeeps
  <1>7. CASE ProgramPage
    <2>1. PICK junk \in {Blank, Other} : Execute(PageOf(PageSize, junk))
      BY <1>7 DEF ProgramPage
    <2>2. QED
      BY <2>1, <1>6
  <1>8. CASE Kill
    <2>1. CASE MayProgram
      <3>1. PICK k \in 0 .. PageSize : Execute(PageOf(k, Blank))
        BY <1>8, <2>1 DEF Kill
      <3>2. QED
        BY <3>1, <1>6
    <2>2. CASE ~MayProgram
      BY <1>8, <2>2 DEF Kill
    <2>3. QED
      BY <2>1, <2>2
  <1>9. QED
    BY <1>5, <1>7, <1>8 DEF Writes

-----------------------------------------------------------------------------
(* The phases.                                                             *)

LEMMA PhaseInit == Init => PhaseInv
  BY DEF Init, PhaseInv, Pc, Mode, FlashPc, DirectPc

\* What flash_program has yet to do stays a number of bytes.
LEMMA LengthsAreNumbers ==
  ASSUME PhaseInv
  PROVE  DataLen \in Nat /\ PageLen \in Nat /\ n + PageLen \in Nat
  <1>1. DataLen \in Nat
    BY FlasherAssumption DEF FlasherAssumption, PhaseInv, DataLen
  <1>2. PageLen \in Nat
    BY <1>1, FlasherAssumption DEF FlasherAssumption, PageLen
  <1>3. QED
    BY <1>1, <1>2 DEF PhaseInv

LEMMA PhaseFlash == PhaseInv /\ ProgramFlash => PhaseInv'
  <1> SUFFICES ASSUME PhaseInv, ProgramFlash PROVE PhaseInv'
    OBVIOUS
  <1> USE DEF PhaseInv, Pc, Mode, FlashPc, DirectPc, argVars, flashVars, loopVars
  <1>1. CASE Identify
    BY <1>1, FlasherAssumption DEF FlasherAssumption, Identify, FlashAnswers, Begin, Return
  <1>2. CASE Confirm
    BY <1>2 DEF Confirm, Begin, Return
  <1>3. CASE EraseSector
    BY <1>3 DEF EraseSector, InLoop
  <1>4. CASE ProgramPage
    BY <1>4, LengthsAreNumbers DEF ProgramPage, InLoop
  <1>5. CASE WaitCompletion
    BY <1>5 DEF WaitCompletion
  <1>6. CASE StartVerification
    BY <1>6 DEF StartVerification
  <1>7. CASE VerifyByte
    BY <1>7 DEF VerifyByte, Return
  <1>8. CASE Verified
    <2>1. CASE addr = SdbBase
      <3>1. mode = "afpga"
        BY <1>8, <2>1, FlasherAssumption DEF FlasherAssumption, Cells, Verified
      <3>2. QED
        BY <1>8, <2>1, <3>1 DEF Verified, Begin
    <2>2. CASE addr # SdbBase
      BY <1>8, <2>2 DEF Verified, Return
    <2>3. QED
      BY <2>1, <2>2
  <1>9. QED
    BY <1>1, <1>2, <1>3, <1>4, <1>5, <1>6, <1>7, <1>8 DEF ProgramFlash

LEMMA PhaseDirect == PhaseInv /\ ProgramAfpga => PhaseInv'
  <1> SUFFICES ASSUME PhaseInv, ProgramAfpga PROVE PhaseInv'
    OBVIOUS
  <1> USE DEF PhaseInv, Pc, Mode, FlashPc, DirectPc, argVars, flashVars, directUnchanged
  <1>1. CASE WriteSwrst
    BY <1>1 DEF WriteSwrst
  <1>2. CASE WriteStart
    BY <1>2 DEF WriteStart
  <1>3. CASE FillWord
    <2>1. n' \in Nat
      <3>1. size - n \in Nat /\ WordLen \in Nat
        BY <1>3, FlasherAssumption DEF FlasherAssumption, FillWord
      <3>2. Len(WordAt(n)) \in Nat
        BY <3>1 DEF WordAt
      <3>3. QED
        BY <1>3, <3>2 DEF FillWord
    <2>2. pc' \in {"fill", "poll"} /\ mode' = mode /\ size' = size /\ rv' = rv
          /\ mode = "direct" /\ rv # "ok"
      BY <1>3 DEF FillWord
    <2>3. QED
      BY <2>1, <2>2
  <1>4. CASE PollDone
    BY <1>4 DEF PollDone
  <1>5. CASE WriteExit
    BY <1>5 DEF WriteExit, Return
  <1>6. QED
    BY <1>1, <1>2, <1>3, <1>4, <1>5 DEF ProgramAfpga

LEMMA PhaseOther ==
  PhaseInv /\ (Main \/ FlashFinishes \/ TakeWord \/ LoaderStep \/ AfpgaConfigured
               \/ Kill \/ PowerLoss \/ UNCHANGED vars)
  => PhaseInv'
  <1> SUFFICES ASSUME PhaseInv,
                      \/ Main \/ FlashFinishes \/ TakeWord \/ LoaderStep
                      \/ AfpgaConfigured \/ Kill \/ PowerLoss \/ UNCHANGED vars
               PROVE  PhaseInv'
    OBVIOUS
  <1> USE DEF PhaseInv, Pc, Mode, FlashPc, DirectPc, argVars, flashVars, loopVars
  <1>1. CASE Main
    <2>1. CASE card = "absent"
      BY <1>1, <2>1 DEF Main, EnterBootloader, Return
    <2>2. CASE card # "absent"
      BY <1>1, <2>2 DEF Main, EnterBootloader
    <2>3. QED
      BY <2>1, <2>2
  <1>2. CASE FlashFinishes
    BY <1>2 DEF FlashFinishes
  <1>3. CASE TakeWord \/ LoaderStep \/ AfpgaConfigured
    BY <1>3 DEF TakeWord, LoaderStep, AfpgaConfigured, directUnchanged
  <1>4. CASE Kill \/ PowerLoss
    BY <1>4 DEF Kill, PowerLoss, Return
  <1>5. CASE UNCHANGED vars
    BY <1>5 DEF vars
  <1>6. QED
    BY <1>1, <1>2, <1>3, <1>4, <1>5

-----------------------------------------------------------------------------
(* Types.                                                                  *)

Word == [bytes : Seq(Int) \ {<<>>}, last : BOOLEAN]

LoaderType ==
  /\ state \in LoaderState
  /\ csr_done \in BOOLEAN
  /\ csr_error \in BOOLEAN
  /\ d_last \in BOOLEAN
  /\ afpga \in AfpgaState
  /\ alive \in BOOLEAN

\* No word is empty, and the loader shifts only what it has.
WordsType ==
  /\ fifo \in Seq(Word)
  /\ d_data \in Seq(Int)
  /\ received \in Seq(Int)
  /\ state = "SHIFT" => d_data # <<>>

FlashType ==
  /\ flash \in [Cells -> Content]
  /\ busy \subseteq Cells
  /\ card \in Card
  /\ worn \subseteq Cells
  /\ erased \subseteq Nat

RunType ==
  /\ good \in BOOLEAN
  /\ addr \in {0, BitstreamBase, SdbBase}
  /\ rv \in Result
  /\ runs \in 0 .. Runs

TypeInv == LoaderType /\ WordsType /\ FlashType /\ RunType

LEMMA EmptyLen ==
  ASSUME NEW S, NEW s \in Seq(S)
  PROVE  Len(s) \in Nat /\ (s # <<>> <=> Len(s) > 0)
  BY EmptySeq

LEMMA TypesInit == Init => TypeInv
  <1> SUFFICES ASSUME Init PROVE TypeInv
    OBVIOUS
  <1>1. LoaderType
    BY DEF Init, XldrInit, LoaderType, LoaderState, AfpgaState
  <1>2. WordsType
    BY EmptySeq DEF Init, XldrInit, WordsType
  <1>3. FlashType
    <2>1. Blank \in Content /\ Other \in Content
      BY DEF Blank, Other, Byte, Content
    <2>2. QED
      BY <2>1, FlasherAssumption DEF Init, FlashType, FlasherAssumption
  <1>4. RunType
    BY FlasherAssumption DEF Init, RunType, Result, FlasherAssumption
  <1>5. QED
    BY <1>1, <1>2, <1>3, <1>4 DEF TypeInv

LEMMA TypesSuffice == PhaseInv /\ TypeInv => TypeOK
  <1> SUFFICES ASSUME PhaseInv, TypeInv PROVE TypeOK
    OBVIOUS
  <1>1. XldrTypeOK
    BY DEF TypeInv, LoaderType, WordsType, XldrTypeOK
  <1>2. fifo \in Seq([bytes : Seq(Int), last : BOOLEAN])
    <2>1. Word \subseteq [bytes : Seq(Int), last : BOOLEAN]
      BY DEF Word
    <2>2. fifo \in Seq(Word)
      BY DEF TypeInv, WordsType
    <2>3. QED
      BY <2>1, <2>2, SeqMonotonic
  <1>3. QED
    BY <1>1, <1>2 DEF TypeOK, PhaseInv, TypeInv, FlashType, RunType

\* A byte goes out of a word that has one; the word is over after its last.
LEMMA ShiftResult ==
  ASSUME WordsType, ShiftByte
  PROVE  /\ d_data' \in Seq(Int) /\ received' \in Seq(Int)
         /\ \/ state' = "SHIFT" /\ d_data' # <<>>
            \/ state' = IF d_last THEN "WAIT_DONE" ELSE "READ_FIFO"
  <1>1. /\ d_data \in Seq(Int) /\ d_data # <<>> /\ received \in Seq(Int)
        /\ d_data' = Tail(d_data)
    BY DEF WordsType, ShiftByte
  <1>2. /\ Head(d_data) \in Int /\ d_data' \in Seq(Int)
        /\ Len(d_data') = Len(d_data) - 1
    BY <1>1, HeadTailProperties
  <1>3. received' \in Seq(Int)
    <2>1. Append(received, Head(d_data)) \in Seq(Int)
      BY <1>1, <1>2, AppendProperties
    <2>2. QED
      BY <1>1, <2>1 DEF ShiftByte
  <1>4. PICK k \in Nat : k = Len(d_data) /\ k > 0
    BY <1>1, EmptyLen
  <1>5. state' = CASE k > 1 -> "SHIFT"
                   [] k = 1 -> IF d_last THEN "WAIT_DONE" ELSE "READ_FIFO"
    BY <1>4 DEF ShiftByte
  <1>6. CASE k > 1
    <2>1. d_data' # <<>>
      BY <1>2, <1>4, <1>6, EmptyLen
    <2>2. state' = "SHIFT"
      BY <1>5, <1>6
    <2>3. QED
      BY <1>2, <1>3, <2>1, <2>2
  <1>7. CASE k = 1
    BY <1>2, <1>3, <1>5, <1>7
  <1>8. QED
    BY <1>4, <1>6, <1>7

\* The word that goes into the FIFO, and the one that comes out of it.
LEMMA FilledWord ==
  ASSUME PhaseInv, WordsType, FillWord
  PROVE  n' \in Nat /\ fifo' \in Seq(Word)
  <1>1. size - n \in Nat /\ size - n > 0 /\ WordLen \in Nat /\ WordLen > 0 /\ n \in Nat
    BY FlasherAssumption DEF FlasherAssumption, FillWord, PhaseInv
  <1>2. PICK k \in Nat : k = (IF size - n > WordLen THEN WordLen ELSE size - n) /\ k > 0
    BY <1>1
  <1>3. WordAt(n) = [j \in 1 .. k |-> IF good THEN n + j ELSE 0]
    BY <1>2 DEF WordAt
  <1>4. WordAt(n) \in Seq(Int) /\ Len(WordAt(n)) = k
    BY <1>1, <1>2, <1>3
  <1>5. WordAt(n) # <<>>
    BY <1>2, <1>4, EmptyLen
  <1> DEFINE word == [bytes |-> WordAt(n), last |-> Len(WordAt(n)) < WordLen]
  <1>6. word \in Word
    BY <1>4, <1>5 DEF Word
  <1>7. n' = n + k
    BY <1>4 DEF FillWord
  <1>8. fifo' = Append(fifo, word)
    BY DEF FillWord
  <1> HIDE DEF word
  <1>9. fifo' \in Seq(Word)
    BY <1>6, <1>8, AppendProperties DEF WordsType
  <1>10. QED
    BY <1>1, <1>7, <1>9

LEMMA TakenWord ==
  ASSUME WordsType, TakeWord
  PROVE  /\ fifo' \in Seq(Word)
         /\ Head(fifo).bytes \in Seq(Int) \ {<<>>} /\ Head(fifo).last \in BOOLEAN
  <1>1. fifo \in Seq(Word) /\ fifo # <<>> /\ fifo' = Tail(fifo)
    BY DEF WordsType, TakeWord
  <1>2. Head(fifo) \in Word /\ fifo' \in Seq(Word)
    BY <1>1, HeadTailProperties
  <1>3. QED
    BY <1>2 DEF Word

\* What each action does to the loader.
LoaderStill == UNCHANGED <<xldrVars, fifo>>

LEMMA LoaderStillKeeps == ASSUME LoaderType, WordsType, LoaderStill PROVE LoaderType' /\ WordsType'
  BY DEF LoaderType, WordsType, LoaderStill, xldrVars, loaderVars, afpgaVars

LEMMA LoaderTypeStep ==
  ASSUME PhaseInv, LoaderType, WordsType, [Next]_vars
  PROVE  LoaderType' /\ WordsType'
  <1> USE DEF xldrVars, loaderVars, afpgaVars
  <1>1. CASE UNCHANGED vars \/ FlashFinishes \/ ProgramFlash \/ Kill
    <2>1. LoaderStill
      BY <1>1 DEF LoaderStill, vars, FlashFinishes, ProgramFlash, Identify, Confirm, EraseSector,
         ProgramPage, WaitCompletion, StartVerification, VerifyByte, Verified, Kill
    <2>2. QED
      BY <2>1, LoaderStillKeeps
  <1>2. CASE Main
    BY <1>2, EmptySeq DEF Main, EnterBootloader, ClearAfpga, LoaderType, WordsType, AfpgaState
  <1>3. CASE WriteSwrst
    BY <1>3 DEF WriteSwrst, Swrst, LoaderType, WordsType, LoaderState
  <1>4. CASE WriteStart
    BY <1>4, EmptySeq DEF WriteStart, Start, ClearAfpga, LoaderType, WordsType, LoaderState, AfpgaState
  <1>5. CASE FillWord
    BY <1>5, FilledWord DEF FillWord, LoaderType, WordsType
  <1>6. CASE PollDone
    BY <1>6, LoaderStillKeeps DEF PollDone, LoaderStill
  <1>7. CASE WriteExit
    BY <1>7 DEF WriteExit, StartupPulse, LoaderType, WordsType, LoaderState
  <1>8. CASE TakeWord
    BY <1>8, TakenWord DEF TakeWord, Fetch, Drop, LoaderType, WordsType, LoaderState
  <1>9. CASE LoaderStep /\ ShiftByte
    <2>1. /\ fifo' = fifo /\ csr_done' = csr_done /\ csr_error' = csr_error
          /\ d_last' = d_last /\ afpga' = afpga /\ alive' = alive
      BY <1>9 DEF LoaderStep, ShiftByte
    <2>2. QED
      BY <1>9, <2>1, ShiftResult DEF LoaderType, WordsType, LoaderState
  <1>10. CASE LoaderStep /\ ~ShiftByte
    BY <1>10 DEF LoaderStep, Internal, ProgExtended, InitSeen, InitTimeout, InitReleased,
       DoneWhileShifting, FlagDone, DoneAfterLast, DoneTimeout, StartupEnd, AfpgaReady,
       LoaderType, WordsType, LoaderState, AfpgaState
  <1>11. CASE AfpgaConfigured
    BY <1>11 DEF AfpgaConfigured, AfpgaDone, LoaderType, WordsType, AfpgaState
  <1>12. CASE PowerLoss
    BY <1>12, EmptySeq DEF PowerLoss, LoaderType, WordsType, LoaderState, AfpgaState
  <1>13. QED
    BY <1>1, <1>2, <1>3, <1>4, <1>5, <1>6, <1>7, <1>8, <1>9, <1>10, <1>11, <1>12
       DEF Next, ProgramAfpga

\* What the flash does to its cells leaves a byte in each of them.
LEMMA ExecuteType ==
  ASSUME FlashType, NEW new, DOMAIN new \subseteq Cells,
         \A c \in DOMAIN new : new[c] \in Content, Execute(new)
  PROVE  flash' \in [Cells -> Content] /\ busy' \subseteq Cells
  <1>1. CASE busy = {}
    <2>1. PICK wrong \in {{}, worn} :
            flash' = [d \in Cells |-> IF d \notin DOMAIN new THEN flash[d]
                                      ELSE IF d \in wrong THEN Other ELSE new[d]]
      BY <1>1 DEF Execute
    <2>2. \A d \in Cells : flash[d] \in Content /\ Other \in Content
      BY DEF FlashType, Other, Byte, Content
    <2>3. busy' \subseteq Cells
      BY <1>1 DEF Execute
    <2>4. QED
      BY <2>1, <2>2, <2>3
  <1>2. CASE busy # {}
    BY <1>2 DEF Execute, FlashType
  <1>3. QED
    BY <1>1, <1>2

LEMMA PageType ==
  ASSUME PhaseInv, FlashType, InLoop, NEW k \in Nat, NEW junk \in {Blank, Other}
  PROVE  /\ DOMAIN PageOf(k, junk) \subseteq Cells
         /\ \A c \in DOMAIN PageOf(k, junk) : PageOf(k, junk)[c] \in Content
  <1>1. Blank \in Content /\ Other \in Content
    BY DEF Blank, Other, Byte, Content
  <1>2. DataLen \in Nat /\ n \in Nat /\ Target \in Nat
    BY LoopInFlash, LengthsAreNumbers DEF PhaseInv
  <1>3. ASSUME NEW c \in PageAt(Target) PROVE PageOf(k, junk)[c] \in Content
    <2> DEFINE i == c - Target
    <2>1. c \in Cells /\ flash[c] \in Content /\ i \in Int
      BY <1>2, <1>3, FlasherAssumption DEF PageAt, Block, FlashType, FlasherAssumption, Cells
    <2> HIDE DEF i
    <2>2. ASSUME i \in 0 .. k - 1 PROVE Sent(i, junk) \in Content
      <3>1. i >= 0
        BY <2>1, <2>2
      <3>2. Data(n + i) \in Content
        BY <1>2, <2>1, <3>1 DEF Data, Byte, Content
      <3>3. QED
        BY <1>1, <3>2 DEF Sent
    <2>3. Sent(i, junk) \in Content => Programmed(flash[c], Sent(i, junk)) \in Content
      BY <1>1, <2>1 DEF Programmed
    <2>4. PageOf(k, junk)[c] = IF i \in 0 .. k - 1 THEN Programmed(flash[c], Sent(i, junk)) ELSE flash[c]
      BY <1>3 DEF PageOf, i
    <2>5. QED
      BY <2>1, <2>2, <2>3, <2>4
  <1>4. QED
    BY <1>3 DEF PageOf, PageAt, Block

LEMMA FlashTypeStep ==
  ASSUME PhaseInv, FlashType, [Next]_vars PROVE FlashType'
  <1> USE DEF flashVars, loopVars
  <1>1. CASE EraseSector
    <2> DEFINE new == [c \in SectorAt(Target) |-> Blank]
    <2>1. /\ DOMAIN new \subseteq Cells
          /\ \A c \in DOMAIN new : new[c] \in Content
      BY DEF SectorAt, Block, Blank, Byte, Content
    <2>2. Execute(new)
      BY <1>1 DEF EraseSector
    <2> HIDE DEF new
    <2>3. flash' \in [Cells -> Content] /\ busy' \subseteq Cells
      BY <2>1, <2>2, ExecuteType
    <2>4. Sector(addr + n) \in Nat
      <3>1. addr + n \in Nat /\ SectorSize[card] \in Nat \ {0}
        BY <1>1, LoopInFlash, FlasherAssumption
           DEF FlasherAssumption, EraseSector, PhaseInv, InLoop, FlashPc
      <3>2. QED
        BY <3>1 DEF Sector
    <2>5. QED
      BY <1>1, <2>3, <2>4 DEF EraseSector, FlashType
  <1>2. CASE ProgramPage
    <2>1. PICK junk \in {Blank, Other} : Execute(PageOf(PageSize, junk))
      BY <1>2 DEF ProgramPage
    <2>2. flash' \in [Cells -> Content] /\ busy' \subseteq Cells
      BY <1>2, <2>1, PageType, ExecuteType, FlasherAssumption DEF ProgramPage, FlasherAssumption
    <2>3. QED
      BY <1>2, <2>2 DEF ProgramPage, FlashType
  <1>3. CASE Kill
    <2>1. flash' \in [Cells -> Content] /\ busy' \subseteq Cells
      <3>1. CASE InLoop /\ MayProgram
        <4>1. PICK k \in 0 .. PageSize : Execute(PageOf(k, Blank))
          BY <1>3, <3>1 DEF Kill
        <4>2. k \in Nat
          BY FlasherAssumption DEF FlasherAssumption
        <4>3. QED
          BY <3>1, <4>1, <4>2, PageType, ExecuteType
      <3>2. CASE ~(InLoop /\ MayProgram)
        BY <1>3, <3>2 DEF Kill, FlashType
      <3>3. QED
        BY <3>1, <3>2
    <2>2. QED
      BY <1>3, <2>1 DEF Kill, Return, FlashType
  <1>4. CASE PowerLoss
    <2>1. PICK torn \in {{}, busy} :
            flash' = [c \in Cells |-> IF c \in torn THEN Other ELSE flash[c]]
      BY <1>4 DEF PowerLoss
    <2>2. flash' \in [Cells -> Content]
      BY <2>1 DEF FlashType, Other, Byte, Content
    <2>3. QED
      BY <1>4, <2>2 DEF PowerLoss, Return, FlashType
  <1>5. CASE Main
    BY <1>5 DEF Main, EnterBootloader, Return, FlashType
  <1>6. CASE ProgramFlash /\ ~EraseSector /\ ~ProgramPage
    BY <1>6 DEF ProgramFlash, Identify, Confirm, Begin, Return, WaitCompletion,
       StartVerification, VerifyByte, Verified, FlashType
  <1>7. CASE ProgramAfpga
    BY <1>7 DEF ProgramAfpga, directUnchanged, WriteSwrst, WriteStart, FillWord, PollDone,
       WriteExit, Return, FlashType
  <1>8. CASE FlashFinishes \/ TakeWord \/ LoaderStep \/ AfpgaConfigured \/ UNCHANGED vars
    BY <1>8 DEF FlashFinishes, TakeWord, LoaderStep, AfpgaConfigured, directUnchanged, vars,
       FlashType
  <1>9. QED
    BY <1>1, <1>2, <1>3, <1>4, <1>5, <1>6, <1>7, <1>8 DEF Next

LEMMA RunTypeStep == ASSUME PhaseInv, RunType, [Next]_vars PROVE RunType'
  <1> USE DEF RunType, Result, argVars, loopVars
  <1>1. CASE Main
    <2>1. good' \in BOOLEAN
      BY <1>1 DEF Main
    <2>2. runs' \in 0 .. Runs
      BY <1>1, FlasherAssumption DEF Main, FlasherAssumption
    <2>3. rv' \in Result /\ addr' \in {0, BitstreamBase, SdbBase}
      BY <1>1 DEF Main, EnterBootloader, Return
    <2>4. QED
      BY <2>1, <2>2, <2>3
  <1>2. CASE ProgramFlash
    BY <1>2 DEF ProgramFlash, Identify, Confirm, Begin, Return, EraseSector, ProgramPage,
       WaitCompletion, StartVerification, VerifyByte, Verified
  <1>3. CASE ProgramAfpga
    BY <1>3 DEF ProgramAfpga, directUnchanged, WriteSwrst, WriteStart, FillWord, PollDone,
       WriteExit, Return
  <1>4. CASE FlashFinishes \/ TakeWord \/ LoaderStep \/ AfpgaConfigured \/ UNCHANGED vars
    BY <1>4 DEF FlashFinishes, TakeWord, LoaderStep, AfpgaConfigured, directUnchanged, vars
  <1>5. CASE Kill \/ PowerLoss
    BY <1>5 DEF Kill, PowerLoss, Return
  <1>6. QED
    BY <1>1, <1>2, <1>3, <1>4, <1>5 DEF Next

-----------------------------------------------------------------------------
(* What is stored.                                                         *)

\* A program or an erase of bitstream data that fit leaves the header alone.
LEMMA HeaderKept ==
  ASSUME PhaseInv, StoredInv, InLoop, Writes,
         mode = "afpga", addr = BitstreamBase, Fits
  PROVE  HeaderStored'
  <1> USE FlasherAssumption DEF FlasherAssumption, Cells
  <1>1. HeaderStored
    BY DEF StoredInv, InLoop, FlashPc
  <1>2. Target < SdbBase
    <2>1. addr + n < SdbBase /\ ImageFits
      BY DEF InLoop, DataLen, Fits, PhaseInv, ImageFits
    <2>2. QED
      BY <2>1, LoopInFlash
  <1>3. SUFFICES ASSUME NEW i \in 0 .. SdbLen - 1
                 PROVE  flash'[SdbBase + i] = Byte("sdb", i)
    BY DEF HeaderStored
  <1>4. SdbBase + i \in Cells /\ ~(SdbBase + i < SdbBase)
    OBVIOUS
  <1>5. flash'[SdbBase + i] = flash[SdbBase + i]
    BY <1>2, <1>4, OtherSideKept
  <1>6. QED
    BY <1>1, <1>5 DEF HeaderStored

\* A step that leaves the flash and the phase alone, or ends the run.
LEMMA StoredStutter ==
  ASSUME StoredInv, SuccessMeansStored, flash' = flash, size' = size, mode' = mode,
         \/ pc' = pc /\ addr' = addr /\ n' = n /\ rv' = rv
         \/ pc' \notin FlashPc /\ rv' # "ok"
         \/ pc' \notin FlashPc /\ mode = "direct"
  PROVE  StoredInv' /\ SuccessMeansStored'
  <1> USE DEF Fits, HeaderStored, ImageStored, Data, DataLen
  <1>1. CASE pc' = pc /\ addr' = addr /\ n' = n /\ rv' = rv
    <2>1. StoredInv'
      BY <1>1 DEF StoredInv
    <2>2. SuccessMeansStored'
      BY <1>1 DEF SuccessMeansStored
    <2>3. QED
      BY <2>1, <2>2
  <1>2. CASE pc' \notin FlashPc /\ (rv' # "ok" \/ mode = "direct")
    <2>1. StoredInv'
      BY <1>2 DEF StoredInv, FlashPc
    <2>2. SuccessMeansStored'
      BY <1>2 DEF SuccessMeansStored
    <2>3. QED
      BY <2>1, <2>2
  <1>3. QED
    BY <1>1, <1>2

\* A step of a run that has not succeeded, to a phase in which nothing has
\* been compared yet and the header is there if it has to be.
LEMMA StoredBefore ==
  ASSUME rv' # "ok", pc' # "verify" \/ n' = 0,
         (pc' \in FlashPc /\ mode' = "afpga" /\ addr' = BitstreamBase /\ Fits')
           => HeaderStored'
  PROVE  StoredInv' /\ SuccessMeansStored'
  BY DEF StoredInv, SuccessMeansStored

LEMMA StoredFlash ==
  VerifiedInv /\ ProgramFlash => StoredInv' /\ SuccessMeansStored'
  <1> SUFFICES ASSUME VerifiedInv, ProgramFlash
               PROVE  StoredInv' /\ SuccessMeansStored'
    OBVIOUS
  <1> USE DEF VerifiedInv, argVars, flashVars, loopVars
  <1>0. rv # "ok"
    BY DEF ProgramFlash, PhaseInv, Identify, FlashAnswers, Confirm, EraseSector, ProgramPage, InLoop,
           WaitCompletion, StartVerification, VerifyByte, Verified
  <1>1. CASE Identify
    <2>1. rv' # "ok" /\ pc' # "verify" /\ (pc' \in FlashPc => addr' = SdbBase)
      BY <1>0, <1>1 DEF Identify, FlashAnswers, Begin, Return, FlashPc
    <2>2. QED
      BY <2>1, StoredBefore, FlasherAssumption DEF FlasherAssumption, Cells
  <1>2. CASE Confirm
    <2>1. rv' # "ok" /\ pc' # "verify" /\ mode' = "boot"
      BY <1>0, <1>2 DEF Confirm, Begin, Return, PhaseInv
    <2>2. QED
      BY <2>1, StoredBefore
  <1>3. CASE EraseSector \/ ProgramPage
    <2>1. Writes /\ InLoop
      BY <1>3 DEF Writes, EraseSector, ProgramPage
    <2>2. rv' # "ok" /\ pc' = "wait" /\ addr' = addr /\ mode' = mode /\ size' = size
      BY <1>0, <1>3 DEF EraseSector, ProgramPage
    <2>3. (mode' = "afpga" /\ addr' = BitstreamBase /\ Fits') => HeaderStored'
      BY <2>1, <2>2, HeaderKept DEF Fits
    <2>4. QED
      BY <2>2, <2>3, StoredBefore
  <1>4. CASE WaitCompletion \/ StartVerification
    <2>1. /\ rv' # "ok" /\ (pc' # "verify" \/ n' = 0)
          /\ addr' = addr /\ mode' = mode /\ size' = size /\ flash' = flash
          /\ pc \in FlashPc
      BY <1>0, <1>4 DEF WaitCompletion, StartVerification, FlashPc
    <2>2. (mode' = "afpga" /\ addr' = BitstreamBase /\ Fits') => HeaderStored'
      BY <2>1 DEF StoredInv, HeaderStored, Fits
    <2>3. QED
      BY <2>1, <2>2, StoredBefore
  <1>5. CASE VerifyByte
    <2>1. CASE flash[Target] = Data(n)
      <3>1. /\ pc = "verify" /\ pc' = pc /\ n' = n + 1 /\ addr' = addr /\ rv' = rv
            /\ flash' = flash /\ mode' = mode /\ size' = size
        BY <1>5, <2>1 DEF VerifyByte
      <3>2. ASSUME NEW k \in Nat, k < n', k < DataLen'
            PROVE  flash'[Wrap(addr' + k)] = Data(k)'
        <4>1. k < DataLen /\ k < n + 1 /\ Data(k)' = Data(k)
          BY <3>1, <3>2 DEF DataLen, Data
        <4>2. CASE k = n
          BY <2>1, <3>1, <4>1, <4>2 DEF Target
        <4>3. CASE k # n
          <5>1. k < n
            BY <4>1, <4>3 DEF PhaseInv
          <5>2. QED
            BY <3>1, <4>1, <5>1 DEF StoredInv
        <4>4. QED
          BY <4>2, <4>3
      <3>3. (mode' = "afpga" /\ addr' = BitstreamBase /\ Fits') => HeaderStored'
        BY <3>1 DEF StoredInv, HeaderStored, Fits, FlashPc
      <3>4. StoredInv'
        BY <3>1, <3>2, <3>3 DEF StoredInv
      <3>5. QED
        BY <1>0, <3>1, <3>4 DEF SuccessMeansStored
    <2>2. CASE flash[Target] # Data(n)
      BY <1>5, <2>2, StoredBefore DEF VerifyByte, Return, FlashPc
    <2>3. QED
      BY <2>1, <2>2
  <1>6. CASE Verified
    <2>1. /\ pc = "verify" /\ n >= DataLen
          /\ flash' = flash /\ mode' = mode /\ size' = size
      BY <1>6 DEF Verified
    <2>2. \A k \in 0 .. DataLen - 1 : flash[Wrap(addr + k)] = Data(k)
      BY <2>1, LengthsAreNumbers DEF StoredInv, PhaseInv
    <2>3. CASE addr = SdbBase
      <3>1. HeaderStored'
        <4>1. \A k \in 0 .. SdbLen - 1 : Wrap(SdbBase + k) = SdbBase + k
          BY WrapIsCell, FlasherAssumption DEF FlasherAssumption, Cells
        <4>2. QED
          BY <2>1, <2>2, <2>3, <4>1 DEF HeaderStored, DataLen, Data
      <3>2. rv' # "ok" /\ pc' = "program"
        BY <1>0, <1>6, <2>3 DEF Verified, Begin
      <3>3. QED
        BY <3>1, <3>2, StoredBefore
    <2>4. CASE addr # SdbBase
      <3>1. \A i \in 0 .. size - 1 : flash'[Wrap(addr + i)] = Byte("image", i)
        BY <2>1, <2>2, <2>4 DEF DataLen, Data
      <3>2. \/ mode = "boot" /\ addr = 0
            \/ mode = "afpga" /\ addr = BitstreamBase
        BY <2>1, <2>4 DEF PhaseInv, FlashPc
      <3>3. pc' = "idle"
        BY <1>6, <2>4 DEF Verified, Return
      <3>4. StoredInv'
        BY <3>3 DEF StoredInv, FlashPc
      <3>5. CASE mode = "boot"
        <4>1. ImageStored(0)'
          BY <2>1, <3>1, <3>2, <3>5 DEF ImageStored
        <4>2. QED
          BY <2>1, <3>4, <3>5, <4>1 DEF SuccessMeansStored
      <3>6. CASE mode = "afpga"
        <4>1. Fits => HeaderStored'
          BY <2>1, <3>2, <3>6 DEF StoredInv, HeaderStored, FlashPc
        <4>2. ImageStored(BitstreamBase)'
          BY <2>1, <3>1, <3>2, <3>6 DEF ImageStored
        <4>3. QED
          BY <2>1, <3>4, <3>6, <4>1, <4>2 DEF SuccessMeansStored, Fits
      <3>7. QED
        BY <3>2, <3>4, <3>5, <3>6
    <2>5. QED
      BY <2>3, <2>4
  <1>7. QED
    BY <1>1, <1>2, <1>3, <1>4, <1>5, <1>6 DEF ProgramFlash

LEMMA StoredDirect == VerifiedInv /\ ProgramAfpga => StoredInv' /\ SuccessMeansStored'
  <1> SUFFICES ASSUME VerifiedInv, ProgramAfpga
               PROVE  StoredInv' /\ SuccessMeansStored'
    OBVIOUS
  <1> USE DEF VerifiedInv, PhaseInv, FlashPc, DirectPc, argVars, flashVars, directUnchanged
  <1>1. mode = "direct" /\ mode' = mode /\ size' = size /\ flash' = flash
    BY DEF ProgramAfpga, WriteSwrst, WriteStart, FillWord, PollDone, WriteExit
  <1>2. pc' \notin FlashPc
    BY DEF ProgramAfpga, WriteSwrst, WriteStart, FillWord, PollDone, WriteExit, Return
  <1>3. QED
    BY <1>1, <1>2, StoredStutter

LEMMA StoredOther ==
  VerifiedInv /\ (Main \/ FlashFinishes \/ TakeWord \/ LoaderStep \/ AfpgaConfigured
                 \/ Kill \/ PowerLoss \/ UNCHANGED vars)
  => StoredInv' /\ SuccessMeansStored'
  <1> SUFFICES ASSUME VerifiedInv,
                      \/ Main \/ FlashFinishes \/ TakeWord \/ LoaderStep
                      \/ AfpgaConfigured \/ Kill \/ PowerLoss \/ UNCHANGED vars
               PROVE  StoredInv' /\ SuccessMeansStored'
    OBVIOUS
  <1> USE DEF VerifiedInv, argVars, flashVars, loopVars
  <1>1. CASE Main
    <2>1. rv' # "ok" /\ pc' \notin FlashPc
      BY <1>1 DEF Main, EnterBootloader, Return, FlashPc
    <2>2. QED
      BY <2>1, StoredBefore DEF FlashPc
  <1>2. CASE Kill \/ PowerLoss
    <2>1. rv' # "ok" /\ pc' \notin FlashPc
      BY <1>2 DEF Kill, PowerLoss, Return, FlashPc
    <2>2. QED
      BY <2>1, StoredBefore DEF FlashPc
  <1>3. CASE FlashFinishes
    BY <1>3, StoredStutter DEF FlashFinishes
  <1>4. CASE TakeWord \/ LoaderStep \/ AfpgaConfigured
    BY <1>4, StoredStutter DEF TakeWord, LoaderStep, AfpgaConfigured, directUnchanged
  <1>5. CASE UNCHANGED vars
    BY <1>5, StoredStutter DEF vars
  <1>6. QED
    BY <1>1, <1>2, <1>3, <1>4, <1>5

-----------------------------------------------------------------------------
(* Loading the AFPGA directly.                                             *)

\* From CSR.SWRST on the loader is idle, and from CSR.START on its flags speak
\* of this run: none is raised for an AFPGA that is not configured.
FlagsFresh ==
  /\ csr_done /\ ~csr_error => Done
  /\ state = "GOT_DONE" => Done

DirectInv ==
  /\ pc = "start" => state = "IDLE"
  /\ pc \in {"fill", "poll", "exit"} => FlagsFresh
  /\ pc = "exit" /\ rv = "ok" => Done

\* The loader's own steps, and those of the AFPGA, keep the flags honest.
LEMMA FlagsKept ==
  ASSUME WordsType, FlagsFresh, Internal \/ AfpgaReady \/ AfpgaDone
  PROVE  FlagsFresh'
  <1> USE DEF FlagsFresh, Done, afpgaVars, loaderVars
  <1>1. CASE ProgExtended \/ InitSeen \/ InitTimeout \/ InitReleased
    BY <1>1 DEF ProgExtended, InitSeen, InitTimeout, InitReleased
  <1>2. CASE ShiftByte
    <2>1. /\ csr_done' = csr_done /\ csr_error' = csr_error /\ afpga' = afpga
          /\ state = "SHIFT"
      BY <1>2 DEF ShiftByte
    <2>2. state' # "GOT_DONE"
      BY <1>2, ShiftResult
    <2>3. QED
      BY <2>1, <2>2
  <1>3. CASE DoneWhileShifting \/ FlagDone \/ DoneAfterLast \/ DoneTimeout \/ StartupEnd
    BY <1>3 DEF DoneWhileShifting, FlagDone, DoneAfterLast, DoneTimeout, StartupEnd
  <1>4. CASE AfpgaReady \/ AfpgaDone
    BY <1>4 DEF AfpgaReady, AfpgaDone
  <1>5. QED
    BY <1>1, <1>2, <1>3, <1>4 DEF Internal

\* No step of them starts from IDLE, and none takes the configuration away.
LEMMA LoaderIdle ==
  ASSUME Internal \/ AfpgaReady \/ AfpgaDone
  PROVE  (state = "IDLE" => state' = "IDLE") /\ (Done => Done')
  <1> USE DEF Done, afpgaVars, loaderVars
  <1>1. CASE ShiftByte
    BY <1>1 DEF ShiftByte
  <1>2. CASE Internal /\ ~ShiftByte
    BY <1>2 DEF Internal, ProgExtended, InitSeen, InitTimeout, InitReleased,
                DoneWhileShifting, FlagDone, DoneAfterLast, DoneTimeout, StartupEnd
  <1>3. CASE AfpgaReady \/ AfpgaDone
    BY <1>3 DEF AfpgaReady, AfpgaDone
  <1>4. QED
    BY <1>1, <1>2, <1>3

LEMMA DirectAway ==
  ASSUME pc' \notin DirectPc \/ pc' = "swrst"
  PROVE  DirectInv'
  BY DEF DirectInv, DirectPc

LEMMA DirectStep == PhaseInv /\ WordsType /\ DirectInv /\ [Next]_vars => DirectInv'
  <1> SUFFICES ASSUME PhaseInv, WordsType, DirectInv, [Next]_vars PROVE DirectInv'
    OBVIOUS
  <1> USE DEF DirectInv, directUnchanged, flashVars, argVars
  <1>1. CASE Main
    <2>1. pc' \notin DirectPc \/ pc' = "swrst"
      BY <1>1 DEF Main, EnterBootloader, Return, DirectPc
    <2>2. QED
      BY <2>1, DirectAway
  <1>2. CASE ProgramFlash \/ Kill \/ PowerLoss
    <2>1. pc' \notin DirectPc
      BY <1>2 DEF ProgramFlash, Identify, Confirm, Begin, Return, EraseSector, ProgramPage,
                  WaitCompletion, StartVerification, VerifyByte, Verified, Kill, PowerLoss,
                  DirectPc, loopVars
    <2>2. QED
      BY <2>1, DirectAway
  <1>3. CASE WriteSwrst
    BY <1>3 DEF WriteSwrst, Swrst
  <1>4. CASE WriteStart
    BY <1>4 DEF WriteStart, Start, FlagsFresh
  <1>5. CASE FillWord
    BY <1>5 DEF FillWord, FlagsFresh, Done, xldrVars, loaderVars, afpgaVars
  <1>6. CASE PollDone
    BY <1>6 DEF PollDone, FlagsFresh, Done, xldrVars, loaderVars, afpgaVars
  <1>7. CASE WriteExit
    BY <1>7 DEF WriteExit, Return
  <1>8. CASE TakeWord
    BY <1>8 DEF TakeWord, Fetch, Drop, FlagsFresh, Done, xldrVars, loaderVars, afpgaVars
  <1>9. CASE LoaderStep \/ AfpgaConfigured
    <2>1. /\ Internal \/ AfpgaReady \/ AfpgaDone
          /\ pc' = pc /\ rv' = rv
      BY <1>9 DEF LoaderStep, AfpgaConfigured
    <2>2. QED
      BY <2>1, FlagsKept, LoaderIdle
  <1>10. CASE FlashFinishes \/ UNCHANGED vars
    BY <1>10 DEF FlashFinishes, vars, FlagsFresh, Done, xldrVars, loaderVars, afpgaVars
  <1>11. QED
    BY <1>1, <1>2, <1>3, <1>4, <1>5, <1>6, <1>7, <1>8, <1>9, <1>10
       DEF Next, ProgramAfpga

-----------------------------------------------------------------------------
(* A pass of flash_program over its data.                                  *)

LoopPc == {"program", "wait"}

\* Nothing is programmed before the flash is ready, and the pages are aligned.
PassInv ==
  /\ pc \in {"confirm", "program", "verify"} => busy = {}
  /\ pc \in LoopPc /\ n < DataLen => \E q \in Nat : addr + n = q * PageSize

\* A flash that works holds what was sent, in sectors that this pass has erased,
\* and has nothing but blank cells in the rest of them.
CellsInv ==
  /\ pc \in LoopPc =>
       /\ \A k \in Nat : k < n /\ k < DataLen =>
            Sector(addr + k) \in erased /\ flash[addr + k] = Data(k)
       /\ n < DataLen =>
            \A c \in Cells : c >= addr + n /\ Sector(c) \in erased => flash[c] = Blank
  /\ pc = "verify" => \A k \in Nat : k < DataLen => flash[addr + k] = Data(k)
  /\ rv = "failed" => mode = "direct"

GoodInv == worn = {} /\ ImageFits => CellsInv

LEMMA BlocksGrow ==
  ASSUME NEW P \in Nat \ {0}, NEW a \in Int, NEW b \in Int, a > b
  PROVE  a * P >= b * P + P
  <1>1. (a - b - 1) * P >= 0
    BY SMT
  <1>2. QED
    BY <1>1

\* The block of a number is the one it lies in.
LEMMA DivIs ==
  ASSUME NEW P \in Nat \ {0}, NEW q \in Nat, NEW c \in Nat
  PROVE  c \div P = q <=> q * P <= c /\ c < q * P + P
  <1> DEFINE d == c \div P
  <1>1. d \in Int /\ d * P <= c /\ c < d * P + P
    OBVIOUS
  <1> HIDE DEF d
  <1>2. d > q => d * P >= q * P + P
    BY <1>1, BlocksGrow
  <1>3. q > d => q * P >= d * P + P
    BY <1>1, BlocksGrow
  <1>4. q * P \in Int /\ d * P \in Int
    BY <1>1
  <1>5. d = q <=> q * P <= c /\ c < q * P + P
    <2>1. CASE d > q
      BY <1>1, <1>2, <1>4, <2>1
    <2>2. CASE q > d
      BY <1>1, <1>3, <1>4, <2>2
    <2>3. CASE d = q
      BY <1>1, <2>3
    <2>4. QED
      BY <1>1, <2>1, <2>2, <2>3
  <1>6. QED
    BY <1>5 DEF d

\* A number that begins a block is a multiple of its size.
LEMMA BlockStart ==
  ASSUME NEW P \in Nat \ {0}, NEW c \in Nat \ {0}, (c - 1) \div P # c \div P
  PROVE  \E q \in Nat : c = q * P
  <1>1. PICK q \in Nat : q = c \div P
    OBVIOUS
  <1>2. q * P <= c /\ c < q * P + P
    BY <1>1, DivIs
  <1>3. ~(q * P <= c - 1 /\ c - 1 < q * P + P)
    <2>1. c - 1 \in Nat /\ (c - 1) \div P # q
      BY <1>1
    <2>2. QED
      BY <2>1, DivIs
  <1>4. q * P \in Int
    BY <1>1
  <1>5. c = q * P
    BY <1>2, <1>3, <1>4
  <1>6. QED
    BY <1>5

\* The data of each file begin with a page.
LEMMA BaseAligned ==
  ASSUME NEW base \in {0, BitstreamBase, SdbBase}
  PROVE  \E q \in Nat : base = q * PageSize
  <1> USE FlasherAssumption DEF FlasherAssumption, Cells
  <1>1. CASE base = 0
    <2>1. 0 = 0 * PageSize
      OBVIOUS
    <2>2. QED
      BY <1>1, <2>1
  <1>2. CASE base \in {BitstreamBase, SdbBase}
    <2>1. base \in Nat \ {0} /\ base \in Cells /\ base - 1 \in Cells
      BY <1>2
    <2>2. (base - 1) \div PageSize # base \div PageSize
      <3>1. \A a, c \in Cells : a \div PageSize = c \div PageSize => (a < base <=> c < base)
        BY <1>2, AlignmentAssumption DEF AlignmentAssumption
      <3>2. base - 1 < base /\ ~(base < base)
        BY <2>1
      <3> HIDE DEF Cells
      <3>3. QED
        BY <2>1, <3>1, <3>2
    <2>3. QED
      BY <2>1, <2>2, BlockStart
  <1>3. QED
    BY <1>1, <1>2

\* The cells of the page that is programmed are those from addr + n on.
LEMMA PageCells ==
  ASSUME PhaseInv, PassInv, InLoop, ImageFits, NEW c \in Cells
  PROVE  c \in PageAt(Target) <=> addr + n <= c /\ c < addr + n + PageSize
  <1>1. PICK q \in Nat : addr + n = q * PageSize
    BY DEF PassInv, InLoop, LoopPc
  <1>2. PageSize \in Nat \ {0} /\ c \in Nat /\ addr + n \in Nat
    BY LoopInFlash, FlasherAssumption DEF FlasherAssumption, Cells
  <1>3. (addr + n) \div PageSize = q
    BY <1>1, <1>2, DivIs
  <1>4. c \div PageSize = q <=> q * PageSize <= c /\ c < q * PageSize + PageSize
    BY <1>2, DivIs
  <1>5. Target = addr + n
    BY LoopInFlash
  <1>6. QED
    BY <1>1, <1>3, <1>4, <1>5 DEF PageAt, Block

\* A cell is in the sector of its number, and a page lies in one sector.
LEMMA SectorsDivide ==
  ASSUME card \in FlashId, NEW a \in Cells, NEW c \in Cells
  PROVE  /\ c \in SectorAt(a) <=> Sector(c) = Sector(a)
         /\ c \in PageAt(a) => Sector(c) = Sector(a)
  <1>1. c \in SectorAt(a) <=> Sector(c) = Sector(a)
    BY DEF SectorAt, Block, Sector
  <1>2. c \in PageAt(a) => Sector(c) = Sector(a)
    BY PageAssumption DEF PageAssumption, PageAt, Sector, Block
  <1>3. QED
    BY <1>1, <1>2

\* The next page, if there is one, begins where this one ends.
LEMMA NextPage ==
  ASSUME PhaseInv, PassInv, InLoop
  PROVE  /\ n + PageLen <= n + PageSize
         /\ n + PageLen < DataLen =>
              /\ PageLen = PageSize
              /\ \E q \in Nat : addr + (n + PageLen) = q * PageSize
  <1>1. /\ n \in Nat /\ DataLen \in Nat /\ PageLen \in Nat /\ PageSize \in Nat /\ addr + n \in Nat
        /\ n < DataLen
    BY LoopInFlash, LengthsAreNumbers, FlasherAssumption DEF FlasherAssumption, PhaseInv, InLoop
  <1>2. /\ n + PageLen <= n + PageSize
        /\ n + PageLen < DataLen => PageLen = PageSize
    BY <1>1 DEF PageLen
  <1>3. addr \in Nat
    BY FlasherAssumption DEF FlasherAssumption, PhaseInv, InLoop, FlashPc, Cells
  <1>4. ASSUME PageLen = PageSize PROVE \E q \in Nat : addr + (n + PageLen) = q * PageSize
    <2>1. PICK q \in Nat : addr + n = q * PageSize
      BY DEF PassInv, InLoop, LoopPc
    <2>2. addr + (n + PageLen) = (q + 1) * PageSize
      BY <1>1, <1>3, <1>4, <2>1
    <2>3. QED
      BY <2>2
  <1>5. QED
    BY <1>2, <1>4

\* An erase or a program of a ready flash that works does what it should.
LEMMA ExecuteExact ==
  ASSUME worn = {}, busy = {}, NEW new, Execute(new), NEW c \in Cells
  PROVE  flash'[c] = IF c \in DOMAIN new THEN new[c] ELSE flash[c]
  BY DEF Execute

LEMMA PassStutter ==
  ASSUME PassInv, GoodInv, busy' = busy \/ busy' = {},
         UNCHANGED <<flash, card, worn, mode, size, pc, addr, n, erased, rv>>
  PROVE  PassInv' /\ GoodInv'
  <1>1. DataLen' = DataLen /\ \A k : Data(k)' = Data(k)
    BY DEF DataLen, Data
  <1>2. (\A c : Sector(c)' = Sector(c)) /\ (ImageFits' <=> ImageFits)
    BY DEF Sector, ImageFits
  <1>3. PassInv'
    BY <1>1 DEF PassInv
  <1>4. CellsInv => CellsInv'
    BY <1>1, <1>2 DEF CellsInv
  <1>5. QED
    BY <1>2, <1>3, <1>4 DEF GoodInv

\* Steps after which the tool is in no pass.
LEMMA PassAway ==
  ASSUME pc' \notin LoopPc \cup {"confirm", "verify"},
         rv' = "failed" => mode' = "direct" \/ worn' # {} \/ ~ImageFits'
  PROVE  PassInv' /\ GoodInv'
  BY DEF PassInv, GoodInv, CellsInv, LoopPc

\* A pass begins with no data written and no sector erased.
LEMMA PassBegins ==
  ASSUME NEW base \in {0, BitstreamBase, SdbBase}, Begin(base), busy' = {},
         rv' = "failed" => mode' = "direct" \/ worn' # {} \/ ~ImageFits'
  PROVE  PassInv' /\ GoodInv'
  <1>1. pc' = "program" /\ addr' = base /\ n' = 0 /\ erased' = {}
    BY DEF Begin
  <1>2. PICK q \in Nat : base = q * PageSize
    BY BaseAligned
  <1>3. base + 0 = base
    BY FlasherAssumption DEF FlasherAssumption, Cells
  <1>4. \E r \in Nat : addr' + n' = r * PageSize
    BY <1>1, <1>2, <1>3
  <1>5. \A k \in Nat : ~(k < n')
    BY <1>1
  <1>6. PassInv'
    BY <1>1, <1>4 DEF PassInv
  <1>7. worn' = {} /\ ImageFits' => CellsInv'
    BY <1>1, <1>5 DEF CellsInv
  <1>8. QED
    BY <1>6, <1>7 DEF GoodInv

LEMMA PassErase ==
  ASSUME PhaseInv, PassInv, GoodInv, EraseSector
  PROVE  PassInv' /\ GoodInv'
  <1> DEFINE S == SectorAt(Target)
             new == [c \in S |-> Blank]
  <1>1. /\ InLoop /\ MayErase /\ Execute(new) /\ erased' = erased \cup {Sector(addr + n)}
        /\ pc' = "wait" /\ pc = "program" /\ card \in FlashId /\ busy = {}
        /\ UNCHANGED <<card, worn, mode, size, addr, n, rv>>
    BY DEF EraseSector, InLoop, argVars, PassInv, PhaseInv, FlashPc
  <1>2. /\ DataLen' = DataLen /\ (\A k : Data(k)' = Data(k)) /\ (\A c : Sector(c)' = Sector(c))
        /\ ImageFits' <=> ImageFits
    BY <1>1 DEF DataLen, Data, Sector, ImageFits
  <1> HIDE DEF S
  <1>3. PassInv'
    BY <1>1, <1>2 DEF PassInv, LoopPc
  <1>4. ASSUME CellsInv, worn = {}, ImageFits PROVE CellsInv'
    <2>1. \A c \in Cells : flash'[c] = IF c \in S THEN Blank ELSE flash[c]
      BY <1>1, <1>4, ExecuteExact
    <2>2. addr + n \in Cells /\ \A c \in Cells : c \in S <=> Sector(c) = Sector(addr + n)
      <3>1. Target \in Cells /\ Target = addr + n
        BY <1>1, <1>4, LoopInFlash
      <3>2. QED
        BY <1>1, <3>1, SectorsDivide DEF S
    <2>3. ASSUME NEW k \in Nat, k < n, k < DataLen
          PROVE  Sector(addr + k) \in erased' /\ flash'[addr + k] = Data(k)
      <3>1. addr + k \in Cells
        BY <1>1, <1>4, <2>3, DataAddress DEF FlashPc
      <3>2. Sector(addr + k) \in erased /\ flash[addr + k] = Data(k)
        BY <1>1, <1>4, <2>3 DEF CellsInv, LoopPc
      <3>3. addr + k \notin S
        BY <1>1, <2>2, <3>1, <3>2 DEF MayErase
      <3>4. QED
        BY <1>1, <2>1, <3>1, <3>2, <3>3
    <2>4. ASSUME NEW c \in Cells, c >= addr + n, Sector(c) \in erased' PROVE flash'[c] = Blank
      <3>1. CASE c \in S
        BY <2>1, <3>1
      <3>2. CASE c \notin S
        <4>1. Sector(c) \in erased /\ n < DataLen
          BY <1>1, <2>2, <2>4, <3>2 DEF InLoop
        <4>2. flash[c] = Blank
          BY <1>1, <1>4, <2>4, <4>1 DEF CellsInv, LoopPc
        <4>3. QED
          BY <2>1, <3>2, <4>2
      <3>3. QED
        BY <3>1, <3>2
    <2>5. rv' = "failed" => mode' = "direct"
      BY <1>1, <1>4 DEF CellsInv
    <2>6. QED
      BY <1>1, <1>2, <2>3, <2>4, <2>5 DEF CellsInv
  <1>5. GoodInv'
    BY <1>1, <1>2, <1>4 DEF GoodInv
  <1>6. QED
    BY <1>3, <1>5

LEMMA PassProgram ==
  ASSUME PhaseInv, PassInv, GoodInv, ProgramPage
  PROVE  PassInv' /\ GoodInv'
  <1>1. /\ InLoop /\ MayProgram /\ erased' = erased
        /\ pc' = "wait" /\ pc = "program" /\ card \in FlashId /\ busy = {}
        /\ n' = n + PageLen
        /\ UNCHANGED <<card, worn, mode, size, addr, rv>>
    BY DEF ProgramPage, InLoop, argVars, PassInv, PhaseInv, FlashPc
  <1>2. /\ DataLen' = DataLen /\ (\A k : Data(k)' = Data(k)) /\ (\A c : Sector(c)' = Sector(c))
        /\ ImageFits' <=> ImageFits
    BY <1>1 DEF DataLen, Data, Sector, ImageFits
  <1>3. /\ addr + n \in Nat /\ n \in Nat /\ addr \in Nat /\ PageLen \in Nat
        /\ PageSize \in Nat \ {0} /\ DataLen \in Nat
    BY <1>1, LoopInFlash, LengthsAreNumbers, FlasherAssumption
       DEF FlasherAssumption, PhaseInv, InLoop, FlashPc, Cells
  <1>4. PassInv'
    BY <1>1, <1>2, NextPage DEF PassInv
  <1>5. ASSUME CellsInv, worn = {}, ImageFits PROVE CellsInv'
    <2>1. PICK junk \in {Blank, Other} : Execute(PageOf(PageSize, junk))
      BY DEF ProgramPage
    <2>2. ASSUME NEW c \in Cells, c \notin PageAt(Target) PROVE flash'[c] = flash[c]
      BY <1>1, <1>5, <2>1, <2>2, ExecuteExact DEF PageOf
    <2>3. Target = addr + n /\ addr + n \in Cells /\ Sector(addr + n) \in erased
      <3>1. Target = addr + n /\ addr + n \in Cells
        BY <1>1, <1>5, LoopInFlash
      <3>2. ~BeyondMap
        BY <3>1, FlasherAssumption DEF FlasherAssumption, BeyondMap, Cells
      <3>3. QED
        BY <1>1, <3>1, <3>2 DEF MayProgram
    <2>4. ASSUME NEW k \in Nat, k < n', k < DataLen
          PROVE  Sector(addr + k) \in erased /\ flash'[addr + k] = Data(k)
      <3>1. addr + k \in Cells
        BY <1>1, <1>5, <2>4, DataAddress DEF FlashPc
      <3>2. CASE k < n
        <4>1. addr + k \notin PageAt(Target)
          BY <1>1, <1>3, <1>5, <3>1, <3>2, PageCells
        <4>2. Sector(addr + k) \in erased /\ flash[addr + k] = Data(k)
          BY <1>1, <1>5, <2>4, <3>2 DEF CellsInv, LoopPc
        <4>3. QED
          BY <2>2, <3>1, <4>1, <4>2
      <3>3. CASE ~(k < n)
        <4> DEFINE c == addr + k
                   i == c - Target
        <4>1. k < n + PageSize
          BY <1>1, <1>3, <2>4, <3>3, NextPage
        <4>2. i = k - n /\ n + i = k /\ i \in 0 .. PageSize - 1 /\ c >= addr + n
              /\ c < addr + n + PageSize
          BY <1>3, <2>3, <3>3, <4>1
        <4>3. c \in Cells /\ c \in PageAt(Target)
          BY <1>1, <1>5, <3>1, <4>2, PageCells
        <4> HIDE DEF c, i
        <4>4. Sector(c) \in erased
          BY <1>1, <2>3, <4>3, SectorsDivide
        <4>5. flash'[c] = PageOf(PageSize, junk)[c]
          BY <1>1, <1>5, <2>1, <4>3, ExecuteExact DEF PageOf
        <4>6. PageOf(PageSize, junk)[c] = Programmed(flash[c], Sent(i, junk))
          BY <4>2, <4>3 DEF PageOf, i
        <4>7. Sent(i, junk) = Data(k)
          <5>1. n + i < DataLen /\ ~(n + i >= DataLen)
            BY <1>3, <2>4, <4>2
          <5>2. Sent(i, junk) = Data(n + i)
            BY <5>1, Zenon DEF Sent
          <5>3. QED
            BY <4>2, <5>2
        <4>8. flash[c] = Blank
          BY <1>1, <1>5, <4>2, <4>3, <4>4 DEF CellsInv, LoopPc, InLoop
        <4>9. Programmed(flash[c], Data(k)) = Data(k)
          BY <4>8 DEF Programmed
        <4>10. QED
          BY <4>4, <4>5, <4>6, <4>7, <4>9 DEF c
      <3>4. QED
        BY <3>2, <3>3
    <2>5. ASSUME n' < DataLen, NEW c \in Cells, c >= addr + n', Sector(c) \in erased
          PROVE  flash'[c] = Blank
      <3>1. PageLen = PageSize
        BY <1>1, <2>5, NextPage
      <3>2. c \in Nat /\ c >= addr + n + PageSize
        BY <1>1, <1>3, <2>5, <3>1, FlasherAssumption DEF FlasherAssumption, Cells
      <3>3. c >= addr + n /\ ~(c < addr + n + PageSize)
        BY <1>3, <3>2
      <3>4. c \notin PageAt(Target)
        BY <1>1, <1>5, <3>3, PageCells
      <3>5. flash[c] = Blank
        BY <1>1, <1>5, <2>5, <3>3 DEF CellsInv, LoopPc, InLoop
      <3>6. QED
        BY <2>2, <3>4, <3>5
    <2>6. rv' = "failed" => mode' = "direct"
      BY <1>1, <1>5 DEF CellsInv
    <2>7. QED
      BY <1>1, <1>2, <2>4, <2>5, <2>6 DEF CellsInv
  <1>6. GoodInv'
    BY <1>1, <1>2, <1>5 DEF GoodInv
  <1>7. QED
    BY <1>4, <1>6

LEMMA PassFlash ==
  ASSUME PhaseInv, PassInv, GoodInv, ProgramFlash
  PROVE  PassInv' /\ GoodInv'
  <1> USE DEF argVars, flashVars, loopVars
  <1>0. rv = "failed" => mode = "direct" \/ worn # {} \/ ~ImageFits
    BY DEF GoodInv, CellsInv
  <1>1. CASE Identify
    <2>1. /\ mode' = mode /\ worn' = worn /\ busy' = busy /\ (rv' = rv \/ rv' = "refused")
          /\ ImageFits' <=> ImageFits
      BY <1>1 DEF Identify, Return, ImageFits
    <2>2. CASE ~FlashAnswers
      <3>1. pc' = "idle"
        BY <1>1, <2>2 DEF Identify, Return
      <3>2. QED
        BY <1>0, <2>1, <3>1, PassAway DEF LoopPc
    <2>3. CASE FlashAnswers /\ mode = "boot"
      <3>1. pc' = "confirm" /\ busy' = {}
        BY <1>1, <2>3 DEF Identify, FlashAnswers
      <3>2. QED
        BY <1>0, <2>1, <3>1 DEF PassInv, GoodInv, CellsInv, LoopPc
    <2>4. CASE FlashAnswers /\ mode # "boot"
      <3>1. Begin(SdbBase) /\ busy' = {}
        BY <1>1, <2>4 DEF Identify, FlashAnswers
      <3>2. QED
        BY <1>0, <2>1, <3>1, PassBegins
    <2>5. QED
      BY <2>2, <2>3, <2>4
  <1>2. CASE Confirm
    <2>1. mode' = mode /\ worn' = worn /\ busy' = {} /\ (ImageFits' <=> ImageFits)
      BY <1>2 DEF Confirm, PassInv, ImageFits
    <2>2. CASE Begin(0) /\ rv' = rv
      BY <1>0, <2>1, <2>2, PassBegins
    <2>3. CASE Return("refused")
      BY <2>1, <2>3, PassAway DEF Return, LoopPc
    <2>4. QED
      BY <1>2, <2>2, <2>3 DEF Confirm
  <1>3. CASE EraseSector
    BY <1>3, PassErase
  <1>4. CASE ProgramPage
    BY <1>4, PassProgram
  <1>5. CASE WaitCompletion
    <2>1. /\ pc = "wait" /\ pc' = "program" /\ busy' = {}
          /\ UNCHANGED <<flash, card, worn, mode, size, addr, n, erased, rv>>
      BY <1>5 DEF WaitCompletion
    <2>2. /\ DataLen' = DataLen /\ (\A k : Data(k)' = Data(k)) /\ (\A c : Sector(c)' = Sector(c))
          /\ ImageFits' <=> ImageFits
      BY <2>1 DEF DataLen, Data, Sector, ImageFits
    <2>3. PassInv'
      BY <2>1, <2>2 DEF PassInv, LoopPc
    <2>4. CellsInv => CellsInv'
      BY <2>1, <2>2 DEF CellsInv, LoopPc
    <2>5. QED
      BY <2>1, <2>2, <2>3, <2>4 DEF GoodInv
  <1>6. CASE StartVerification
    <2>1. /\ pc = "program" /\ pc' = "verify" /\ busy' = {} /\ n >= DataLen
          /\ UNCHANGED <<flash, card, worn, mode, size, addr, erased, rv>>
      BY <1>6 DEF StartVerification, PassInv
    <2>2. DataLen' = DataLen /\ (\A k : Data(k)' = Data(k)) /\ (ImageFits' <=> ImageFits)
      BY <2>1 DEF DataLen, Data, ImageFits
    <2>3. PassInv'
      BY <2>1 DEF PassInv, LoopPc
    <2>4. ASSUME CellsInv PROVE CellsInv'
      <3>1. \A k \in Nat : k < DataLen => k < n
        BY <2>1, LengthsAreNumbers DEF PhaseInv
      <3>2. \A k \in Nat : k < DataLen => flash[addr + k] = Data(k)
        BY <2>1, <2>4, <3>1 DEF CellsInv, LoopPc
      <3>3. QED
        BY <2>1, <2>2, <2>4, <3>2 DEF CellsInv, LoopPc
    <2>5. QED
      BY <2>1, <2>2, <2>3, <2>4 DEF GoodInv
  <1>7. CASE VerifyByte
    <2>1. /\ pc = "verify" /\ n < DataLen /\ busy' = {} /\ n \in Nat
          /\ UNCHANGED <<flash, card, worn, mode, size>>
          /\ ImageFits' <=> ImageFits
      BY <1>7 DEF VerifyByte, PassInv, PhaseInv, ImageFits
    <2>2. CASE flash[Target] = Data(n)
      <3>1. pc' = pc /\ rv' = rv /\ addr' = addr
        BY <1>7, <2>2 DEF VerifyByte
      <3>2. DataLen' = DataLen /\ \A k : Data(k)' = Data(k)
        BY <2>1, <3>1 DEF DataLen, Data
      <3>3. PassInv'
        BY <2>1, <3>1 DEF PassInv, LoopPc
      <3>4. CellsInv => CellsInv'
        BY <2>1, <3>1, <3>2 DEF CellsInv, LoopPc
      <3>5. QED
        BY <2>1, <3>3, <3>4 DEF GoodInv
    <2>3. CASE flash[Target] # Data(n)
      <3>1. worn' # {} \/ ~ImageFits'
        <4>1. ImageFits => Target = addr + n
          BY <2>1, DataAddress DEF Target, FlashPc
        <4>2. QED
          BY <2>1, <2>3, <4>1 DEF GoodInv, CellsInv
      <3>2. pc' = "idle"
        BY <1>7, <2>3 DEF VerifyByte, Return
      <3>3. QED
        BY <3>1, <3>2, PassAway DEF LoopPc
    <2>4. QED
      BY <2>2, <2>3
  <1>8. CASE Verified
    <2>1. mode' = mode /\ worn' = worn /\ busy' = {} /\ (ImageFits' <=> ImageFits)
      BY <1>8 DEF Verified, PassInv, ImageFits
    <2>2. CASE addr = SdbBase
      BY <1>0, <1>8, <2>1, <2>2, PassBegins DEF Verified
    <2>3. CASE addr # SdbBase
      BY <1>8, <2>1, <2>3, PassAway DEF Verified, Return, LoopPc
    <2>4. QED
      BY <2>2, <2>3
  <1>9. QED
    BY <1>1, <1>2, <1>3, <1>4, <1>5, <1>6, <1>7, <1>8 DEF ProgramFlash

LEMMA PassStep ==
  ASSUME PhaseInv, PassInv, GoodInv, [Next]_vars
  PROVE  PassInv' /\ GoodInv'
  <1> USE DEF argVars, flashVars, loopVars
  <1>1. CASE Main
    <2>1. pc' \notin LoopPc \cup {"confirm", "verify"} /\ rv' # "failed"
      BY <1>1 DEF Main, EnterBootloader, Return, LoopPc
    <2>2. QED
      BY <2>1, PassAway
  <1>2. CASE ProgramFlash
    BY <1>2, PassFlash
  <1>3. CASE ProgramAfpga
    <2>1. pc' \notin LoopPc \cup {"confirm", "verify"} /\ mode = "direct" /\ mode' = mode
      BY <1>3 DEF ProgramAfpga, directUnchanged, WriteSwrst, WriteStart, FillWord, PollDone,
         WriteExit, Return, LoopPc, PhaseInv, DirectPc
    <2>2. QED
      BY <2>1, PassAway
  <1>4. CASE FlashFinishes
    BY <1>4, PassStutter DEF FlashFinishes
  <1>5. CASE TakeWord \/ LoaderStep \/ AfpgaConfigured
    BY <1>5, PassStutter DEF TakeWord, LoaderStep, AfpgaConfigured, directUnchanged
  <1>6. CASE Kill \/ PowerLoss
    BY <1>6, PassAway DEF Kill, PowerLoss, Return, LoopPc
  <1>7. CASE UNCHANGED vars
    BY <1>7, PassStutter DEF vars
  <1>8. QED
    BY <1>1, <1>2, <1>3, <1>4, <1>5, <1>6, <1>7 DEF Next

-----------------------------------------------------------------------------
(* Theorems.                                                               *)

\* The inductive invariant: the tool is where its option leads, what it has
\* verified is still there, its passes erase before they program, and the
\* loader's flags are those of this run.
FlasherInv == VerifiedInv /\ TypeInv /\ DirectInv /\ PassInv /\ GoodInv

\* The invariant holds for every flash, image and number of runs.
THEOREM FlasherInvariant == Spec => []FlasherInv
  <1>1. Init => FlasherInv
    <2> SUFFICES ASSUME Init PROVE FlasherInv
      OBVIOUS
    <2>1. PhaseInv /\ TypeInv
      BY PhaseInit, TypesInit
    <2>2. StoredInv /\ SuccessMeansStored /\ DirectInv /\ PassInv /\ GoodInv
      BY DEF Init, StoredInv, SuccessMeansStored, FlashPc, DirectInv, PassInv, GoodInv, CellsInv,
             LoopPc
    <2>3. QED
      BY <2>1, <2>2 DEF FlasherInv, VerifiedInv
  <1>2. FlasherInv /\ [Next]_vars => FlasherInv'
    <2> SUFFICES ASSUME FlasherInv, [Next]_vars PROVE FlasherInv'
      OBVIOUS
    <2>1. PhaseInv /\ LoaderType /\ WordsType /\ FlashType /\ RunType
      BY DEF FlasherInv, VerifiedInv, TypeInv
    <2>2. PhaseInv'
      BY <2>1, PhaseFlash, PhaseDirect, PhaseOther DEF Next
    <2>3. TypeInv'
      BY <2>1, LoaderTypeStep, FlashTypeStep, RunTypeStep DEF TypeInv
    <2>4. StoredInv' /\ SuccessMeansStored'
      BY StoredFlash, StoredDirect, StoredOther DEF Next, FlasherInv
    <2>5. DirectInv'
      BY <2>1, DirectStep DEF FlasherInv
    <2>6. PassInv' /\ GoodInv'
      BY <2>1, PassStep DEF FlasherInv
    <2>7. QED
      BY <2>2, <2>3, <2>4, <2>5, <2>6 DEF FlasherInv, VerifiedInv
  <1>3. QED
    BY <1>1, <1>2, PTL DEF Spec

\* Every variable has its type.
THEOREM TypeCorrect == Spec => []TypeOK
  <1>1. FlasherInv => TypeOK
    BY TypesSuffice DEF FlasherInv, VerifiedInv
  <1>2. QED
    BY FlasherInvariant, <1>1, PTL

\* A flash that works is programmed without an error with an image that fits:
\* whatever an earlier run, killed or cut off at any point, has left in it
\* (flash_program).
THEOREM GoodFlash == Spec => []GoodFlashSucceeds
  <1>1. FlasherInv => GoodFlashSucceeds
    BY DEF FlasherInv, GoodInv, CellsInv, GoodFlashSucceeds
  <1>2. QED
    BY FlasherInvariant, <1>1, PTL

\* -f reports success only of an AFPGA that has taken the bitstream
\* (program_afpga), whatever the flags were before it.
THEOREM DirectIsConfigured == Spec => []DirectMeansConfigured
  <1>1. FlasherInv => DirectMeansConfigured
    BY DEF FlasherInv, VerifiedInv, PhaseInv, DirectInv, DirectMeansConfigured
  <1>2. QED
    BY FlasherInvariant, <1>1, PTL

\* When the tool reports success, the flash holds the image and the header,
\* for every flash, worn or not, every image and every history of runs.
THEOREM SuccessIsStored == Spec => []SuccessMeansStored
  <1>1. FlasherInv => SuccessMeansStored
    BY DEF FlasherInv, VerifiedInv
  <1>2. QED
    BY FlasherInvariant, <1>1, PTL

\* Without -b no step of a run whose image fits, interrupted or not, changes the
\* bootloader (flash_program; nothing in main checks that the image fits).
THEOREM BootloaderIsKept == Spec => BootloaderKept
  <1>1. FlasherInv /\ [Next]_vars =>
          [mode # "boot" /\ ImageFits =>
             \A c \in 0 .. BitstreamBase - 1 : c \notin busy => flash'[c] = flash[c]]_vars
    <2> SUFFICES ASSUME PhaseInv, Next, mode # "boot", ImageFits,
                        NEW c \in 0 .. BitstreamBase - 1, c \notin busy
                 PROVE  flash'[c] = flash[c]
      BY DEF FlasherInv, VerifiedInv
    <2> USE DEF argVars, flashVars, directUnchanged
    <2>1. c \in Cells /\ c < BitstreamBase
      BY FlasherAssumption DEF FlasherAssumption, Cells
    <2>2. CASE Writes /\ InLoop
      <3>1. ~(Target < BitstreamBase)
        <4>1. Target = addr + n
          BY <2>2, LoopInFlash
        <4>2. QED
          BY <2>2, <4>1, FlasherAssumption DEF FlasherAssumption, PhaseInv, InLoop, FlashPc, Cells
      <3>2. QED
        BY <2>1, <2>2, <3>1, OtherSideKept
    <2>3. CASE Kill /\ ~InLoop
      BY <2>3 DEF Kill
    <2>4. CASE PowerLoss
      <3>1. PICK torn \in {{}, busy} :
              flash' = [d \in Cells |-> IF d \in torn THEN Other ELSE flash[d]]
        BY <2>4 DEF PowerLoss
      <3>2. QED
        BY <2>1, <3>1
    <2>5. CASE ProgramFlash
      BY <2>2, <2>5 DEF ProgramFlash, Writes, Identify, FlashAnswers, Confirm, EraseSector, ProgramPage,
         WaitCompletion, StartVerification, VerifyByte, Verified
    <2>6. CASE ProgramAfpga
      BY <2>6 DEF ProgramAfpga, WriteSwrst, WriteStart, FillWord, PollDone, WriteExit
    <2>7. CASE Main \/ FlashFinishes \/ TakeWord \/ LoaderStep \/ AfpgaConfigured
      BY <2>7 DEF Main, EnterBootloader, FlashFinishes, TakeWord, LoaderStep, AfpgaConfigured
    <2>8. QED
      BY <2>2, <2>3, <2>4, <2>5, <2>6, <2>7 DEF Next, Writes
  <1>2. QED
    BY FlasherInvariant, <1>1, PTL DEF Spec, BootloaderKept
=============================================================================
