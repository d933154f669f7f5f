--------------------------- MODULE SfpgaBootProofs ---------------------------
(***************************************************************************)
(* Proofs about SfpgaBoot for every bitstream length, FIFO depth, number   *)
(* of resets and set of operations the hosts use.                          *)
(***************************************************************************)
EXTENDS SfpgaBoot, SequenceTheorems, TLAPS

(* The type invariant in three parts: flags, states and counters, sequences. *)
FlagsTypeOK ==
  /\ csr_done \in BOOLEAN
  /\ csr_error \in BOOLEAN
  /\ d_last \in BOOLEAN
  /\ alive \in BOOLEAN
  /\ boot_en \in BOOLEAN
  /\ go_passive \in BOOLEAN
  /\ erase \in BOOLEAN
  /\ cycle \in BOOLEAN
  /\ in_place \in BOOLEAN
  /\ sig_ok \in BOOLEAN
  /\ image_ok \in BOOLEAN
  /\ cut \in BOOLEAN

StatesTypeOK ==
  /\ state \in LoaderState
  /\ afpga \in AfpgaState
  /\ boot_source \in {"FLASH", "HOST"}
  /\ flash \in FlashState
  /\ byte_count \in 0 .. FlashLen + 1
  /\ resets \in 0 .. Resets

Word == [byte : Int, last : BOOLEAN]

SequencesTypeOK ==
  /\ d_data \in Seq(Int)
  /\ received \in Seq(Int)
  /\ fifo \in Seq(Word)

\* The three parts are the type invariant of the component.
LEMMA TypeParts == TypeOK <=> FlagsTypeOK /\ StatesTypeOK /\ SequencesTypeOK
  BY DEF TypeOK, XldrTypeOK, FlagsTypeOK, StatesTypeOK, SequencesTypeOK, Word

\* The inductive invariant.
SfpgaInv == FlagsTypeOK /\ StatesTypeOK /\ SequencesTypeOK /\ ArbiterInv

\* After power-up the AFPGA is blank and the core passive.
LEMMA InitSfpgaInv == Init => SfpgaInv
  <1> SUFFICES ASSUME Init PROVE SfpgaInv
    OBVIOUS
  <1> USE ConfigLenAssumption, SfpgaBootAssumption DEF SfpgaBootAssumption, Init, XldrInit
  <1>1. FlagsTypeOK
    BY DEF FlagsTypeOK
  <1>2. StatesTypeOK
    BY DEF StatesTypeOK, LoaderState, AfpgaState, FlashState
  <1>3. SequencesTypeOK
    BY DEF SequencesTypeOK
  <1>4. ArbiterInv
    BY DEF ArbiterInv, OneVmeCoreUncut, OneVmeCore, ErasedByPulse, StartsPassive,
           ActiveInFlashMode, GaveUpConfiguresNothing, WordsAndCounts
  <1>5. QED
    BY <1>1, <1>2, <1>3, <1>4 DEF SfpgaInv

\* The loader's word is empty or a single byte in this module.
LEMMA ShortSequences == <<>> \in Seq(Int) /\ \A i \in Int : <<i>> \in Seq(Int)
  OBVIOUS

\* A byte that is being shifted is there.
LEMMA NotEmpty == ASSUME NEW s, Len(s) = 1 PROVE s # <<>>
  <1> SUFFICES ASSUME s = <<>> PROVE FALSE
    OBVIOUS
  <1>1. Len(s) = Len(<<>>)
    OBVIOUS
  <1>2. Len(<<>>) = 0
    BY EmptySeq
  <1>3. QED
    BY <1>1, <1>2

\* The word that the loader takes from the FIFO, and what is left.
LEMMA HostWord ==
  ASSUME SequencesTypeOK, TakeHostWord
  PROVE  Head(fifo) \in Word /\ Tail(fifo) \in Seq(Word)
  BY DEF SequencesTypeOK, TakeHostWord

\* A flag stays a flag; XLAST comes from the word that was written.
LEMMA FlagsStep ==
  ASSUME SfpgaInv, [Next]_vars
  PROVE  FlagsTypeOK'
  <1> USE ConfigLenAssumption, SfpgaBootAssumption
      DEF SfpgaBootAssumption, SfpgaInv, afpgaVars, loaderVars, xldrVars, flashVars,
          arbiterVars, contents, counts, FlagsTypeOK
  <1>1. CASE Reset \/ EndCycle \/ Arbiter
    <2>1. CASE Reset
      BY <2>1 DEF Reset
    <2>2. CASE EndCycle
      BY <2>2 DEF EndCycle
    <2>3. CASE EraseEnd
      BY <2>3 DEF EraseEnd
    <2>4. CASE GoPassive
      BY <2>4 DEF GoPassive
    <2>5. QED
      BY <1>1, <2>1, <2>2, <2>3, <2>4 DEF Arbiter
  <1>2. CASE Trigger
    BY <1>2 DEF Trigger, BeginCycle, ClearAfpga
  <1>3. CASE HostWrite
    <2>1. CASE HostSwrst
      BY <2>1 DEF HostSwrst, BeginCycle, Swrst
    <2>2. CASE HostStart
      BY <2>2 DEF HostStart, BeginCycle, Start, ClearAfpga
    <2>3. CASE \E b \in 0 .. ConfigLen, last \in BOOLEAN : HostFifo(b, last)
      BY <2>3 DEF HostFifo, BeginCycle
    <2>4. CASE HostFar
      BY <2>4 DEF HostFar, BeginCycle
    <2>5. CASE HostExit
      BY <2>5 DEF HostExit, BeginCycle, StartupPulse
    <2>6. QED
      BY <1>3, <2>1, <2>2, <2>3, <2>4, <2>5 DEF HostWrite
  <1>4. CASE FlashEngine
    <2>1. CASE FlashStartup
      BY <2>1 DEF FlashStartup
    <2>2. CASE SignatureMissing
      BY <2>2 DEF SignatureMissing
    <2>3. CASE FetchBsByte
      BY <2>3 DEF FetchBsByte
    <2>4. CASE SignatureFound
      BY <2>4 DEF SignatureFound, Start, ClearAfpga
    <2>5. CASE LoadBsByte
      <3>1. CASE Fetch(<<FlashByte>>, FALSE)
        BY <2>5, <3>1 DEF LoadBsByte, Fetch
      <3>2. CASE Drop
        BY <2>5, <3>2 DEF LoadBsByte, Drop
      <3>3. QED
        BY <2>5, <3>1, <3>2 DEF LoadBsByte
    <2>6. CASE NoBitstreamPulse
      BY <2>6 DEF NoBitstreamPulse, ClearAfpga
    <2>7. QED
      BY <1>4, <2>1, <2>2, <2>3, <2>4, <2>5, <2>6 DEF FlashEngine
  <1>5. CASE FlashExit \/ AfpgaClears \/ AfpgaConfigured
    <2>1. CASE FlashExit
      BY <2>1 DEF FlashExit, StartupPulse
    <2>2. CASE AfpgaClears
      BY <2>2 DEF AfpgaClears, AfpgaReady
    <2>3. CASE AfpgaConfigured
      BY <2>3 DEF AfpgaConfigured, AfpgaDone, Configurable
    <2>4. QED
      BY <1>5, <2>1, <2>2, <2>3
  <1>6. CASE TakeHostWord
    <2>1. Head(fifo).last \in BOOLEAN
      BY <1>6, HostWord DEF Word
    <2>2. d_last' \in BOOLEAN
      BY <1>6, <2>1 DEF TakeHostWord, Fetch, Drop, FlagsTypeOK
    <2>3. QED
      BY <1>6, <2>2 DEF TakeHostWord, Fetch, Drop
  <1>7. CASE LoaderStep
    <2>1. CASE ProgExtended
      BY <1>7, <2>1 DEF LoaderStep, ProgExtended
    <2>2. CASE InitSeen
      BY <1>7, <2>2 DEF LoaderStep, InitSeen
    <2>3. CASE InitTimeout
      BY <1>7, <2>3 DEF LoaderStep, InitTimeout
    <2>4. CASE InitReleased
      BY <1>7, <2>4 DEF LoaderStep, InitReleased
    <2>5. CASE ShiftByte
      BY <1>7, <2>5 DEF LoaderStep, ShiftByte
    <2>6. CASE DoneWhileShifting
      BY <1>7, <2>6 DEF LoaderStep, DoneWhileShifting
    <2>7. CASE FlagDone
      BY <1>7, <2>7 DEF LoaderStep, FlagDone
    <2>8. CASE DoneAfterLast
      BY <1>7, <2>8 DEF LoaderStep, DoneAfterLast
    <2>9. CASE DoneTimeout
      BY <1>7, <2>9 DEF LoaderStep, DoneTimeout
    <2>10. CASE StartupEnd
      BY <1>7, <2>10 DEF LoaderStep, StartupEnd
    <2>11. QED
      BY <1>7, <2>1, <2>2, <2>3, <2>4, <2>5, <2>6, <2>7, <2>8, <2>9, <2>10 DEF LoaderStep, Internal
  <1>8. CASE UNCHANGED vars
    BY <1>8 DEF vars
  <1>9. QED
    BY <1>1, <1>2, <1>3, <1>4, <1>5, <1>6, <1>7, <1>8 DEF Next, Loader

\* Loader and flash engine go from state to state; the byte counter stays
\* within its limit because LOAD is left when it is reached.
LEMMA StatesStep ==
  ASSUME SfpgaInv, [Next]_vars
  PROVE  StatesTypeOK'
  <1> USE ConfigLenAssumption, SfpgaBootAssumption
      DEF SfpgaBootAssumption, SfpgaInv, afpgaVars, loaderVars, xldrVars, flashVars,
          arbiterVars, contents, counts, StatesTypeOK,
          LoaderState, AfpgaState, FlashState
  <1>1. CASE Reset \/ EndCycle \/ Arbiter
    <2>1. CASE Reset
      BY <2>1 DEF Reset
    <2>2. CASE EndCycle
      BY <2>2 DEF EndCycle
    <2>3. CASE EraseEnd
      BY <2>3 DEF EraseEnd
    <2>4. CASE GoPassive
      BY <2>4 DEF GoPassive
    <2>5. QED
      BY <1>1, <2>1, <2>2, <2>3, <2>4 DEF Arbiter
  <1>2. CASE Trigger
    BY <1>2 DEF Trigger, BeginCycle, ClearAfpga
  <1>3. CASE HostWrite
    <2>1. CASE HostSwrst
      BY <2>1 DEF HostSwrst, BeginCycle, Swrst
    <2>2. CASE HostStart
      BY <2>2 DEF HostStart, BeginCycle, Start, ClearAfpga
    <2>3. CASE \E b \in 0 .. ConfigLen, last \in BOOLEAN : HostFifo(b, last)
      BY <2>3 DEF HostFifo, BeginCycle
    <2>4. CASE HostFar
      BY <2>4 DEF HostFar, BeginCycle
    <2>5. CASE HostExit
      BY <2>5 DEF HostExit, BeginCycle, StartupPulse
    <2>6. QED
      BY <1>3, <2>1, <2>2, <2>3, <2>4, <2>5 DEF HostWrite
  <1>4. CASE FlashEngine
    <2>1. CASE LoadBsByte
      <3>1. byte_count' \in 0 .. FlashLen + 1
        BY <2>1 DEF LoadBsByte, ArbiterInv, WordsAndCounts, StatesTypeOK
      <3>2. flash' \in FlashState /\ state' \in LoaderState
        BY <2>1 DEF LoadBsByte, Fetch, Drop
      <3>3. QED
        BY <2>1, <3>1, <3>2 DEF LoadBsByte, Fetch, Drop
    <2>2. CASE FlashStartup
      BY <2>2 DEF FlashStartup
    <2>3. CASE SignatureFound
      BY <2>3 DEF SignatureFound, Start, ClearAfpga
    <2>4. CASE SignatureMissing
      BY <2>4 DEF SignatureMissing
    <2>5. CASE FetchBsByte
      BY <2>5 DEF FetchBsByte
    <2>6. CASE NoBitstreamPulse
      BY <2>6 DEF NoBitstreamPulse, ClearAfpga
    <2>7. QED
      BY <1>4, <2>1, <2>2, <2>3, <2>4, <2>5, <2>6 DEF FlashEngine
  <1>5. CASE FlashExit \/ AfpgaClears \/ AfpgaConfigured
    <2>1. CASE FlashExit
      BY <2>1 DEF FlashExit, StartupPulse
    <2>2. CASE AfpgaClears
      BY <2>2 DEF AfpgaClears, AfpgaReady
    <2>3. CASE AfpgaConfigured
      BY <2>3 DEF AfpgaConfigured, AfpgaDone, Configurable
    <2>4. QED
      BY <1>5, <2>1, <2>2, <2>3
  <1>6. CASE TakeHostWord
    BY <1>6 DEF TakeHostWord, Fetch, Drop
  <1>7. CASE LoaderStep
    <2>1. CASE ProgExtended
      BY <1>7, <2>1 DEF LoaderStep, ProgExtended
    <2>2. CASE InitSeen
      BY <1>7, <2>2 DEF LoaderStep, InitSeen
    <2>3. CASE InitTimeout
      BY <1>7, <2>3 DEF LoaderStep, InitTimeout
    <2>4. CASE InitReleased
      BY <1>7, <2>4 DEF LoaderStep, InitReleased
    <2>5. CASE ShiftByte
      <3>1. state' \in {"READ_FIFO", "WAIT_DONE"}
        BY <2>5 DEF ShiftByte, ArbiterInv, WordsAndCounts
      <3>2. QED
        BY <1>7, <2>5, <3>1 DEF LoaderStep, ShiftByte
    <2>6. CASE DoneWhileShifting
      BY <1>7, <2>6 DEF LoaderStep, DoneWhileShifting
    <2>7. CASE FlagDone
      BY <1>7, <2>7 DEF LoaderStep, FlagDone
    <2>8. CASE DoneAfterLast
      BY <1>7, <2>8 DEF LoaderStep, DoneAfterLast
    <2>9. CASE DoneTimeout
      BY <1>7, <2>9 DEF LoaderStep, DoneTimeout
    <2>10. CASE StartupEnd
      BY <1>7, <2>10 DEF LoaderStep, StartupEnd
    <2>11. QED
      BY <1>7, <2>1, <2>2, <2>3, <2>4, <2>5, <2>6, <2>7, <2>8, <2>9, <2>10 DEF LoaderStep, Internal
  <1>8. CASE UNCHANGED vars
    BY <1>8 DEF vars
  <1>9. QED
    BY <1>1, <1>2, <1>3, <1>4, <1>5, <1>6, <1>7, <1>8 DEF Next, Loader

\* Words are put together from bytes and taken apart again.
LEMMA SequencesStep ==
  ASSUME SfpgaInv, [Next]_vars
  PROVE  SequencesTypeOK'
  <1> USE ConfigLenAssumption, SfpgaBootAssumption
      DEF SfpgaBootAssumption, SfpgaInv, afpgaVars, loaderVars, xldrVars, flashVars,
          arbiterVars, contents, counts, SequencesTypeOK
  <1>1. CASE Reset \/ EndCycle \/ Arbiter
    <2>1. CASE Reset
      BY <2>1 DEF Reset
    <2>2. CASE EndCycle
      BY <2>2 DEF EndCycle
    <2>3. CASE EraseEnd
      BY <2>3 DEF EraseEnd
    <2>4. CASE GoPassive
      BY <2>4 DEF GoPassive
    <2>5. QED
      BY <1>1, <2>1, <2>2, <2>3, <2>4 DEF Arbiter
  <1>2. CASE Trigger
    BY <1>2 DEF Trigger, BeginCycle, ClearAfpga
  <1>3. CASE HostWrite
    <2>1. CASE HostStart
      <3>1. d_data' = d_data /\ fifo' = fifo
        BY <2>1 DEF HostStart, BeginCycle, Start, ClearAfpga
      <3>2. CASE received' = received
        BY <3>1, <3>2
      <3>3. CASE received' = <<>>
        BY <3>1, <3>3, ShortSequences
      <3>4. QED
        BY <2>1, <3>2, <3>3 DEF HostStart, BeginCycle, Start, ClearAfpga
    <2>2. CASE \E b \in 0 .. ConfigLen, last \in BOOLEAN : HostFifo(b, last)
      <3>1. PICK b \in 0 .. ConfigLen, last \in BOOLEAN : HostFifo(b, last)
        BY <2>2
      <3>2. [byte |-> b, last |-> last] \in Word
        BY DEF Word
      <3>3. QED
        BY <3>1, <3>2 DEF HostFifo
    <2>3. CASE HostSwrst
      BY <2>3 DEF HostSwrst, BeginCycle, Swrst
    <2>4. CASE HostFar
      BY <2>4 DEF HostFar, BeginCycle
    <2>5. CASE HostExit
      BY <2>5 DEF HostExit, BeginCycle, StartupPulse
    <2>6. QED
      BY <1>3, <2>1, <2>2, <2>3, <2>4, <2>5 DEF HostWrite
  <1>4. CASE FlashEngine
    <2>1. CASE SignatureFound
      <3>1. d_data' = d_data /\ fifo' = fifo
        BY <2>1 DEF SignatureFound, Start, ClearAfpga
      <3>2. CASE received' = received
        BY <3>1, <3>2
      <3>3. CASE received' = <<>>
        BY <3>1, <3>3, ShortSequences
      <3>4. QED
        BY <2>1, <3>2, <3>3 DEF SignatureFound, Start, ClearAfpga
    <2>2. CASE LoadBsByte
      <3>1. FlashByte \in Int
        BY DEF FlashByte, StatesTypeOK
      <3>2. d_data' \in Seq(Int)
        <4>1. CASE d_data' = <<FlashByte>>
          BY <3>1, <4>1, ShortSequences
        <4>2. CASE d_data' = d_data
          BY <4>2
        <4>3. QED
          BY <2>2, <4>1, <4>2 DEF LoadBsByte, Fetch, Drop
      <3>3. received' = received /\ fifo' = fifo
        BY <2>2 DEF LoadBsByte, Fetch, Drop
      <3>4. QED
        BY <3>2, <3>3
    <2>3. CASE FlashStartup
      BY <2>3 DEF FlashStartup
    <2>4. CASE SignatureMissing
      BY <2>4 DEF SignatureMissing
    <2>5. CASE FetchBsByte
      BY <2>5 DEF FetchBsByte
    <2>6. CASE NoBitstreamPulse
      BY <2>6 DEF NoBitstreamPulse, ClearAfpga
    <2>7. QED
      BY <1>4, <2>1, <2>2, <2>3, <2>4, <2>5, <2>6 DEF FlashEngine
  <1>5. CASE FlashExit \/ AfpgaClears \/ AfpgaConfigured
    <2>1. CASE FlashExit
      BY <2>1 DEF FlashExit, StartupPulse
    <2>2. CASE AfpgaClears
      BY <2>2 DEF AfpgaClears, AfpgaReady
    <2>3. CASE AfpgaConfigured
      BY <2>3 DEF AfpgaConfigured, AfpgaDone, Configurable
    <2>4. QED
      BY <1>5, <2>1, <2>2, <2>3
  <1>6. CASE TakeHostWord
    <2>1. Head(fifo).byte \in Int /\ Tail(fifo) \in Seq(Word)
      BY <1>6, HostWord DEF Word
    <2>2. d_data' \in Seq(Int)
      <3>1. CASE d_data' = <<Head(fifo).byte>>
        BY <2>1, <3>1, ShortSequences
      <3>2. CASE d_data' = d_data
        BY <3>2
      <3>3. QED
        BY <1>6, <3>1, <3>2 DEF TakeHostWord, Fetch, Drop
    <2>3. received' = received /\ fifo' = Tail(fifo)
      BY <1>6 DEF TakeHostWord, Fetch, Drop
    <2>4. QED
      BY <2>1, <2>2, <2>3
  <1>7. CASE LoaderStep
    <2>1. CASE ProgExtended
      BY <1>7, <2>1 DEF LoaderStep, ProgExtended
    <2>2. CASE InitSeen
      BY <1>7, <2>2 DEF LoaderStep, InitSeen
    <2>3. CASE InitTimeout
      BY <1>7, <2>3 DEF LoaderStep, InitTimeout
    <2>4. CASE InitReleased
      BY <1>7, <2>4 DEF LoaderStep, InitReleased
    <2>5. CASE ShiftByte
      <3>1. Len(d_data) = 1
        BY <2>5 DEF ShiftByte, ArbiterInv, WordsAndCounts
      <3>2. d_data # <<>>
        BY <3>1, NotEmpty
      <3>3. Head(d_data) \in Int /\ Tail(d_data) \in Seq(Int)
        BY <3>2
      <3>4. QED
        BY <1>7, <2>5, <3>3 DEF LoaderStep, ShiftByte
    <2>6. CASE DoneWhileShifting
      BY <1>7, <2>6 DEF LoaderStep, DoneWhileShifting
    <2>7. CASE FlagDone
      BY <1>7, <2>7 DEF LoaderStep, FlagDone
    <2>8. CASE DoneAfterLast
      BY <1>7, <2>8 DEF LoaderStep, DoneAfterLast
    <2>9. CASE DoneTimeout
      BY <1>7, <2>9 DEF LoaderStep, DoneTimeout
    <2>10. CASE StartupEnd
      BY <1>7, <2>10 DEF LoaderStep, StartupEnd
    <2>11. QED
      BY <1>7, <2>1, <2>2, <2>3, <2>4, <2>5, <2>6, <2>7, <2>8, <2>9, <2>10 DEF LoaderStep, Internal
  <1>8. CASE UNCHANGED vars
    BY <1>8 DEF vars
  <1>9. QED
    BY <1>1, <1>2, <1>3, <1>4, <1>5, <1>6, <1>7, <1>8 DEF Next, Loader

\* The heart of the argument.  Trigger and NoBitstreamPulse erase the AFPGA when
\* they begin the pulse, so that EraseEnd activates the core over an AFPGA that
\* does not run; FlashExit gives startup clocks in flash mode, where the core is
\* passive or the engine has nothing configured; HostExit announces the core's
\* end, and the loader's last startup clock comes after it.
LEMMA ArbiterStep ==
  ASSUME SfpgaInv, [Next]_vars
  PROVE  ArbiterInv'
  <1> USE ConfigLenAssumption, SfpgaBootAssumption
      DEF SfpgaBootAssumption, SfpgaInv, afpgaVars, loaderVars, xldrVars, flashVars,
          arbiterVars, contents, counts, StatesTypeOK, FlagsTypeOK, Done,
          ArbiterInv, OneVmeCoreUncut, OneVmeCore, ErasedByPulse, StartsPassive,
          ActiveInFlashMode, GaveUpConfiguresNothing, WordsAndCounts
  <1>1. CASE Reset
    BY <1>1 DEF Reset
  <1>2. CASE Trigger
    BY <1>2 DEF Trigger, BeginCycle, ClearAfpga
  <1>3. CASE HostSwrst
    BY <1>3 DEF HostSwrst, BeginCycle, Swrst
  <1>4. CASE HostStart
    BY <1>4 DEF HostStart, BeginCycle, Start, ClearAfpga
  <1>5. CASE \E b \in 0 .. ConfigLen, last \in BOOLEAN : HostFifo(b, last)
    BY <1>5 DEF HostFifo, BeginCycle
  <1>6. CASE HostFar
    BY <1>6 DEF HostFar, BeginCycle
  <1>7. CASE HostExit
    BY <1>7 DEF HostExit, BeginCycle, StartupPulse
  <1>8. CASE EndCycle
    BY <1>8 DEF EndCycle
  <1>9. CASE FlashStartup
    BY <1>9 DEF FlashStartup
  <1>10. CASE SignatureFound
    BY <1>10 DEF SignatureFound, Start, ClearAfpga
  <1>11. CASE SignatureMissing
    BY <1>11 DEF SignatureMissing
  <1>12. CASE FetchBsByte
    BY <1>12 DEF FetchBsByte
  <1>13. CASE LoadBsByte
    BY <1>13 DEF LoadBsByte, Fetch, Drop
  <1>14. CASE NoBitstreamPulse
    BY <1>14 DEF NoBitstreamPulse, ClearAfpga
  <1>15. CASE FlashExit
    BY <1>15 DEF FlashExit, StartupPulse
  <1>16. CASE TakeHostWord
    BY <1>16 DEF TakeHostWord, Fetch, Drop
  <1>17. CASE AfpgaClears
    BY <1>17 DEF AfpgaClears, AfpgaReady
  <1>18. CASE LoaderStep
    <2>1. CASE ProgExtended
      BY <1>18, <2>1 DEF LoaderStep, ProgExtended
    <2>2. CASE InitSeen
      BY <1>18, <2>2 DEF LoaderStep, InitSeen
    <2>3. CASE InitTimeout
      BY <1>18, <2>3 DEF LoaderStep, InitTimeout
    <2>4. CASE InitReleased
      BY <1>18, <2>4 DEF LoaderStep, InitReleased
    <2>5. CASE ShiftByte
      BY <1>18, <2>5 DEF LoaderStep, ShiftByte
    <2>6. CASE DoneWhileShifting
      BY <1>18, <2>6 DEF LoaderStep, DoneWhileShifting
    <2>7. CASE FlagDone
      BY <1>18, <2>7 DEF LoaderStep, FlagDone
    <2>8. CASE DoneAfterLast
      BY <1>18, <2>8 DEF LoaderStep, DoneAfterLast
    <2>9. CASE DoneTimeout
      BY <1>18, <2>9 DEF LoaderStep, DoneTimeout
    <2>10. CASE StartupEnd
      BY <1>18, <2>10 DEF LoaderStep, StartupEnd
    <2>11. QED
      BY <1>18, <2>1, <2>2, <2>3, <2>4, <2>5, <2>6, <2>7, <2>8, <2>9, <2>10 DEF LoaderStep, Internal
  <1>19. CASE AfpgaConfigured
    BY <1>19 DEF AfpgaConfigured, AfpgaDone, Configurable
  <1>20. CASE EraseEnd
    BY <1>20 DEF EraseEnd
  <1>21. CASE GoPassive
    BY <1>21 DEF GoPassive
  <1>22. CASE UNCHANGED vars
    BY <1>22 DEF vars
  <1>23. QED
    BY <1>1, <1>2, <1>3, <1>4, <1>5, <1>6, <1>7, <1>8, <1>9, <1>10, <1>11, <1>12,
       <1>13, <1>14, <1>15, <1>16, <1>17, <1>18, <1>19, <1>20, <1>21, <1>22
       DEF Next, HostWrite, FlashEngine, Loader, Arbiter

\* The invariant of the module: types and arbitration need each other.
LEMMA SfpgaInvariant == Spec => []SfpgaInv
  <1>1. SfpgaInv /\ [Next]_vars => SfpgaInv'
    BY FlagsStep, StatesStep, SequencesStep, ArbiterStep DEF SfpgaInv
  <1>2. QED
    BY InitSfpgaInv, <1>1, PTL DEF Spec

\* Every variable keeps its type: the loader in a state of p_main_fsm, the
\* flash engine's byte counter within its limit.
THEOREM TypeCorrect == Spec => []TypeOK
  <1>1. SfpgaInv => TypeOK
    BY TypeParts DEF SfpgaInv
  <1>2. QED
    BY SfpgaInvariant, <1>1, PTL

\* The parts of the argument hold together in every reachable state.
THEOREM ArbiterInvariant == Spec => []ArbiterInv
  <1>1. SfpgaInv => ArbiterInv
    BY DEF SfpgaInv
  <1>2. QED
    BY SfpgaInvariant, <1>1, PTL

\* The System FPGA and the AFPGA never drive the bus together, unless a reset
\* has cut an erase pulse and no trigger followed.
THEOREM NeverTwoCores == Spec => []OneVmeCoreUncut
  <1>1. ArbiterInv => OneVmeCoreUncut
    BY DEF ArbiterInv
  <1>2. QED
    BY ArbiterInvariant, <1>1, PTL

\* Only the trigger sequence, or the flash boot that follows a reset, stops a
\* running AFPGA.
THEOREM OnlyTriggerStops == Spec => RunningLostOnlyByTrigger
  <1> DEFINE Kept == (afpga = "running" /\ afpga' # "running")
                     => (erase' \/ boot_source = "FLASH")
  <1>1. SfpgaInv /\ [Next]_vars => [Kept]_vars
    <2> SUFFICES ASSUME SfpgaInv, Next,
                        afpga = "running", afpga' # "running", boot_source # "FLASH"
                 PROVE  erase'
      OBVIOUS
    <2> USE DEF SfpgaInv, FlagsTypeOK, StatesTypeOK, afpgaVars, loaderVars, xldrVars
    <2>1. CASE Trigger
      BY <2>1 DEF Trigger
    <2>2. CASE HostWrite
      \* START would clear it, were the core active.
      <3>1. ~boot_en
        BY DEF ArbiterInv, OneVmeCoreUncut, OneVmeCore, ActiveInFlashMode
      <3>2. CASE HostSwrst
        BY <3>2 DEF HostSwrst, Swrst
      <3>3. CASE HostStart
        BY <3>1, <3>3 DEF HostStart
      <3>4. CASE \E b \in 0 .. ConfigLen, last \in BOOLEAN : HostFifo(b, last)
        BY <3>4 DEF HostFifo
      <3>5. CASE HostFar
        BY <3>5 DEF HostFar
      <3>6. CASE HostExit
        BY <3>6 DEF HostExit, StartupPulse
      <3>7. QED
        BY <2>2, <3>2, <3>3, <3>4, <3>5, <3>6 DEF HostWrite
    <2>3. CASE FlashEngine
      <3>1. boot_source = "HOST"
        BY DEF StatesTypeOK
      <3>2. flash = "STARTUP"
        BY <3>1 DEF ArbiterInv, ActiveInFlashMode
      <3>3. CASE FlashStartup
        BY <3>1, <3>3 DEF FlashStartup
      <3>4. CASE SignatureFound \/ SignatureMissing
        BY <3>2, <3>4 DEF SignatureFound, SignatureMissing
      <3>5. CASE FetchBsByte \/ LoadBsByte
        BY <3>2, <3>5 DEF FetchBsByte, LoadBsByte
      <3>6. CASE NoBitstreamPulse
        BY <3>2, <3>6 DEF NoBitstreamPulse
      <3>7. QED
        BY <2>3, <3>3, <3>4, <3>5, <3>6 DEF FlashEngine
    <2>4. CASE Loader \/ AfpgaConfigured
      <3>1. CASE FlashExit
        BY <3>1 DEF FlashExit, StartupPulse
      <3>2. CASE TakeHostWord
        BY <3>2 DEF TakeHostWord, Fetch, Drop
      <3>3. CASE AfpgaClears
        BY <3>3 DEF AfpgaClears, AfpgaReady
      <3>4. CASE AfpgaConfigured
        BY <3>4 DEF AfpgaConfigured, AfpgaDone, Configurable
      <3>5. CASE LoaderStep
        <4>1. CASE ShiftByte
          BY <4>1 DEF ShiftByte
        <4>2. CASE StartupEnd
          BY <4>2 DEF StartupEnd
        <4>3. afpga' = afpga \/ ShiftByte \/ StartupEnd
          BY <3>5 DEF LoaderStep, Internal, ProgExtended, InitSeen, InitTimeout,
               InitReleased, DoneWhileShifting, FlagDone, DoneAfterLast, DoneTimeout
        <4>4. QED
          BY <4>1, <4>2, <4>3
      <3>6. QED
        BY <2>4, <3>1, <3>2, <3>3, <3>4, <3>5 DEF Loader
    <2>5. CASE Reset \/ EndCycle \/ Arbiter
      <3>1. CASE Reset
        BY <3>1 DEF Reset
      <3>2. CASE EndCycle
        BY <3>2 DEF EndCycle
      <3>3. CASE Arbiter
        BY <3>3 DEF Arbiter, EraseEnd, GoPassive
      <3>4. QED
        BY <2>5, <3>1, <3>2, <3>3
    <2>6. QED
      BY <2>1, <2>2, <2>3, <2>4, <2>5 DEF Next
  <1>2. QED
    BY SfpgaInvariant, <1>1, PTL DEF Spec, RunningLostOnlyByTrigger
=============================================================================
