------------------------------ MODULE Download ------------------------------
(***************************************************************************)
(* A host loads the AFPGA: the FPGA-manager operations of svec-core.c      *)
(* (write_init, write, write_complete), the FIFO of the register file and  *)
(* the Xilinx loader.  The FPGA manager locks its device, so downloads     *)
(* come one after another; the hardware runs between any two VME accesses. *)
(*                                                                         *)
(* The image is the sequence of bytes 1, 2, ..., ImageLen.  The FPGA       *)
(* manager core hands it over in chunks (the pages of a firmware file),    *)
(* which end at the positions in ChunkEnds.                                *)
(***************************************************************************)
EXTENDS XilinxLoader, SequencesExt, FiniteSetsExt

CONSTANTS
  ImageLen,     \* bytes of the image
  ChunkEnds,    \* where the chunks of the image end
  WordLen,      \* bytes of a FIFO word (4)
  FifoDepth,    \* words of the FIFO (256)
  Tries,        \* how often a full FIFO is polled again (10000)
  Downloads     \* bound: how many downloads are started

ASSUME DownloadAssumption ==
  /\ ImageLen \in Nat \ {0}
  /\ ChunkEnds \subseteq 1 .. ImageLen
  /\ ImageLen \in ChunkEnds
  /\ WordLen \in Nat \ {0}
  /\ FifoDepth \in Nat \ {0}
  /\ Tries \in Nat
  /\ Downloads \in Nat

VARIABLES
  fifo,         \* the words in the FIFO
  msbf,         \* CSR.MSBF: words go out as written, not byte-swapped
  pc,           \* where the driver is
  taken,        \* bytes of the image taken from the chunks so far
  last_word,    \* bitstream_last_word: taken, not yet written; <<>>: the
                \* invalid size -1
  try,          \* polls of the full FIFO left
  result,       \* what the last operation returned
  downloads,    \* downloads started
  active,       \* the card answers as a bootloader: triggered, no EXIT since
  stale         \* history: the bytes left in the FIFO at START

driverVars == <<pc, taken, last_word, try, result, downloads>>
vars == <<xldrVars, driverVars, fifo, msbf, active, stale>>

Pc == {"idle", "swrst", "start", "write", "complete", "poll", "exit"}
Result == {"none", "ok", "EBUSY", "EIO", "EINVAL", "ENXIO"}

Image == [i \in 1 .. ImageLen |-> i]

\* The word that starts after the first n bytes of the image: it never runs
\* over the end of its chunk.
WordAfter(n) ==
  LET end == Min({e \in ChunkEnds : e > n})
  IN  SubSeq(Image, n + 1, Min({n + WordLen, end}))

\* The bytes of some FIFO words, in order.
BytesOf(words) == FlattenSeq([i \in DOMAIN words |-> words[i].bytes])

\* What goes out of a word of which only Len(bytes) bytes count when it is
\* byte-swapped: the padding first.
Swapped(bytes) ==
  LET padded == bytes \o [i \in 1 .. WordLen - Len(bytes) |-> 0]
  IN  SubSeq(Reverse(padded), 1, Len(bytes))

TypeOK ==
  /\ XldrTypeOK
  /\ fifo \in Seq([bytes : Seq(Int), last : BOOLEAN])
  /\ Len(fifo) <= FifoDepth
  /\ msbf \in BOOLEAN
  /\ pc \in Pc
  /\ taken \in 0 .. ImageLen
  /\ last_word \in Seq(1 .. ImageLen)
  /\ try \in 0 .. Tries
  /\ result \in Result
  /\ downloads \in 0 .. Downloads
  /\ active \in BOOLEAN
  /\ stale \in Seq(Int)

\* The card may be a bootloader already: the flasher leaves it one when it is
\* killed.
Init ==
  /\ XldrInit
  /\ fifo = <<>>
  /\ msbf = FALSE
  /\ pc = "idle"
  /\ taken = 0
  /\ last_word = <<>>
  /\ try = Tries
  /\ result = "none"
  /\ downloads = 0
  /\ active \in BOOLEAN
  /\ stale = <<>>

-----------------------------------------------------------------------------
(* The driver.                                                             *)

\* The trigger sequence: the card becomes a bootloader and the AFPGA is
\* cleared, whatever the loader is doing ...
Trigger ==
  /\ active' = TRUE
  /\ ClearAfpga

\* ... unless the detector misses it; an earlier download that failed may have
\* left the card a bootloader all the same.
MissedTrigger == UNCHANGED <<active, afpgaVars>>

\* Fault: the word of a failed download is kept.
InitKeepsWord ==
  /\ pc = "idle"
  /\ downloads < Downloads
  /\ downloads' = downloads + 1
  /\ taken' = 0
  /\ try' = Tries
  /\ result' = "none"
  /\ Trigger \/ MissedTrigger
  /\ active' = TRUE
  /\ pc' = "swrst"
  /\ UNCHANGED <<loaderVars, alive, fifo, msbf, stale, last_word>>

\* Fault: IDR is not looked at.
InitUnchecked ==
  /\ pc = "idle"
  /\ downloads < Downloads
  /\ downloads' = downloads + 1
  /\ last_word' = <<>>
  /\ taken' = 0
  /\ try' = Tries
  /\ result' = "none"
  /\ Trigger \/ MissedTrigger
  /\ pc' = "swrst"
  /\ UNCHANGED <<loaderVars, alive, fifo, msbf, stale>>

\* svec_fpga_write_init up to the check of IDR, which only a bootloader
\* answers.
WriteInit ==
  /\ pc = "idle"
  /\ downloads < Downloads
  /\ downloads' = downloads + 1
  /\ last_word' = <<>>
  /\ taken' = 0
  /\ try' = Tries
  /\ result' = "none"
  /\ Trigger \/ MissedTrigger
  /\ active' = TRUE
  /\ pc' = "swrst"
  /\ UNCHANGED <<loaderVars, alive, fifo, msbf, stale>>

\* The detector missed the sequence and the card does not answer as a
\* bootloader: nothing happens to the AFPGA.
WriteInitUnavailable ==
  /\ pc = "idle"
  /\ ~active
  /\ downloads < Downloads
  /\ downloads' = downloads + 1
  /\ last_word' = <<>>
  /\ result' = "ENXIO"
  /\ UNCHANGED <<xldrVars, fifo, msbf, active, stale, pc, taken, try>>

\* Fault: the loader is not reset.
SkipSwrst ==
  /\ pc = "swrst"
  /\ msbf' = FALSE
  /\ pc' = "start"
  /\ UNCHANGED <<xldrVars, fifo, active, stale, taken, last_word, try, result, downloads>>

\* The two writes to CSR, each of all its bits.
WriteSwrst ==
  /\ pc = "swrst"
  /\ Swrst
  /\ msbf' = FALSE
  /\ pc' = "start"
  /\ UNCHANGED <<fifo, active, stale, taken, last_word, try, result, downloads>>

WriteStart ==
  /\ pc = "start"
  /\ Start
  /\ msbf' = TRUE
  /\ stale' = BytesOf(fifo)
  /\ pc' = "write"
  /\ UNCHANGED <<fifo, active, taken, last_word, try, result, downloads>>

FifoFull == Len(fifo) = FifoDepth

\* Fault: FIFO_CSR.FULL is not looked at.
WriteWordUnchecked(is_last) ==
  /\ fifo' = IF last_word = <<>> THEN fifo
             ELSE Append(fifo, [bytes |-> last_word, last |-> is_last])
  /\ try' = Tries

\* svec_fpga_write_word, when the FIFO has room.  The invalid size of a word
\* that was never taken is refused and nothing is written.
WriteWord(is_last) ==
  /\ last_word # <<>> => ~FifoFull
  /\ fifo' = IF last_word = <<>> THEN fifo
             ELSE Append(fifo, [bytes |-> last_word, last |-> is_last])
  /\ try' = Tries

\* Fault: the last word of every chunk is marked.
MarkEveryChunk ==
  /\ pc = "write"
  /\ taken < ImageLen
  /\ WriteWord(taken \in ChunkEnds)
  /\ last_word' = WordAfter(taken)
  /\ taken' = taken + Len(WordAfter(taken))
  /\ UNCHANGED <<xldrVars, msbf, active, stale, pc, result, downloads>>

\* An iteration of svec_fpga_write_buf: it writes the word taken in the one
\* before, which may be of the chunk before, and takes the next word.
WriteBuf ==
  /\ pc = "write"
  /\ taken < ImageLen
  /\ WriteWord(FALSE)
  /\ last_word' = WordAfter(taken)
  /\ taken' = taken + Len(WordAfter(taken))
  /\ UNCHANGED <<xldrVars, msbf, active, stale, pc, result, downloads>>

\* Every chunk was accepted: the core calls write_complete.
EndOfImage ==
  /\ pc = "write"
  /\ taken = ImageLen
  /\ pc' = "complete"
  /\ UNCHANGED <<xldrVars, fifo, msbf, active, stale, taken, last_word, try, result, downloads>>

\* Fault: the polls of a full FIFO are not counted.
PollFullForever ==
  /\ (pc = "write" /\ taken < ImageLen) \/ pc = "complete"
  /\ last_word # <<>>
  /\ FifoFull
  /\ UNCHANGED vars

\* The FIFO is full: poll it again ...
PollFull ==
  /\ (pc = "write" /\ taken < ImageLen) \/ pc = "complete"
  /\ last_word # <<>>
  /\ FifoFull
  /\ try > 0
  /\ try' = try - 1
  /\ UNCHANGED <<xldrVars, fifo, msbf, active, stale, pc, taken, last_word, result, downloads>>

\* ... or give up.  After a failed write the core does not call
\* write_complete, so nothing is written to CSR.EXIT.
GiveUpWrite ==
  /\ pc = "write"
  /\ taken < ImageLen
  /\ last_word # <<>>
  /\ FifoFull
  /\ try = 0
  /\ result' = "EBUSY"
  /\ pc' = "idle"
  /\ UNCHANGED <<xldrVars, fifo, msbf, active, stale, taken, last_word, try, downloads>>

\* Fault: the last word is written like the others.
LastUnmarked ==
  /\ pc = "complete"
  /\ WriteWord(FALSE)
  /\ last_word' = <<>>
  /\ pc' = "poll"
  /\ UNCHANGED <<xldrVars, msbf, active, stale, taken, result, downloads>>

\* svec_fpga_write_stop: the last word, marked as such.
WriteLast ==
  /\ pc = "complete"
  /\ WriteWord(TRUE)
  /\ last_word' = <<>>
  /\ pc' = "poll"
  /\ UNCHANGED <<xldrVars, msbf, active, stale, taken, result, downloads>>

GiveUpLast ==
  /\ pc = "complete"
  /\ last_word # <<>>
  /\ FifoFull
  /\ try = 0
  /\ result' = "EBUSY"
  /\ pc' = "exit"
  /\ UNCHANGED <<xldrVars, fifo, msbf, active, stale, taken, last_word, try, downloads>>

\* Fault: CSR.ERROR is not looked at.
DoneIsSuccess ==
  /\ pc = "poll"
  /\ csr_done
  /\ result' = "ok"
  /\ pc' = "exit"
  /\ UNCHANGED <<xldrVars, fifo, msbf, active, stale, taken, last_word, try, downloads>>

\* CSR.DONE was read ...
PollDone ==
  /\ pc = "poll"
  /\ csr_done
  /\ result' = IF csr_error THEN "EINVAL" ELSE "ok"
  /\ pc' = "exit"
  /\ UNCHANGED <<xldrVars, fifo, msbf, active, stale, taken, last_word, try, downloads>>

\* ... or the time is over.  CSR may have been read a while ago, or never.
PollTimeout ==
  /\ pc = "poll"
  /\ result' = "EIO"
  /\ pc' = "exit"
  /\ UNCHANGED <<xldrVars, fifo, msbf, active, stale, taken, last_word, try, downloads>>

\* CSR.EXIT, on success and on error alike; the write clears CSR.MSBF.
WriteExit ==
  /\ pc = "exit"
  /\ StartupPulse
  /\ msbf' = FALSE
  /\ active' = FALSE
  /\ pc' = "idle"
  /\ UNCHANGED <<fifo, stale, taken, last_word, try, result, downloads>>

BeginDownload == WriteInit \/ WriteInitUnavailable

ContinueDownload ==
  \/ WriteSwrst
  \/ WriteStart
  \/ WriteBuf
  \/ EndOfImage
  \/ PollFull
  \/ GiveUpWrite
  \/ WriteLast
  \/ GiveUpLast
  \/ PollDone
  \/ PollTimeout
  \/ WriteExit

-----------------------------------------------------------------------------
(* The hardware.                                                           *)

\* The loader takes the word at the head of the FIFO.
FetchWord ==
  /\ fifo # <<>>
  /\ Fetch(IF msbf THEN Head(fifo).bytes ELSE Swapped(Head(fifo).bytes),
           Head(fifo).last)
  /\ fifo' = Tail(fifo)
  /\ UNCHANGED <<driverVars, msbf, active, stale>>

\* In IDLE it drops the words.
DropWord ==
  /\ fifo # <<>>
  /\ Drop
  /\ fifo' = Tail(fifo)
  /\ UNCHANGED <<driverVars, msbf, active, stale>>

LoaderStep ==
  /\ Internal \/ AfpgaReady
  /\ UNCHANGED <<driverVars, fifo, msbf, active, stale>>

AfpgaConfigured ==
  /\ AfpgaDone
  /\ UNCHANGED <<driverVars, fifo, msbf, active, stale>>

Hardware ==
  \/ FetchWord
  \/ DropWord
  \/ LoaderStep
  \/ AfpgaConfigured

Next == BeginDownload \/ ContinueDownload \/ Hardware

Spec == Init /\ [][Next]_vars

\* The driver's loops are bounded and its thread is scheduled, the hardware
\* is clocked: each goes on as long as it can.  Nothing makes a user start a
\* download, nor an AFPGA accept a bitstream.
Fairness ==
  /\ WF_vars(ContinueDownload)
  /\ WF_vars(FetchWord)
  /\ WF_vars(DropWord)
  /\ WF_vars(LoaderStep)

FairSpec == Spec /\ Fairness

-----------------------------------------------------------------------------
(* Properties.                                                             *)

\* Between START and EXIT no byte of the image is lost, duplicated, swapped
\* or sent ahead of another on its way through the word the driver holds
\* back, the FIFO and the shift register, whatever the chunks are and however
\* often the FIFO fills up: what the AFPGA has, and what is still under way,
\* is what the driver took from the chunks -- after the words that an earlier
\* download left in the FIFO, if the loader had not dropped them by START.
NothingLost ==
  (/\ pc \in {"write", "complete", "poll"}
   /\ state \notin {"IDLE", "GOT_DONE", "STARTUP"}
   /\ ~Done)
  => received \o (IF state = "SHIFT" THEN d_data ELSE <<>>)
       \o BytesOf(fifo) \o last_word
     = stale \o SubSeq(Image, 1, taken)

\* When the driver has written everything, the loader is not waiting for one
\* more word: the last word of the image, and of no other length than it has,
\* carried the XLAST mark.
LastWordMarked ==
  (pc \in {"poll", "exit"} /\ result # "EBUSY" /\ fifo = <<>>) => state # "READ_FIFO"

\* No word before the last one of the image is marked: the loader does not
\* stop to wait for DONE while the driver still has bytes to write, unless an
\* earlier download left a mark in the FIFO.
MarkedAtTheEnd ==
  (pc \in {"write", "complete"} /\ stale = <<>>)
  => state # "WAIT_DONE"

\* The driver reports success only of an AFPGA whose DONE is high: the flag it
\* read was not left over from an earlier download.
SuccessMeansConfigured == result = "ok" => Done

\* While the bootloader has the VME bus -- from the trigger to the write to
\* EXIT, which is more than one download if the first is given up -- the AFPGA
\* does not run, whatever an earlier download left the loader doing.
HeldUntilExit == (pc # "idle" \/ active) => afpga # "running"

\* Every download ends: no state of the hardware makes the driver wait for
\* ever (the flags are never set if the AFPGA is missing, a full FIFO is never
\* emptied in GOT_DONE).
DriverReturns == (pc # "idle") ~> (pc = "idle")

\* An AFPGA that was configured when the host wrote EXIT gets its startup
\* clocks and runs, unless a new download clears it.
ExitStartsAfpga ==
  (pc = "exit" /\ state = "GOT_DONE") ~> (afpga = "running" \/ pc = "swrst")

\* What the comment on STARTUP_CCLK0 says of a download the driver reported as
\* successful (xilinx_loader.vhd:277-281): after EXIT the loader pulses CCLK
\* and the AFPGA starts.
SuccessStartsAfpga ==
  (pc = "idle" /\ result = "ok") ~> (afpga = "running" \/ pc = "swrst")

-----------------------------------------------------------------------------
\* The strengthening that makes SuccessMeansConfigured and HeldUntilExit
\* inductive.  From START on, what the loader says of DONE is true of the
\* AFPGA that this download cleared ...
FlagsAreFresh ==
  pc \in {"write", "complete", "poll", "exit"} =>
    /\ (csr_done /\ ~csr_error) => Done
    /\ state = "GOT_DONE" => Done

\* ... success is decided after that ...
SuccessIsFresh ==
  result = "ok" => pc \in {"exit", "idle"} /\ Done

\* ... the startup clocks are given between downloads only, to a card that is no
\* bootloader, or to an AFPGA that has just been cleared and gets nothing before
\* SWRST ...
StartupBetweenDownloads ==
  /\ pc # "idle" => active
  /\ active => afpga # "running"
  /\ state = "STARTUP" => ~active \/ pc = "swrst"
  /\ (state = "STARTUP" /\ pc = "swrst") =>
       received = <<>> /\ afpga \notin {"done", "running"}

\* ... and an AFPGA that is missing raises nothing.
MissingIsSilent == ~alive => afpga = "ready"

FlagsInv ==
  /\ FlagsAreFresh
  /\ SuccessIsFresh
  /\ StartupBetweenDownloads
  /\ MissingIsSilent

-----------------------------------------------------------------------------
\* The refinement mapping: the loader, the FIFO and the words are hidden.
AfpgaBar ==
  CASE afpga \in {"clearing", "ready"} -> "blank"
    [] afpga = "done" -> "configured"
    [] afpga = "running" -> "running"

Load == INSTANCE AfpgaLoad WITH
          Failures <- Result \ {"none", "ok"},
          busy <- (pc # "idle"),
          cleared <- (pc \notin {"swrst", "start"}),
          outcome <- result,
          fpga <- AfpgaBar

\* Every step of a download is a step of AfpgaLoad, or hidden from it.
ImplementsAfpgaLoad == Load!Spec
=============================================================================
