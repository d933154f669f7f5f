--------------------------- MODULE DownloadProofs ---------------------------
(***************************************************************************)
(* Proofs about Download for every image, every division into chunks,      *)
(* every length of a word, depth of the FIFO and number of downloads.      *)
(***************************************************************************)
EXTENDS Download, FlattenProofs

Bytes == Seq(Int) \ {<<>>}
Word == [bytes : Bytes, last : BOOLEAN]

\* No word is empty, in the FIFO or in the shift register, and the driver holds
\* one back from its first iteration on.
NeverEmpty ==
  /\ fifo \in Seq(Word)
  /\ state = "SHIFT" => d_data # <<>>
  /\ pc \in {"swrst", "start"} => last_word = <<>> /\ taken = 0
  /\ (pc \in {"write", "complete"} /\ taken > 0) => last_word # <<>>
  /\ pc = "complete" => taken = ImageLen

\* TypeOK in three parts, the loader's, the driver's and that of the words, with
\* what it needs to be inductive.
LoaderTypeOK ==
  /\ state \in LoaderState
  /\ csr_done \in BOOLEAN
  /\ csr_error \in BOOLEAN
  /\ d_last \in BOOLEAN
  /\ afpga \in AfpgaState
  /\ alive \in BOOLEAN
  /\ msbf \in BOOLEAN
  /\ active \in BOOLEAN

DriverTypeOK ==
  /\ pc \in Pc
  /\ taken \in 0 .. ImageLen
  /\ try \in 0 .. Tries
  /\ result \in Result
  /\ downloads \in 0 .. Downloads

WordsTypeOK ==
  /\ d_data \in Seq(Int)
  /\ received \in Seq(Int)
  /\ stale \in Seq(Int)
  /\ last_word \in Seq(1 .. ImageLen)
  /\ Len(fifo) <= FifoDepth

TypeInv == LoaderTypeOK /\ DriverTypeOK /\ WordsTypeOK /\ NeverEmpty

LEMMA TypeInvImplies == TypeInv => TypeOK
  <1> SUFFICES ASSUME TypeInv PROVE TypeOK
    OBVIOUS
  <1>1. fifo \in Seq([bytes : Seq(Int), last : BOOLEAN])
    <2>1. Word \subseteq [bytes : Seq(Int), last : BOOLEAN]
      BY DEF Word, Bytes
    <2>2. QED
      BY <2>1, SeqMonotonic DEF TypeInv, NeverEmpty
  <1>2. QED
    BY <1>1 DEF TypeInv, LoaderTypeOK, DriverTypeOK, WordsTypeOK, TypeOK, XldrTypeOK

LEMMA InitTypes == Init => TypeInv
  <1> SUFFICES ASSUME Init PROVE TypeInv
    OBVIOUS
  <1> USE DownloadAssumption DEF DownloadAssumption, Init, XldrInit
  <1>1. LoaderTypeOK
    BY DEF LoaderTypeOK, LoaderState, AfpgaState
  <1>2. DriverTypeOK
    BY DEF DriverTypeOK, Pc, Result
  <1>3. WordsTypeOK
    BY EmptySeq DEF WordsTypeOK
  <1>4. NeverEmpty
    BY EmptySeq DEF NeverEmpty
  <1>5. QED
    BY <1>1, <1>2, <1>3, <1>4 DEF TypeInv

-----------------------------------------------------------------------------
(* Words.                                                                  *)

LEMMA MinIsLeast ==
  ASSUME NEW T \in SUBSET Nat, T # {}
  PROVE  Min(T) \in T /\ \A k \in T : Min(T) <= k
  BY LeastElement DEF Min

LEMMA EmptyLen ==
  ASSUME NEW S, NEW s \in Seq(S)
  PROVE  Len(s) \in Nat /\ (s # <<>> <=> Len(s) > 0)
  BY EmptySeq

\* The next word has at least one byte, all of them of the image, and does not
\* run over its end.
LEMMA WordAfterNext ==
  ASSUME NEW n \in 0 .. ImageLen, n < ImageLen
  PROVE  /\ WordAfter(n) \in Seq(1 .. ImageLen)
         /\ WordAfter(n) # <<>>
         /\ n + Len(WordAfter(n)) \in 1 .. ImageLen
         /\ WordAfter(n) = SubSeq(Image, n + 1, n + Len(WordAfter(n)))
  <1> DEFINE ends == {e \in ChunkEnds : e > n}
             end == Min(ends)
             stop == Min({n + WordLen, end})
  <1>1. n \in Nat /\ ImageLen \in Nat /\ WordLen \in Nat \ {0}
    BY DownloadAssumption DEF DownloadAssumption
  <1>2. end \in n + 1 .. ImageLen
    <2>1. ends \subseteq n + 1 .. ImageLen /\ ImageLen \in ends
      <3> HIDE DEF end, stop
      <3>1. \A e \in ChunkEnds : e \in Nat /\ e <= ImageLen
        BY <1>1, DownloadAssumption DEF DownloadAssumption
      <3>2. \A e \in ChunkEnds : e > n => e \in n + 1 .. ImageLen
        BY <1>1, <3>1
      <3>3. ImageLen \in ChunkEnds /\ ImageLen > n
        BY <1>1, DownloadAssumption DEF DownloadAssumption
      <3>4. QED
        BY <3>2, <3>3
    <2> HIDE DEF ends
    <2>2. ends \in SUBSET Nat /\ ends # {}
      BY <1>1, <2>1
    <2>3. Min(ends) \in ends
      BY <2>2, MinIsLeast
    <2>4. QED
      BY <2>1, <2>3
  <1> HIDE DEF end
  <1>3. stop \in {n + WordLen, end} /\ stop <= end
    <2> DEFINE T == {n + WordLen, end}
    <2>1. T \in SUBSET Nat /\ T # {} /\ end \in T
      BY <1>1, <1>2
    <2> HIDE DEF T
    <2>2. Min(T) \in T /\ \A k \in T : Min(T) <= k
      BY <2>1, MinIsLeast
    <2>3. QED
      BY <2>1, <2>2 DEF T
  <1> HIDE DEF stop
  <1>4. stop \in n + 1 .. ImageLen /\ stop \in Nat
    BY <1>1, <1>2, <1>3
  <1>5. WordAfter(n) = SubSeq(Image, n + 1, stop)
    BY DEF WordAfter, end, stop
  <1>6. \A i \in n + 1 .. stop : Image[i] \in 1 .. ImageLen
    BY <1>1, <1>4 DEF Image
  <1>7. n + 1 \in Int /\ stop \in Int
    BY <1>1, <1>4
  <1>8. /\ WordAfter(n) \in Seq(1 .. ImageLen)
        /\ Len(WordAfter(n)) = IF n + 1 <= stop THEN stop - (n + 1) + 1 ELSE 0
    BY <1>5, <1>6, <1>7, SubSeqProperties
  <1>9. Len(WordAfter(n)) = stop - n /\ n + Len(WordAfter(n)) = stop
    BY <1>1, <1>4, <1>8
  <1>10. WordAfter(n) # <<>>
    BY <1>1, <1>4, <1>8, <1>9, EmptyLen
  <1>11. n + Len(WordAfter(n)) \in 1 .. ImageLen
    BY <1>1, <1>4, <1>9
  <1>12. QED
    BY <1>5, <1>8, <1>9, <1>10, <1>11

\* Swapping the bytes of a word changes neither how many there are nor that
\* they are bytes.
LEMMA SwappedType ==
  ASSUME NEW bytes \in Bytes
  PROVE  Swapped(bytes) \in Bytes
  <1> DEFINE n == Len(bytes)
             pad == [i \in 1 .. WordLen - n |-> 0]
             padded == bytes \o pad
  <1>1. bytes \in Seq(Int) /\ n \in Nat /\ n > 0 /\ WordLen \in Nat
    BY EmptyLen, DownloadAssumption DEF Bytes, DownloadAssumption
  <1> HIDE DEF n
  <1>2. pad \in Seq(Int)
    <2>1. CASE n <= WordLen
      BY <1>1, <2>1
    <2>2. CASE n > WordLen
      <3>1. 1 .. WordLen - n = {} /\ pad = <<>>
        BY <1>1, <2>2
      <3>2. QED
        BY <3>1, EmptySeq
    <2> HIDE DEF pad
    <2>3. QED
      BY <1>1, <2>1, <2>2
  <1> HIDE DEF pad
  <1>3. padded \in Seq(Int) /\ Len(padded) \in Nat /\ n <= Len(padded)
    <2>1. padded \in Seq(Int) /\ Len(padded) = Len(bytes) + Len(pad)
      BY <1>1, <1>2, ConcatProperties
    <2>2. Len(pad) \in Nat
      BY <1>2, EmptyLen
    <2>3. QED
      BY <1>1, <2>1, <2>2 DEF n
  <1> HIDE DEF padded
  <1>4. \A i \in 1 .. n : Reverse(padded)[i] \in Int
    <2>1. ASSUME NEW i \in 1 .. n
          PROVE  i \in 1 .. Len(padded) /\ (Len(padded) - i) + 1 \in 1 .. Len(padded)
      BY <1>1, <1>3
    <2>2. QED
      BY <1>3, <2>1, ElementOfSeq DEF Reverse
  <1> DEFINE s == SubSeq(Reverse(padded), 1, n)
  <1>5. s \in Seq(Int) /\ Len(s) = IF 1 <= n THEN n - 1 + 1 ELSE 0
    BY <1>1, <1>4, SubSeqProperties
  <1>6. Swapped(bytes) = s
    BY DEF Swapped, padded, pad, n
  <1> HIDE DEF s
  <1>7. s # <<>>
    BY <1>1, <1>5, EmptyLen
  <1>8. QED
    BY <1>5, <1>6, <1>7 DEF Bytes

\* What the FIFO's bytes are when a word is put in, taken out, or none is left.
LEMMA BytesOfEmpty == BytesOf(<<>>) = <<>>
  <1>1. [i \in DOMAIN <<>> |-> <<>>[i].bytes] = <<>>
    OBVIOUS
  <1>2. QED
    BY <1>1, FlattenEmpty DEF BytesOf

LEMMA FieldsType ==
  ASSUME NEW words \in Seq(Word)
  PROVE  [i \in DOMAIN words |-> words[i].bytes] \in Seq(Seq(Int))
  <1>1. \A i \in 1 .. Len(words) : words[i].bytes \in Seq(Int)
    <2>1. \A i \in 1 .. Len(words) : words[i] \in Word
      BY ElementOfSeq
    <2>2. \A word \in Word : word.bytes \in Seq(Int)
      BY DEF Word, Bytes
    <2>3. QED
      BY <2>1, <2>2
  <1>2. DOMAIN words = 1 .. Len(words) /\ Len(words) \in Nat
    BY LenProperties
  <1>3. QED
    BY <1>1, <1>2

LEMMA BytesOfType ==
  ASSUME NEW words \in Seq(Word)
  PROVE  BytesOf(words) \in Seq(Int)
  BY FieldsType, FlattenType DEF BytesOf

LEMMA BytesOfAppend ==
  ASSUME NEW words \in Seq(Word), NEW word \in Word
  PROVE  BytesOf(Append(words, word)) = BytesOf(words) \o word.bytes
  <1> DEFINE more == Append(words, word)
             old == [i \in DOMAIN words |-> words[i].bytes]
             new == [i \in DOMAIN more |-> more[i].bytes]
  <1>1. old \in Seq(Seq(Int)) /\ word.bytes \in Seq(Int)
    BY FieldsType DEF Word, Bytes
  <1>2. new = Append(old, word.bytes)
    <2>1. /\ more \in Seq(Word) /\ Len(more) = Len(words) + 1
          /\ \A i \in 1 .. Len(words) : more[i] = words[i]
          /\ more[Len(words) + 1] = word
      BY AppendProperties
    <2>2. Len(words) \in Nat /\ DOMAIN words = 1 .. Len(words)
          /\ DOMAIN more = 1 .. Len(words) + 1
      BY <2>1, LenProperties
    <2> HIDE DEF more
    <2>3. new \in Seq(Seq(Int))
      BY <2>1, FieldsType
    <2>4. Len(new) = Len(words) + 1 /\ Len(old) = Len(words)
      BY <2>2
    <2>5. \A i \in 1 .. Len(words) : new[i] = old[i]
      BY <2>1, <2>2
    <2>6. new[Len(words) + 1] = word.bytes
      BY <2>1, <2>2
    <2> HIDE DEF old, new
    <2>7. /\ Append(old, word.bytes) \in Seq(Seq(Int))
          /\ Len(Append(old, word.bytes)) = Len(words) + 1
          /\ \A i \in 1 .. Len(words) : Append(old, word.bytes)[i] = old[i]
          /\ Append(old, word.bytes)[Len(words) + 1] = word.bytes
      BY <1>1, <2>4, AppendProperties
    <2>8. \A i \in 1 .. Len(new) : new[i] = Append(old, word.bytes)[i]
      BY <2>2, <2>4, <2>5, <2>6, <2>7
    <2>9. QED
      BY <2>3, <2>4, <2>7, <2>8, SeqEqual
  <1> HIDE DEF old, new
  <1>3. FlattenSeq(new) = FlattenSeq(old) \o word.bytes
    BY <1>1, <1>2, FlattenAppend
  <1>4. QED
    BY <1>3 DEF BytesOf, old, new

LEMMA BytesOfTail ==
  ASSUME NEW words \in Seq(Word), words # <<>>
  PROVE  BytesOf(words) = Head(words).bytes \o BytesOf(Tail(words))
  <1> DEFINE rest == Tail(words)
             all == [i \in DOMAIN words |-> words[i].bytes]
             some == [i \in DOMAIN rest |-> rest[i].bytes]
             n == Len(rest)
  <1>1. /\ rest \in Seq(Word) /\ Head(words) = words[1] /\ Len(words) = n + 1 /\ n \in Nat
        /\ \A i \in 1 .. n : rest[i] = words[i + 1]
    BY HeadTailProperties, LenProperties
  <1>2. DOMAIN words = 1 .. n + 1 /\ DOMAIN rest = 1 .. n
    BY <1>1, LenProperties
  <1> HIDE DEF rest, n
  <1>3. all \in Seq(Seq(Int)) /\ some \in Seq(Seq(Int))
    BY <1>1, FieldsType
  <1>4. Len(all) = n + 1 /\ Len(some) = n
    BY <1>1, <1>2
  <1>5. \A i \in 1 .. n : some[i] = all[i + 1]
    BY <1>1, <1>2
  <1>6. all[1] = Head(words).bytes
    BY <1>1, <1>2
  <1> HIDE DEF all, some
  <1>7. all # <<>>
    BY <1>1, <1>3, <1>4, EmptyLen
  <1>8. /\ Tail(all) \in Seq(Seq(Int)) /\ Len(Tail(all)) = n /\ Head(all) = all[1]
        /\ \A i \in 1 .. n : Tail(all)[i] = all[i + 1]
    BY <1>1, <1>3, <1>4, <1>7, HeadTailProperties
  <1>9. Tail(all) = some
    BY <1>3, <1>4, <1>5, <1>8, SeqEqual
  <1>10. FlattenSeq(all) = Head(all) \o FlattenSeq(Tail(all))
    BY <1>3, <1>7, FlattenTail
  <1>11. QED
    BY <1>6, <1>8, <1>9, <1>10 DEF BytesOf, all, some, rest

\* Words are not empty: where there are no bytes, there are no words.
LEMMA NoBytesNoWords ==
  ASSUME NEW words \in Seq(Word), BytesOf(words) = <<>>
  PROVE  words = <<>>
  <1> SUFFICES ASSUME words # <<>> PROVE FALSE
    OBVIOUS
  <1>1. Head(words) \in Word /\ Tail(words) \in Seq(Word)
    BY HeadTailProperties
  <1>2. Head(words).bytes \in Seq(Int) /\ Head(words).bytes # <<>>
    BY <1>1 DEF Word, Bytes
  <1>3. BytesOf(Tail(words)) \in Seq(Int)
    BY <1>1, BytesOfType
  <1>4. Head(words).bytes \o BytesOf(Tail(words)) = <<>>
    BY BytesOfTail
  <1>5. QED
    BY <1>2, <1>3, <1>4, ConcatEqualIffEmpty

-----------------------------------------------------------------------------
(* Types.                                                                  *)

\* A byte goes out of a word that has one; the word is over after its last.
LEMMA ShiftResult ==
  ASSUME TypeInv, ShiftByte
  PROVE  /\ d_data \in Seq(Int) /\ d_data # <<>> /\ Head(d_data) \in Int
         /\ d_data' = Tail(d_data) /\ d_data' \in Seq(Int)
         /\ received' \in Seq(Int)
         /\ \/ state' = "SHIFT" /\ d_data' # <<>>
            \/ state' = (IF d_last THEN "WAIT_DONE" ELSE "READ_FIFO") /\ d_data' = <<>>
  <1>1. /\ d_data \in Seq(Int) /\ d_data # <<>> /\ received \in Seq(Int)
        /\ d_data' = Tail(d_data)
    BY DEF TypeInv, WordsTypeOK, NeverEmpty, ShiftByte
  <1>2. /\ Head(d_data) \in Int /\ d_data' \in Seq(Int)
        /\ Len(d_data') = Len(d_data) - 1
    BY <1>1, HeadTailProperties
  <1>3. Len(d_data) \in Nat /\ Len(d_data) > 0
    BY <1>1, EmptyLen
  <1>4. received' \in Seq(Int)
    <2>1. Append(received, Head(d_data)) \in Seq(Int)
      BY <1>1, <1>2, AppendProperties
    <2>2. QED
      BY <1>1, <2>1 DEF ShiftByte
  <1>5. CASE Len(d_data) > 1
    <2>1. d_data' # <<>>
      BY <1>2, <1>3, <1>5, EmptyLen
    <2>2. PICK n \in Nat : n = Len(d_data) /\ n > 1
      BY <1>3, <1>5
    <2>3. state' = CASE n > 1 -> "SHIFT"
                     [] n = 1 -> IF d_last THEN "WAIT_DONE" ELSE "READ_FIFO"
      BY <2>2 DEF ShiftByte
    <2>4. state' = "SHIFT"
      BY <2>2, <2>3
    <2>5. QED
      BY <1>1, <1>2, <1>4, <2>1, <2>4
  <1>6. CASE Len(d_data) = 1
    <2>1. d_data' = <<>>
      BY <1>2, <1>6, EmptyLen
    <2>2. state' = IF d_last THEN "WAIT_DONE" ELSE "READ_FIFO"
      BY <1>6 DEF ShiftByte
    <2>3. QED
      BY <1>1, <1>2, <1>4, <2>1, <2>2
  <1>7. Len(d_data) > 1 \/ Len(d_data) = 1
    <2>1. PICK n \in Nat : n = Len(d_data) /\ n > 0
      BY <1>3
    <2>2. n > 1 \/ n = 1
      BY <2>1
    <2>3. QED
      BY <2>1, <2>2
  <1>8. QED
    BY <1>5, <1>6, <1>7

\* The word that the loader takes.
LEMMA FetchResult ==
  ASSUME TypeInv, FetchWord
  PROVE  /\ Head(fifo) \in Word
         /\ d_data' \in Bytes
         /\ d_data' = IF msbf THEN Head(fifo).bytes ELSE Swapped(Head(fifo).bytes)
         /\ d_last' \in BOOLEAN /\ d_last' = Head(fifo).last
         /\ state = "READ_FIFO" /\ state' = "SHIFT"
  <1>1. fifo \in Seq(Word) /\ fifo # <<>>
    BY DEF TypeInv, NeverEmpty, FetchWord
  <1>2. Head(fifo) \in Word
    BY <1>1, HeadTailProperties
  <1>3. Head(fifo).bytes \in Bytes /\ Head(fifo).last \in BOOLEAN
    BY <1>2 DEF Word
  <1>4. QED
    BY <1>2, <1>3, SwappedType DEF FetchWord, Fetch

LEMMA TakenWord ==
  ASSUME TypeInv, FetchWord \/ DropWord
  PROVE  fifo' = Tail(fifo) /\ fifo' \in Seq(Word) /\ Len(fifo') <= FifoDepth
         /\ Len(fifo') = Len(fifo) - 1 /\ Len(fifo) \in Nat
         /\ \A i \in 1 .. Len(fifo') : fifo'[i] = fifo[i + 1]
  <1>1. fifo \in Seq(Word) /\ fifo # <<>> /\ fifo' = Tail(fifo) /\ Len(fifo) <= FifoDepth
    BY DEF TypeInv, NeverEmpty, WordsTypeOK, FetchWord, DropWord
  <1>2. /\ fifo' \in Seq(Word) /\ Len(fifo') = Len(fifo) - 1
        /\ \A i \in 1 .. Len(fifo') : fifo'[i] = fifo[i + 1]
    BY <1>1, HeadTailProperties
  <1>3. Len(fifo) \in Nat
    BY <1>1, EmptyLen
  <1>4. QED
    BY <1>1, <1>2, <1>3, DownloadAssumption DEF DownloadAssumption

\* The driver writes the word it holds back, if there is one.
LEMMA WrittenWord ==
  ASSUME TypeInv, NEW is_last \in BOOLEAN, WriteWord(is_last)
  PROVE  /\ fifo' \in Seq(Word) /\ Len(fifo') <= FifoDepth
         /\ IF last_word = <<>> THEN fifo' = fifo
            ELSE /\ [bytes |-> last_word, last |-> is_last] \in Word
                 /\ fifo' = Append(fifo, [bytes |-> last_word, last |-> is_last])
                 /\ fifo' # <<>> /\ fifo'[Len(fifo')].last = is_last
                 /\ Len(fifo') = Len(fifo) + 1
                 /\ \A i \in 1 .. Len(fifo) : fifo'[i] = fifo[i]
  <1> DEFINE word == [bytes |-> last_word, last |-> is_last]
  <1>1. fifo \in Seq(Word) /\ last_word \in Seq(1 .. ImageLen) /\ Len(fifo) <= FifoDepth
    BY DEF TypeInv, NeverEmpty, WordsTypeOK
  <1>2. CASE last_word = <<>>
    BY <1>1, <1>2 DEF WriteWord
  <1>3. CASE last_word # <<>>
    <2>1. 1 .. ImageLen \subseteq Int
      OBVIOUS
    <2>2. last_word \in Seq(Int)
      BY <1>1, <2>1, SeqMonotonic
    <2>3. word \in Word /\ word.last = is_last
      BY <1>3, <2>2 DEF Word, Bytes
    <2>4. fifo' = Append(fifo, word) /\ Len(fifo) # FifoDepth
      BY <1>3 DEF WriteWord, FifoFull
    <2> HIDE DEF word
    <2>5. /\ fifo' \in Seq(Word) /\ fifo' # <<>> /\ Len(fifo') = Len(fifo) + 1
          /\ \A i \in 1 .. Len(fifo) : fifo'[i] = fifo[i]
          /\ fifo'[Len(fifo) + 1] = word
      BY <1>1, <2>3, <2>4, AppendProperties
    <2>6. Len(fifo') <= FifoDepth
      <3>1. Len(fifo) \in Nat /\ FifoDepth \in Nat
        BY <1>1, EmptyLen, DownloadAssumption DEF DownloadAssumption
      <3>2. QED
        BY <1>1, <2>4, <2>5, <3>1
    <2>7. fifo'[Len(fifo')].last = is_last
      BY <2>3, <2>5
    <2>8. QED
      BY <1>3, <2>3, <2>4, <2>5, <2>6, <2>7 DEF word
  <1>4. QED
    BY <1>2, <1>3

LEMMA LoaderTypeStep == ASSUME TypeInv, [Next]_vars PROVE LoaderTypeOK'
  <1> USE DEF xldrVars, loaderVars, afpgaVars, driverVars, LoaderTypeOK, LoaderState, AfpgaState
  <1>1. LoaderTypeOK
    BY DEF TypeInv
  <1>2. CASE UNCHANGED vars
    BY <1>1, <1>2 DEF vars
  <1>3. CASE BeginDownload
    <2>1. CASE WriteInit
      <3>1. /\ UNCHANGED <<loaderVars, alive, msbf>> /\ active' = TRUE
            /\ afpga' \in {afpga, "clearing"}
        BY <2>1 DEF WriteInit, Trigger, MissedTrigger, ClearAfpga
      <3>2. QED
        BY <1>1, <3>1
    <2>2. CASE WriteInitUnavailable
      BY <1>1, <2>2 DEF WriteInitUnavailable
    <2>3. QED
      BY <1>3, <2>1, <2>2 DEF BeginDownload
  <1>4. CASE ContinueDownload
    <2>1. CASE WriteSwrst
      BY <1>1, <2>1 DEF WriteSwrst, Swrst
    <2>2. CASE WriteStart
      BY <1>1, <2>2 DEF WriteStart, Start, ClearAfpga
    <2>3. CASE WriteExit
      BY <1>1, <2>3 DEF WriteExit, StartupPulse
    <2>4. CASE ~(WriteSwrst \/ WriteStart \/ WriteExit)
      BY <1>1, <1>4, <2>4 DEF ContinueDownload, WriteBuf, EndOfImage, PollFull, GiveUpWrite,
         WriteLast, GiveUpLast, PollDone, PollTimeout
    <2>5. QED
      BY <2>1, <2>2, <2>3, <2>4
  <1>5. CASE FetchWord
    BY <1>1, <1>5, FetchResult DEF FetchWord, Fetch
  <1>6. CASE DropWord
    BY <1>1, <1>6 DEF DropWord, Drop
  <1>7. CASE LoaderStep /\ ~ShiftByte
    BY <1>1, <1>7 DEF LoaderStep, Internal, ProgExtended, InitSeen, InitTimeout, InitReleased,
       DoneWhileShifting, FlagDone, DoneAfterLast, DoneTimeout, StartupEnd, AfpgaReady
  <1>8. CASE LoaderStep /\ ShiftByte
    BY <1>1, <1>8, ShiftResult DEF LoaderStep, ShiftByte
  <1>9. CASE AfpgaConfigured
    BY <1>1, <1>9 DEF AfpgaConfigured, AfpgaDone
  <1>10. QED
    BY <1>2, <1>3, <1>4, <1>5, <1>6, <1>7, <1>8, <1>9 DEF Next, Hardware

LEMMA DriverTypeStep == ASSUME TypeInv, [Next]_vars PROVE DriverTypeOK'
  <1> USE DownloadAssumption DEF DownloadAssumption, driverVars, DriverTypeOK, Pc, Result
  <1>1. DriverTypeOK
    BY DEF TypeInv
  <1>2. CASE UNCHANGED vars \/ Hardware
    BY <1>1, <1>2 DEF vars, Hardware, FetchWord, DropWord, LoaderStep, AfpgaConfigured
  <1>3. CASE BeginDownload
    BY <1>1, <1>3 DEF BeginDownload, WriteInit, WriteInitUnavailable
  <1>4. CASE WriteBuf
    <2>1. taken < ImageLen
      BY <1>4 DEF WriteBuf
    <2>2. taken' \in 1 .. ImageLen
      BY <1>1, <1>4, <2>1, WordAfterNext DEF WriteBuf
    <2>3. QED
      BY <1>1, <1>4, <2>2 DEF WriteBuf, WriteWord
  <1>5. CASE ContinueDownload /\ ~WriteBuf
    BY <1>1, <1>5 DEF ContinueDownload, WriteSwrst, WriteStart, EndOfImage, PollFull,
       GiveUpWrite, WriteLast, WriteWord, GiveUpLast, PollDone, PollTimeout, WriteExit
  <1>6. QED
    BY <1>2, <1>3, <1>4, <1>5 DEF Next

LEMMA WordsTypeStep == ASSUME TypeInv, [Next]_vars PROVE WordsTypeOK' /\ NeverEmpty'
  <1> USE DEF WordsTypeOK, NeverEmpty, xldrVars, loaderVars, afpgaVars, driverVars
  <1>1. WordsTypeOK /\ NeverEmpty /\ taken \in Nat
    BY DEF TypeInv, DriverTypeOK
  <1>2. CASE UNCHANGED vars
    BY <1>1, <1>2 DEF vars
  <1>3. CASE BeginDownload
    <2>1. CASE WriteInit
      <3>1. /\ UNCHANGED <<state, d_data, fifo, stale>> /\ pc' = "swrst"
            /\ last_word' = <<>> /\ taken' = 0 /\ received' \in {received, <<>>}
        BY <2>1 DEF WriteInit, Trigger, MissedTrigger, ClearAfpga
      <3>2. received' \in Seq(Int) /\ last_word' \in Seq(1 .. ImageLen)
        BY <1>1, <3>1, EmptySeq
      <3>3. QED
        BY <1>1, <3>1, <3>2
    <2>2. CASE WriteInitUnavailable
      BY <1>1, <2>2, EmptySeq DEF WriteInitUnavailable
    <2>3. QED
      BY <1>3, <2>1, <2>2 DEF BeginDownload
  <1>4. CASE WriteSwrst
    BY <1>1, <1>4 DEF WriteSwrst, Swrst
  <1>5. CASE WriteStart
    <2>1. /\ fifo' = fifo /\ last_word' = last_word /\ taken' = taken
          /\ stale' = BytesOf(fifo) /\ pc = "start" /\ pc' = "write"
          /\ received' \in {received, <<>>}
      BY <1>5 DEF WriteStart, Start, ClearAfpga
    <2>2. d_data' \in Seq(Int) /\ (state' = "SHIFT" => d_data' # <<>>)
      BY <1>1, <1>5 DEF WriteStart, Start
    <2>3. stale' \in Seq(Int) /\ received' \in Seq(Int)
      BY <1>1, <2>1, EmptySeq, BytesOfType
    <2>4. QED
      BY <1>1, <2>1, <2>2, <2>3
  <1>6. CASE WriteBuf
    <2>1. fifo' \in Seq(Word) /\ Len(fifo') <= FifoDepth
      BY <1>6, WrittenWord DEF WriteBuf
    <2>2. taken \in 0 .. ImageLen /\ taken < ImageLen
      BY <1>6 DEF WriteBuf, TypeInv, DriverTypeOK
    <2>3. last_word' \in Seq(1 .. ImageLen) /\ last_word' # <<>>
      BY <1>6, <2>2, WordAfterNext DEF WriteBuf
    <2>4. QED
      BY <1>1, <1>6, <2>1, <2>3 DEF WriteBuf
  <1>7. CASE WriteLast
    BY <1>1, <1>7, WrittenWord, EmptySeq DEF WriteLast
  <1>8. CASE ContinueDownload /\ ~(WriteSwrst \/ WriteStart \/ WriteBuf \/ WriteLast)
    BY <1>1, <1>8 DEF ContinueDownload, EndOfImage, PollFull, GiveUpWrite, GiveUpLast,
       PollDone, PollTimeout, WriteExit, StartupPulse
  <1>9. CASE FetchWord
    BY <1>1, <1>9, FetchResult, TakenWord DEF FetchWord, Fetch, Bytes
  <1>10. CASE DropWord
    BY <1>1, <1>10, TakenWord DEF DropWord, Drop
  <1>11. CASE LoaderStep /\ ~ShiftByte
    BY <1>1, <1>11 DEF LoaderStep, Internal, ProgExtended, InitSeen, InitTimeout, InitReleased,
       DoneWhileShifting, FlagDone, DoneAfterLast, DoneTimeout, StartupEnd, AfpgaReady
  <1>12. CASE LoaderStep /\ ShiftByte
    <2>1. d_data' \in Seq(Int) /\ received' \in Seq(Int) /\ (state' = "SHIFT" => d_data' # <<>>)
      BY <1>12, ShiftResult
    <2>2. /\ fifo' = fifo /\ last_word' = last_word /\ taken' = taken
          /\ stale' = stale /\ pc' = pc
      BY <1>12 DEF LoaderStep
    <2>3. QED
      BY <1>1, <2>1, <2>2
  <1>13. CASE AfpgaConfigured
    BY <1>1, <1>13 DEF AfpgaConfigured, AfpgaDone
  <1>14. QED
    BY <1>2, <1>3, <1>4, <1>5, <1>6, <1>7, <1>8, <1>9, <1>10, <1>11, <1>12, <1>13
       DEF Next, Hardware

\* Types, for every image and division into chunks: the FIFO never holds more
\* than its words, and the driver never takes more than the image has.
THEOREM TypeInvariant == Spec => []TypeInv
  <1>1. TypeInv /\ [Next]_vars => TypeInv'
    BY LoaderTypeStep, DriverTypeStep, WordsTypeStep DEF TypeInv
  <1>2. QED
    BY InitTypes, <1>1, PTL DEF Spec

THEOREM TypeCorrect == Spec => []TypeOK
  BY TypeInvariant, TypeInvImplies, PTL

-----------------------------------------------------------------------------
(* What the driver believes.                                               *)

\* FlagsInv, and where a download stands: the loader waits in IDLE for START,
\* and there is a result from EXIT on only.
ControlInv ==
  /\ FlagsInv
  /\ pc = "start" => state = "IDLE"
  /\ pc \in {"swrst", "start", "write", "complete", "poll"} => result = "none"
  /\ pc = "exit" => result # "none"

LEMMA InitControl == Init => ControlInv
  BY DEF Init, XldrInit, ControlInv, FlagsInv, FlagsAreFresh, SuccessIsFresh,
     StartupBetweenDownloads, MissingIsSilent, Done

LEMMA ControlStep == ASSUME TypeInv, ControlInv, [Next]_vars PROVE ControlInv'
  <1> USE DEF xldrVars, loaderVars, afpgaVars, driverVars, ControlInv, FlagsInv,
       FlagsAreFresh, SuccessIsFresh, StartupBetweenDownloads, MissingIsSilent, Done
  <1>1. ControlInv
    OBVIOUS
  <1>2. LoaderTypeOK /\ pc \in Pc
    BY DEF TypeInv, DriverTypeOK
  <1>3. CASE UNCHANGED vars
    BY <1>1, <1>3 DEF vars
  <1>4. CASE BeginDownload
    <2>1. CASE WriteInit
      <3>1. /\ UNCHANGED <<state, csr_done, csr_error, alive>> /\ active' = TRUE
            /\ pc = "idle" /\ pc' = "swrst" /\ result' = "none"
        BY <2>1 DEF WriteInit
      <3>2. (~alive => afpga' = "ready") /\ afpga' # "running"
            /\ (state' = "STARTUP" => received' = <<>> /\ afpga' \notin {"done", "running"})
        <4>1. CASE Trigger
          BY <1>1, <4>1 DEF Trigger, ClearAfpga
        <4>2. CASE MissedTrigger
          <5>1. active /\ UNCHANGED <<afpga, received>>
            BY <2>1, <4>2 DEF WriteInit, MissedTrigger
          <5>2. state # "STARTUP"
            BY <1>1, <3>1, <5>1
          <5>3. QED
            BY <1>1, <3>1, <5>1, <5>2
        <4>3. QED
          BY <2>1, <4>1, <4>2 DEF WriteInit
      <3>3. QED
        BY <1>1, <3>1, <3>2
    <2>2. CASE WriteInitUnavailable
      BY <1>1, <2>2 DEF WriteInitUnavailable
    <2>3. QED
      BY <1>4, <2>1, <2>2 DEF BeginDownload
  <1>5. CASE ContinueDownload
    <2>1. CASE WriteSwrst
      BY <1>1, <2>1 DEF WriteSwrst, Swrst
    <2>2. CASE WriteStart
      <3>1. /\ state = "IDLE" /\ state' = "EXTEND_PROG" /\ csr_done' = FALSE
            /\ ClearAfpga /\ alive' = alive /\ pc = "start" /\ pc' = "write"
            /\ result' = result /\ active' = active
        BY <1>1, <2>2 DEF WriteStart, Start
      <3>2. QED
        BY <1>1, <1>2, <3>1 DEF ClearAfpga, LoaderTypeOK
    <2>3. CASE WriteBuf \/ EndOfImage \/ PollFull
      <3>1. /\ UNCHANGED <<state, csr_done, csr_error, afpga, received, alive, active, result>>
            /\ pc \in {"write", "complete"} /\ pc' \in {pc, "complete"}
        BY <2>3 DEF WriteBuf, EndOfImage, PollFull
      <3>2. QED
        BY <1>1, <3>1
    <2>4. CASE GiveUpWrite
      BY <1>1, <2>4 DEF GiveUpWrite
    <2>5. CASE WriteLast \/ GiveUpLast
      <3>1. /\ UNCHANGED <<state, csr_done, csr_error, afpga, received, alive, active>>
            /\ pc = "complete"
            /\ \/ pc' = "poll" /\ result' = result
               \/ pc' = "exit" /\ result' = "EBUSY"
        BY <2>5 DEF WriteLast, GiveUpLast
      <3>2. QED
        BY <1>1, <3>1
    <2>6. CASE PollDone
      BY <1>1, <2>6 DEF PollDone
    <2>7. CASE PollTimeout
      BY <1>1, <2>7 DEF PollTimeout
    <2>8. CASE WriteExit
      BY <1>1, <2>8 DEF WriteExit, StartupPulse
    <2>9. QED
      BY <1>5, <2>1, <2>2, <2>3, <2>4, <2>5, <2>6, <2>7, <2>8 DEF ContinueDownload
  <1>6. CASE FetchWord \/ DropWord
    BY <1>1, <1>6 DEF FetchWord, Fetch, DropWord, Drop
  <1>7. CASE LoaderStep
    <2>1. pc' = pc /\ result' = result /\ active' = active
      BY <1>7 DEF LoaderStep
    <2>2. CASE ProgExtended \/ InitSeen \/ InitReleased
      BY <1>1, <2>1, <2>2 DEF ProgExtended, InitSeen, InitReleased
    <2>3. CASE InitTimeout \/ DoneTimeout
      BY <1>1, <2>1, <2>3 DEF InitTimeout, DoneTimeout
    <2>4. CASE ShiftByte
      <3>1. /\ afpga' = afpga /\ csr_done' = csr_done /\ csr_error' = csr_error
            /\ alive' = alive /\ state = "SHIFT"
        BY <2>4 DEF ShiftByte
      <3>2. state' \in {"SHIFT", "WAIT_DONE", "READ_FIFO"}
        BY <2>4, ShiftResult
      <3>3. QED
        BY <1>1, <2>1, <3>1, <3>2
    <2>5. CASE DoneWhileShifting \/ FlagDone \/ DoneAfterLast
      BY <1>1, <2>1, <2>5 DEF DoneWhileShifting, FlagDone, DoneAfterLast
    <2>6. CASE StartupEnd
      BY <1>1, <2>1, <2>6 DEF StartupEnd
    <2>7. CASE AfpgaReady
      BY <1>1, <2>1, <2>7 DEF AfpgaReady
    <2>8. QED
      BY <1>7, <2>2, <2>3, <2>4, <2>5, <2>6, <2>7 DEF LoaderStep, Internal
  <1>8. CASE AfpgaConfigured
    BY <1>1, <1>8 DEF AfpgaConfigured, AfpgaDone, Configurable
  <1>9. QED
    BY <1>3, <1>4, <1>5, <1>6, <1>7, <1>8 DEF Next, Hardware

LEMMA ControlInvariant == Spec => []ControlInv
  BY InitControl, ControlStep, TypeInvariant, PTL DEF Spec

\* The driver's notion of the loader, of the AFPGA and of the time they are in
\* is never that of an earlier download.
THEOREM FlagsCorrect == Spec => []FlagsInv
  <1>1. ControlInv => FlagsInv
    BY DEF ControlInv
  <1>2. QED
    BY <1>1, ControlInvariant, PTL

\* Success is reported of a configured AFPGA only, whatever an earlier download
\* left in the flags, in the FIFO and in the loader.
THEOREM SuccessCorrect == Spec => []SuccessMeansConfigured
  <1>1. ControlInv => SuccessMeansConfigured
    BY DEF ControlInv, FlagsInv, SuccessIsFresh, SuccessMeansConfigured
  <1>2. QED
    BY <1>1, ControlInvariant, PTL

\* The AFPGA does not run before the host has given up the VME bus.
THEOREM HeldCorrect == Spec => []HeldUntilExit
  <1>1. ControlInv => HeldUntilExit
    BY DEF ControlInv, FlagsInv, StartupBetweenDownloads, HeldUntilExit
  <1>2. QED
    BY <1>1, ControlInvariant, PTL

-----------------------------------------------------------------------------
(* The refinement.                                                         *)

LEMMA InitRefines == Init => Load!Init
  BY DEF Init, XldrInit, Load!Init, AfpgaBar

\* Every step of a download is a step of AfpgaLoad, or hidden from it.
LEMMA StepRefines ==
  ASSUME TypeInv, ControlInv, [Next]_vars
  PROVE  [Load!Next]_Load!vars
  <1> DEFINE same == UNCHANGED <<pc, result, afpga>>
             Failures == Result \ {"none", "ok"}
  <1> USE DEF Load!vars
  <1>1. LoaderTypeOK /\ pc \in Pc /\ result \in Result
    BY DEF TypeInv, DriverTypeOK
  <1>2. ASSUME same PROVE UNCHANGED Load!vars
    BY <1>2 DEF AfpgaBar
  <1>3. CASE UNCHANGED vars
    BY <1>2, <1>3 DEF vars, xldrVars, afpgaVars, driverVars
  <1>4. CASE WriteInit
    <2>1. pc = "idle" /\ pc' = "swrst" /\ result' = "none"
      BY <1>4 DEF WriteInit
    <2>2. CASE Trigger
      <3>1. AfpgaBar' = "blank"
        BY <1>4, <2>2 DEF WriteInit, Trigger, ClearAfpga, AfpgaBar, ControlInv, FlagsInv,
           MissingIsSilent
      <3>2. Load!Begin
        BY <2>1, <3>1 DEF Load!Begin
      <3>3. QED
        BY <3>2 DEF Load!Next
    <2>3. CASE MissedTrigger
      <3>1. active /\ afpga' = afpga
        BY <1>4, <2>3 DEF WriteInit, MissedTrigger, afpgaVars
      <3>2. afpga # "running" /\ afpga \in AfpgaState
        BY <1>1, <3>1 DEF ControlInv, FlagsInv, StartupBetweenDownloads, LoaderTypeOK
      <3>3. AfpgaBar # "running" /\ AfpgaBar' = AfpgaBar
        BY <3>1, <3>2 DEF AfpgaBar, AfpgaState
      <3>4. Load!Begin
        BY <2>1, <3>3 DEF Load!Begin
      <3>5. QED
        BY <3>4 DEF Load!Next
    <2>4. QED
      BY <1>4, <2>2, <2>3 DEF WriteInit
  <1>5. CASE WriteInitUnavailable
    <2>1. pc = "idle" /\ pc' = pc /\ result' = "ENXIO" /\ AfpgaBar' = AfpgaBar
      BY <1>5 DEF WriteInitUnavailable, xldrVars, afpgaVars, AfpgaBar
    <2>2. Load!Refuse
      BY <2>1 DEF Load!Refuse, Result
    <2>3. QED
      BY <2>2 DEF Load!Next
  <1>6. CASE WriteSwrst
    <2>1. pc = "swrst" /\ pc' = "start" /\ result' = result /\ AfpgaBar' = AfpgaBar
      BY <1>6 DEF WriteSwrst, Swrst, afpgaVars, AfpgaBar
    <2>2. QED
      BY <2>1
  <1>7. CASE WriteStart
    <2>1. pc = "start" /\ pc' = "write" /\ result' = result /\ result = "none"
      BY <1>7 DEF WriteStart, ControlInv
    <2>2. AfpgaBar' = "blank"
      <3>1. ClearAfpga
        BY <1>7 DEF WriteStart, Start, ControlInv
      <3>2. QED
        BY <3>1 DEF ClearAfpga, AfpgaBar, ControlInv, FlagsInv, MissingIsSilent
    <2>3. Load!Clear
      BY <2>1, <2>2 DEF Load!Clear
    <2>4. QED
      BY <2>3 DEF Load!Next
  <1>8. CASE WriteBuf \/ EndOfImage \/ PollFull \/ WriteLast
    <2>1. /\ pc \notin {"idle", "swrst", "start"} /\ pc' \notin {"idle", "swrst", "start"}
          /\ result' = result /\ AfpgaBar' = AfpgaBar
      BY <1>8 DEF WriteBuf, EndOfImage, PollFull, WriteLast, xldrVars, afpgaVars, AfpgaBar
    <2>2. QED
      BY <2>1
  <1>9. CASE GiveUpWrite \/ GiveUpLast \/ PollTimeout \/ (PollDone /\ csr_error)
    <2>1. /\ pc \notin {"idle", "swrst", "start"} /\ pc' \notin {"swrst", "start"}
          /\ result = "none" /\ result' \in Failures
          /\ AfpgaBar' = AfpgaBar
      BY <1>9 DEF GiveUpWrite, GiveUpLast, PollTimeout, PollDone, xldrVars, afpgaVars,
         AfpgaBar, ControlInv, Result
    <2>2. Load!Fail
      BY <2>1 DEF Load!Fail
    <2>3. QED
      BY <2>2 DEF Load!Next
  <1>10. CASE PollDone /\ ~csr_error
    <2>1. /\ pc = "poll" /\ pc' = "exit" /\ result = "none" /\ result' = "ok"
          /\ AfpgaBar' = AfpgaBar /\ csr_done
      BY <1>10 DEF PollDone, xldrVars, afpgaVars, AfpgaBar, ControlInv
    <2>2. afpga \in {"done", "running"} /\ afpga # "running"
      BY <1>10, <2>1 DEF ControlInv, FlagsInv, FlagsAreFresh, StartupBetweenDownloads, Done
    <2>3. AfpgaBar = "configured"
      BY <2>2 DEF AfpgaBar
    <2>4. Load!Succeed
      BY <2>1, <2>3 DEF Load!Succeed
    <2>5. QED
      BY <2>4 DEF Load!Next
  <1>11. CASE WriteExit
    <2>1. /\ pc = "exit" /\ pc' = "idle" /\ result # "none" /\ result' = result
          /\ AfpgaBar' = AfpgaBar
      BY <1>11 DEF WriteExit, StartupPulse, afpgaVars, AfpgaBar, ControlInv
    <2>2. Load!HandBack
      BY <2>1 DEF Load!HandBack
    <2>3. QED
      BY <2>2 DEF Load!Next
  <1>12. CASE FetchWord \/ DropWord
    BY <1>2, <1>12 DEF FetchWord, Fetch, DropWord, Drop, xldrVars, afpgaVars, driverVars
  <1>13. CASE LoaderStep /\ ~StartupEnd /\ ~AfpgaReady
    BY <1>2, <1>13 DEF LoaderStep, Internal, ProgExtended, InitSeen, InitTimeout, InitReleased,
       ShiftByte, DoneWhileShifting, FlagDone, DoneAfterLast, DoneTimeout, afpgaVars, driverVars
  <1>14. CASE LoaderStep /\ AfpgaReady
    <2>1. pc' = pc /\ result' = result /\ AfpgaBar' = AfpgaBar
      BY <1>14 DEF LoaderStep, AfpgaReady, driverVars, AfpgaBar
    <2>2. QED
      BY <2>1
  <1>15. CASE LoaderStep /\ StartupEnd
    <2>1. pc' = pc /\ result' = result /\ state = "STARTUP"
      BY <1>15 DEF LoaderStep, StartupEnd, driverVars
    <2>2. CASE afpga = "done"
      <3>1. pc = "idle"
        BY <1>1, <2>1, <2>2 DEF ControlInv, FlagsInv, StartupBetweenDownloads
      <3>2. AfpgaBar = "configured" /\ AfpgaBar' = "running"
        BY <1>15, <2>2 DEF StartupEnd, AfpgaBar
      <3>3. Load!Run
        BY <2>1, <3>1, <3>2 DEF Load!Run
      <3>4. QED
        BY <3>3 DEF Load!Next
    <2>3. CASE afpga # "done"
      BY <1>2, <1>15, <2>1, <2>3 DEF StartupEnd
    <2>4. QED
      BY <2>2, <2>3
  <1>16. CASE AfpgaConfigured
    <2>1. pc' = pc /\ result' = result /\ afpga = "ready" /\ afpga' = "done"
      BY <1>16 DEF AfpgaConfigured, AfpgaDone, Configurable, driverVars
    <2>2. AfpgaBar = "blank" /\ AfpgaBar' = "configured"
      BY <2>1 DEF AfpgaBar
    <2>3. Load!Configure
      BY <2>1, <2>2 DEF Load!Configure
    <2>4. QED
      BY <2>3 DEF Load!Next
  <1>17. QED
    BY <1>3, <1>4, <1>5, <1>6, <1>7, <1>8, <1>9, <1>10, <1>11, <1>12, <1>13, <1>14, <1>15, <1>16
       DEF Next, BeginDownload, ContinueDownload, Hardware

\* A download of any image, through any FIFO, keeps the promise of AfpgaLoad.
THEOREM Refinement == Spec => ImplementsAfpgaLoad
  BY InitRefines, StepRefines, TypeInvariant, ControlInvariant, PTL
     DEF Spec, Load!Spec, ImplementsAfpgaLoad

-----------------------------------------------------------------------------
(* The mark of the last word.                                              *)

\* From the last word on, a mark is under way behind everything the loader has
\* still to fetch, or it has been fetched.
LastInv ==
  (pc \in {"poll", "exit"} /\ result # "EBUSY") =>
    IF fifo # <<>> THEN fifo[Len(fifo)].last
    ELSE /\ state \notin {"EXTEND_PROG", "WAIT_INIT", "WAIT_INIT2", "READ_FIFO"}
         /\ state = "SHIFT" => d_last

\* Up to the last word there is no mark, unless there was one at START.
NoMarkInv ==
  (pc \in {"write", "complete"} /\ stale = <<>>) =>
    /\ \A i \in DOMAIN fifo : ~fifo[i].last
    /\ state = "SHIFT" => ~d_last
    /\ state # "WAIT_DONE"

LEMMA FifoDomain ==
  ASSUME TypeInv
  PROVE  /\ DOMAIN fifo = 1 .. Len(fifo) /\ Len(fifo) \in Nat
         /\ fifo # <<>> <=> Len(fifo) > 0
  BY EmptyLen, LenProperties DEF TypeInv, NeverEmpty

LEMMA LastStep == ASSUME TypeInv, ControlInv, LastInv, [Next]_vars PROVE LastInv'
  <1> USE DEF xldrVars, loaderVars, afpgaVars, driverVars
  <1>1. LastInv /\ LoaderTypeOK /\ pc \in Pc
    BY DEF TypeInv, DriverTypeOK
  <1>2. CASE UNCHANGED vars
    BY <1>1, <1>2 DEF vars, LastInv
  <1>3. CASE pc' \notin {"poll", "exit"} \/ result' = "EBUSY"
    BY <1>3 DEF LastInv
  <1>4. CASE WriteLast
    <2>1. last_word # <<>>
      BY <1>4, DownloadAssumption DEF WriteLast, TypeInv, NeverEmpty, DownloadAssumption
    <2>2. fifo' # <<>> /\ fifo'[Len(fifo')].last
      BY <1>4, <2>1, WrittenWord DEF WriteLast
    <2>3. QED
      BY <2>2 DEF LastInv
  <1>5. CASE PollDone \/ PollTimeout
    BY <1>1, <1>5 DEF PollDone, PollTimeout, LastInv, ControlInv
  <1>6. CASE FetchWord \/ DropWord
    <2>1. /\ fifo' = Tail(fifo) /\ Len(fifo') = Len(fifo) - 1 /\ Len(fifo) \in Nat
          /\ \A i \in 1 .. Len(fifo') : fifo'[i] = fifo[i + 1]
          /\ fifo # <<>> /\ fifo' \in Seq(Word)
      BY <1>6, TakenWord DEF FetchWord, DropWord
    <2>2. Len(fifo) > 0
      BY <2>1, FifoDomain
    <2>3. CASE fifo' # <<>>
      <3>1. Len(fifo') > 0
        BY <2>1, <2>3, EmptyLen
      <3>2. fifo'[Len(fifo')] = fifo[Len(fifo)]
        BY <2>1, <3>1
      <3>3. pc' = pc /\ result' = result
        BY <1>6 DEF FetchWord, DropWord
      <3>4. QED
        BY <1>1, <2>1, <2>3, <3>2, <3>3 DEF LastInv
    <2>4. CASE fifo' = <<>>
      <3>1. Len(fifo) = 1 /\ Head(fifo) = fifo[Len(fifo)]
        <4>1. Len(fifo') = 0
          BY <2>4
        <4>2. QED
          BY <2>1, <4>1, HeadTailProperties DEF TypeInv, NeverEmpty
      <3>2. CASE FetchWord
        <4>1. state' = "SHIFT" /\ d_last' = Head(fifo).last /\ pc' = pc /\ result' = result
          BY <3>2, FetchResult DEF FetchWord
        <4>2. QED
          BY <1>1, <2>1, <2>4, <3>1, <4>1 DEF LastInv
      <3>3. CASE DropWord
        <4>1. state = "IDLE" /\ state' = state /\ pc' = pc /\ result' = result
          BY <3>3 DEF DropWord, Drop
        <4>2. QED
          BY <2>4, <4>1 DEF LastInv
      <3>4. QED
        BY <1>6, <3>2, <3>3
    <2>5. QED
      BY <2>3, <2>4
  <1>7. CASE LoaderStep
    <2>1. pc' = pc /\ result' = result /\ fifo' = fifo
      BY <1>7 DEF LoaderStep
    <2>2. CASE ShiftByte
      <3>1. state = "SHIFT" /\ d_last' = d_last
        BY <2>2 DEF ShiftByte
      <3>2. state' = "SHIFT" \/ state' = IF d_last THEN "WAIT_DONE" ELSE "READ_FIFO"
        BY <2>2, ShiftResult
      <3>3. QED
        BY <1>1, <2>1, <3>1, <3>2 DEF LastInv
    <2>3. CASE ~ShiftByte
      <3>1. \/ state' \in {"IDLE", "GOT_DONE"}
            \/ state \in {"EXTEND_PROG", "WAIT_INIT", "WAIT_INIT2"}
            \/ state' = state /\ d_last' = d_last
        BY <1>7, <2>3 DEF LoaderStep, Internal, ProgExtended, InitSeen, InitTimeout,
           InitReleased, DoneWhileShifting, FlagDone, DoneAfterLast, DoneTimeout, StartupEnd,
           AfpgaReady
      <3>2. QED
        BY <1>1, <2>1, <3>1 DEF LastInv
    <2>4. QED
      BY <2>2, <2>3
  <1>8. CASE AfpgaConfigured
    BY <1>1, <1>8 DEF AfpgaConfigured, AfpgaDone, LastInv
  <1>9. CASE BeginDownload
    <2>1. pc' \notin {"poll", "exit"}
      BY <1>9 DEF BeginDownload, WriteInit, WriteInitUnavailable
    <2>2. QED
      BY <1>3, <2>1
  <1>10. CASE ContinueDownload /\ ~(WriteLast \/ PollDone \/ PollTimeout)
    <2>1. pc' \notin {"poll", "exit"} \/ result' = "EBUSY" \/ UNCHANGED <<pc, result>>
      BY <1>10 DEF ContinueDownload, WriteSwrst, WriteStart, WriteBuf, EndOfImage, PollFull,
         GiveUpWrite, GiveUpLast, WriteExit
    <2>2. pc' \notin {"poll", "exit"} \/ result' = "EBUSY"
      BY <1>10, <2>1 DEF ContinueDownload, WriteSwrst, WriteStart, WriteBuf, EndOfImage,
         PollFull, GiveUpWrite, GiveUpLast, WriteExit
    <2>3. QED
      BY <1>3, <2>2
  <1>11. QED
    BY <1>2, <1>4, <1>5, <1>6, <1>7, <1>8, <1>9, <1>10 DEF Next, Hardware

LEMMA NoMarkStep == ASSUME TypeInv, ControlInv, NoMarkInv, [Next]_vars PROVE NoMarkInv'
  <1> USE DEF xldrVars, loaderVars, afpgaVars, driverVars
  <1>1. NoMarkInv /\ LoaderTypeOK /\ pc \in Pc
    BY DEF TypeInv, DriverTypeOK
  <1>2. CASE UNCHANGED vars
    BY <1>1, <1>2 DEF vars, NoMarkInv
  <1>3. CASE WriteStart
    <2>1. state' = "EXTEND_PROG" /\ stale' = BytesOf(fifo) /\ fifo' = fifo
      BY <1>3 DEF WriteStart, Start, ControlInv
    <2>2. stale' = <<>> => fifo' = <<>>
      BY <2>1, NoBytesNoWords DEF TypeInv, NeverEmpty
    <2>3. fifo' = <<>> => DOMAIN fifo' = {}
      OBVIOUS
    <2>4. QED
      BY <2>1, <2>2, <2>3 DEF NoMarkInv
  <1>4. CASE WriteBuf
    <2>1. /\ pc = "write" /\ pc' = "write" /\ stale' = stale /\ state' = state
          /\ d_last' = d_last /\ WriteWord(FALSE)
      BY <1>4 DEF WriteBuf
    <2>2. CASE last_word = <<>>
      BY <1>1, <2>1, <2>2 DEF NoMarkInv, WriteWord
    <2>3. CASE last_word # <<>>
      <3>1. /\ fifo' \in Seq(Word) /\ Len(fifo') = Len(fifo) + 1
            /\ fifo'[Len(fifo')].last = FALSE
            /\ \A i \in 1 .. Len(fifo) : fifo'[i] = fifo[i]
        BY <2>1, <2>3, WrittenWord
      <3>2. DOMAIN fifo' = 1 .. Len(fifo') /\ DOMAIN fifo = 1 .. Len(fifo) /\ Len(fifo) \in Nat
        BY <3>1, FifoDomain, LenProperties
      <3>3. PICK n \in Nat : n = Len(fifo)
        BY <3>2
      <3>4. \A i \in DOMAIN fifo' : i \in DOMAIN fifo \/ i = Len(fifo')
        BY <3>1, <3>2, <3>3
      <3>5. (\A i \in DOMAIN fifo : ~fifo[i].last) => (\A i \in DOMAIN fifo' : ~fifo'[i].last)
        BY <3>1, <3>2, <3>4
      <3>6. QED
        BY <1>1, <2>1, <3>5 DEF NoMarkInv
    <2>4. QED
      BY <2>2, <2>3
  <1>5. CASE BeginDownload \/ (ContinueDownload /\ ~WriteStart /\ ~WriteBuf)
    <2>1. \/ pc' \notin {"write", "complete"}
          \/ pc \in {"write", "complete"} /\ UNCHANGED <<state, d_last, fifo, stale>>
      BY <1>5 DEF BeginDownload, WriteInit, WriteInitUnavailable, ContinueDownload, WriteSwrst,
         EndOfImage, PollFull, GiveUpWrite, WriteLast, GiveUpLast, PollDone, PollTimeout,
         WriteExit
    <2>2. QED
      BY <1>1, <2>1 DEF NoMarkInv
  <1>6. CASE FetchWord \/ DropWord
    <2>1. /\ Len(fifo') = Len(fifo) - 1 /\ Len(fifo) \in Nat /\ fifo' \in Seq(Word)
          /\ \A i \in 1 .. Len(fifo') : fifo'[i] = fifo[i + 1]
          /\ fifo # <<>>
      BY <1>6, TakenWord DEF FetchWord, DropWord
    <2>2. DOMAIN fifo' = 1 .. Len(fifo') /\ DOMAIN fifo = 1 .. Len(fifo)
      BY <2>1, FifoDomain, LenProperties
    <2>3. PICK n \in Nat : n = Len(fifo) /\ n > 0
      BY <2>1, FifoDomain
    <2>4. \A i \in DOMAIN fifo' : i + 1 \in DOMAIN fifo
      BY <2>1, <2>2, <2>3
    <2>5. (\A i \in DOMAIN fifo : ~fifo[i].last) => (\A i \in DOMAIN fifo' : ~fifo'[i].last)
      BY <2>1, <2>2, <2>4
    <2>6. Head(fifo) = fifo[1] /\ 1 \in DOMAIN fifo
      BY <2>1, <2>2, <2>3, HeadTailProperties DEF TypeInv, NeverEmpty
    <2>7. pc' = pc /\ stale' = stale
      BY <1>6 DEF FetchWord, DropWord
    <2>8. CASE FetchWord
      <3>1. state' = "SHIFT" /\ d_last' = Head(fifo).last
        BY <2>8, FetchResult
      <3>2. QED
        BY <1>1, <2>5, <2>6, <2>7, <3>1 DEF NoMarkInv
    <2>9. CASE DropWord
      <3>1. state' = "IDLE"
        BY <2>9 DEF DropWord, Drop
      <3>2. QED
        BY <1>1, <2>5, <2>7, <3>1 DEF NoMarkInv
    <2>10. QED
      BY <1>6, <2>8, <2>9
  <1>7. CASE LoaderStep
    <2>1. pc' = pc /\ stale' = stale /\ fifo' = fifo
      BY <1>7 DEF LoaderStep
    <2>2. CASE ShiftByte
      <3>1. state = "SHIFT" /\ d_last' = d_last
        BY <2>2 DEF ShiftByte
      <3>2. state' = "SHIFT" \/ state' = IF d_last THEN "WAIT_DONE" ELSE "READ_FIFO"
        BY <2>2, ShiftResult
      <3>3. QED
        BY <1>1, <2>1, <3>1, <3>2 DEF NoMarkInv
    <2>3. CASE ~ShiftByte
      <3>1. \/ state' \notin {"SHIFT", "WAIT_DONE"}
            \/ state' = state /\ d_last' = d_last
        BY <1>7, <2>3 DEF LoaderStep, Internal, ProgExtended, InitSeen, InitTimeout,
           InitReleased, DoneWhileShifting, FlagDone, DoneAfterLast, DoneTimeout, StartupEnd,
           AfpgaReady
      <3>2. QED
        BY <1>1, <2>1, <3>1 DEF NoMarkInv
    <2>4. QED
      BY <2>2, <2>3
  <1>8. CASE AfpgaConfigured
    BY <1>1, <1>8 DEF AfpgaConfigured, AfpgaDone, NoMarkInv
  <1>9. QED
    BY <1>2, <1>3, <1>4, <1>5, <1>6, <1>7, <1>8 DEF Next, Hardware

LEMMA MarkInvariant == Spec => [](LastInv /\ NoMarkInv)
  <1>1. Init => LastInv /\ NoMarkInv
    BY DEF Init, LastInv, NoMarkInv
  <1>2. QED
    BY <1>1, LastStep, NoMarkStep, TypeInvariant, ControlInvariant, PTL DEF Spec

\* When everything has been written and fetched, the loader does not wait for
\* one more word.
THEOREM LastWordCorrect == Spec => []LastWordMarked
  <1>1. LastInv => LastWordMarked
    BY DEF LastInv, LastWordMarked
  <1>2. QED
    BY <1>1, MarkInvariant, PTL

\* The loader does not stop at a word that is not the image's last.
THEOREM MarkCorrect == Spec => []MarkedAtTheEnd
  <1>1. NoMarkInv => MarkedAtTheEnd
    BY DEF NoMarkInv, MarkedAtTheEnd
  <1>2. QED
    BY <1>1, MarkInvariant, PTL

-----------------------------------------------------------------------------
(* The bytes.                                                              *)

\* Words go out as they were written, to an AFPGA that takes them.
ReadyInv ==
  /\ pc \in {"write", "complete", "poll"} => msbf
  /\ (/\ pc \in {"write", "complete", "poll"}
      /\ state \in {"READ_FIFO", "SHIFT", "WAIT_DONE"}
      /\ ~Done) => afpga = "ready"

LEMMA ReadyStep == ASSUME TypeInv, ControlInv, ReadyInv, [Next]_vars PROVE ReadyInv'
  <1> USE DEF xldrVars, loaderVars, afpgaVars, driverVars
  <1>1. ReadyInv /\ LoaderTypeOK /\ pc \in Pc
    BY DEF TypeInv, DriverTypeOK
  <1>2. CASE UNCHANGED vars
    BY <1>1, <1>2 DEF vars, ReadyInv, Done
  <1>3. CASE WriteStart
    <2>1. state' = "EXTEND_PROG" /\ msbf' = TRUE
      BY <1>3 DEF WriteStart, Start, ControlInv
    <2>2. QED
      BY <2>1 DEF ReadyInv
  <1>4. CASE BeginDownload \/ (ContinueDownload /\ ~WriteStart)
    <2>1. \/ pc' \notin {"write", "complete", "poll"}
          \/ pc \in {"write", "complete", "poll"} /\ UNCHANGED <<state, afpga, msbf>>
      BY <1>4 DEF BeginDownload, WriteInit, WriteInitUnavailable, ContinueDownload, WriteSwrst,
         WriteBuf, EndOfImage, PollFull, GiveUpWrite, WriteLast, GiveUpLast, PollDone,
         PollTimeout, WriteExit
    <2>2. QED
      BY <1>1, <2>1 DEF ReadyInv, Done
  <1>5. CASE FetchWord
    BY <1>1, <1>5 DEF FetchWord, Fetch, ReadyInv, Done
  <1>6. CASE DropWord
    BY <1>1, <1>6 DEF DropWord, Drop, ReadyInv, Done
  <1>7. CASE LoaderStep
    <2>1. pc' = pc /\ msbf' = msbf
      BY <1>7 DEF LoaderStep
    <2>2. CASE ShiftByte
      BY <1>1, <2>1, <2>2 DEF ShiftByte, ReadyInv, Done
    <2>3. CASE InitReleased
      BY <1>1, <2>1, <2>3 DEF InitReleased, ReadyInv, Done, LoaderTypeOK, AfpgaState
    <2>4. CASE AfpgaReady
      BY <1>1, <2>1, <2>4 DEF AfpgaReady, ReadyInv, Done
    <2>5. CASE ~ShiftByte /\ ~InitReleased /\ ~AfpgaReady
      <3>1. \/ state' \notin {"READ_FIFO", "SHIFT", "WAIT_DONE"}
            \/ state' = state /\ afpga' = afpga
        BY <1>7, <2>5 DEF LoaderStep, Internal, ProgExtended, InitSeen, InitTimeout,
           DoneWhileShifting, FlagDone, DoneAfterLast, DoneTimeout, StartupEnd
      <3>2. QED
        BY <1>1, <2>1, <3>1 DEF ReadyInv, Done
    <2>6. QED
      BY <2>2, <2>3, <2>4, <2>5
  <1>8. CASE AfpgaConfigured
    BY <1>1, <1>8 DEF AfpgaConfigured, AfpgaDone, ReadyInv, Done
  <1>9. QED
    BY <1>2, <1>3, <1>4, <1>5, <1>6, <1>7, <1>8 DEF Next, Hardware

\* The bytes do not change places when they are handed on: by the loader to the
\* AFPGA, ...
LEMMA ByteMoves ==
  ASSUME NEW s \in Seq(Int), NEW t \in Seq(Int), t # <<>>
  PROVE  Append(s, Head(t)) \o Tail(t) = s \o t
  <1>1. /\ Head(t) = t[1] /\ Head(t) \in Int /\ Tail(t) \in Seq(Int) /\ Len(t) \in Nat
        /\ Len(Tail(t)) = Len(t) - 1 /\ Len(t) > 0
        /\ \A i \in 1 .. Len(Tail(t)) : Tail(t)[i] = t[i + 1]
    BY HeadTailProperties, EmptyLen
  <1>2. <<Head(t)>> \in Seq(Int) /\ Append(s, Head(t)) = s \o <<Head(t)>>
    BY <1>1, AppendIsConcat
  <1>3. (s \o <<Head(t)>>) \o Tail(t) = s \o (<<Head(t)>> \o Tail(t))
    BY <1>1, <1>2, ConcatAssociative
  <1>4. <<Head(t)>> \o Tail(t) = t
    <2>1. PICK u : u = Tail(t)
      OBVIOUS
    <2>2. PICK h : h = Head(t)
      OBVIOUS
    <2>3. /\ <<h>> \o u \in Seq(Int) /\ Len(<<h>> \o u) = 1 + Len(u)
          /\ \A i \in 1 .. 1 + Len(u) : (<<h>> \o u)[i] = IF i = 1 THEN h ELSE u[i - 1]
      <3>1. <<h>> \in Seq(Int) /\ u \in Seq(Int) /\ Len(<<h>>) = 1 /\ <<h>>[1] = h
        BY <1>1, <1>2, <2>1, <2>2
      <3>2. /\ <<h>> \o u \in Seq(Int) /\ Len(<<h>> \o u) = 1 + Len(u)
            /\ \A i \in 1 .. 1 + Len(u) :
                 (<<h>> \o u)[i] = IF i <= 1 THEN <<h>>[i] ELSE u[i - 1]
        BY <3>1, ConcatProperties
      <3>3. Len(u) \in Nat
        BY <3>1, EmptyLen
      <3>4. \A i \in 1 .. 1 + Len(u) : i <= 1 <=> i = 1
        BY <3>3
      <3>5. QED
        BY <3>1, <3>2, <3>4
    <2>4. Len(<<h>> \o u) = Len(t) /\ 1 + Len(u) = Len(t)
      BY <1>1, <2>1, <2>3
    <2>5. \A i \in 1 .. Len(t) : (IF i = 1 THEN h ELSE u[i - 1]) = t[i]
      <3>1. PICK n \in Nat : n = Len(t)
        BY <1>1
      <3>2. \A i \in 1 .. n : i = 1 \/ (i - 1 \in 1 .. n - 1 /\ (i - 1) + 1 = i)
        BY <3>1
      <3>3. QED
        BY <1>1, <2>1, <2>2, <3>1, <3>2
    <2>6. \A i \in 1 .. Len(t) : (<<h>> \o u)[i] = t[i]
      BY <2>3, <2>4, <2>5
    <2>7. QED
      BY <2>1, <2>2, <2>3, <2>4, <2>6, SeqEqual
  <1>5. QED
    BY <1>2, <1>3, <1>4

\* ... by the FIFO to the loader, and by the driver to the FIFO.
LEMMA Regroup ==
  ASSUME NEW s \in Seq(Int), NEW t \in Seq(Int), NEW u \in Seq(Int)
  PROVE  (s \o t) \o u = s \o (t \o u)
  OBVIOUS

LEMMA WordMoves ==
  ASSUME NEW s \in Seq(Int), NEW t \in Seq(Int), NEW u \in Seq(Int), NEW v \in Seq(Int)
  PROVE  /\ (s \o <<>>) \o (t \o u) = (s \o t) \o u
         /\ (s \o t) \o (u \o v) = ((s \o t) \o u) \o v
  <1>1. s \o <<>> = s
    BY ConcatEmptySeq
  <1>2. s \o (t \o u) = (s \o t) \o u
    BY Regroup
  <1>3. PICK w \in Seq(Int) : w = s \o t
    BY ConcatProperties
  <1>4. w \o (u \o v) = (w \o u) \o v
    BY Regroup
  <1>5. QED
    BY <1>1, <1>2, <1>3, <1>4

LEMMA ImageType == Image \in Seq(Int) /\ Len(Image) = ImageLen
  BY DownloadAssumption DEF Image, DownloadAssumption

\* The word taken continues what was taken before.
LEMMA TakenMoves ==
  ASSUME NEW n \in 0 .. ImageLen, n < ImageLen
  PROVE  SubSeq(Image, 1, n) \o WordAfter(n) = SubSeq(Image, 1, n + Len(WordAfter(n)))
  <1>1. PICK m : m = n + Len(WordAfter(n))
    OBVIOUS
  <1>2. m \in 1 .. ImageLen /\ WordAfter(n) = SubSeq(Image, n + 1, m) /\ m >= n
    <2>1. m \in 1 .. ImageLen /\ WordAfter(n) = SubSeq(Image, n + 1, m)
      BY <1>1, WordAfterNext
    <2>2. WordAfter(n) \in Seq(1 .. ImageLen)
      BY WordAfterNext
    <2>3. Len(WordAfter(n)) \in Nat
      BY <2>2, EmptyLen
    <2>4. QED
      BY <1>1, <2>1, <2>3
  <1>3. /\ 1 \in 1 .. Len(Image) + 1 /\ n \in 1 - 1 .. Len(Image)
        /\ m \in n .. Len(Image)
    BY <1>2, ImageType, DownloadAssumption DEF DownloadAssumption
  <1>4. SubSeq(Image, 1, n) \o SubSeq(Image, n + 1, m) = SubSeq(Image, 1, m)
    BY <1>3, ImageType, ConcatAdjacentSubSeq
  <1>5. QED
    BY <1>1, <1>2, <1>4

\* NothingLost, by name: when it says something, ...
Loading ==
  /\ pc \in {"write", "complete", "poll"}
  /\ state \notin {"IDLE", "GOT_DONE", "STARTUP"}
  /\ ~Done

\* ... what it says of the bytes beyond the driver, ...
Ahead == received \o (IF state = "SHIFT" THEN d_data ELSE <<>>)

\* ... and of all of them.
AllThere == (Ahead \o BytesOf(fifo)) \o last_word = stale \o SubSeq(Image, 1, taken)

LEMMA ByName == NothingLost <=> (Loading => AllThere)
  BY DEF NothingLost, Loading, Ahead, AllThere

LEMMA AheadType ==
  ASSUME TypeInv
  PROVE  /\ Ahead \in Seq(Int) /\ BytesOf(fifo) \in Seq(Int) /\ last_word \in Seq(Int)
         /\ received \in Seq(Int) /\ stale \in Seq(Int)
         /\ SubSeq(Image, 1, taken) \in Seq(Int)
  <1>1. /\ received \in Seq(Int) /\ d_data \in Seq(Int) /\ fifo \in Seq(Word)
        /\ stale \in Seq(Int) /\ last_word \in Seq(1 .. ImageLen)
        /\ taken \in 0 .. ImageLen
    BY DEF TypeInv, WordsTypeOK, NeverEmpty, DriverTypeOK
  <1>2. Ahead \in Seq(Int)
    <2>1. (IF state = "SHIFT" THEN d_data ELSE <<>>) \in Seq(Int)
      BY <1>1, EmptySeq
    <2>2. QED
      BY <1>1, <2>1, ConcatProperties DEF Ahead
  <1>3. last_word \in Seq(Int)
    <2>1. 1 .. ImageLen \subseteq Int
      OBVIOUS
    <2>2. QED
      BY <1>1, <2>1, SeqMonotonic
  <1>4. SubSeq(Image, 1, taken) \in Seq(Int)
    <2>1. \A i \in 1 .. taken : Image[i] \in Int
      BY <1>1, DownloadAssumption DEF Image, DownloadAssumption
    <2>2. taken \in Int /\ 1 \in Int
      BY <1>1
    <2>3. QED
      BY <2>1, <2>2, SubSeqProperties
  <1>5. QED
    BY <1>1, <1>2, <1>3, <1>4, BytesOfType

\* The driver hands its word to the FIFO.
LEMMA WriteKeeps ==
  ASSUME TypeInv, NEW is_last \in BOOLEAN, WriteWord(is_last)
  PROVE  Ahead \o BytesOf(fifo') = (Ahead \o BytesOf(fifo)) \o last_word
  <1>1. CASE last_word = <<>>
    <2>1. fifo' = fifo
      BY <1>1, WrittenWord
    <2>2. Ahead \o BytesOf(fifo) \in Seq(Int)
      BY AheadType, ConcatProperties
    <2>3. QED
      BY <1>1, <2>1, <2>2, ConcatEmptySeq
  <1>2. CASE last_word # <<>>
    <2>1. PICK word \in Word : word.bytes = last_word /\ fifo' = Append(fifo, word)
      BY <1>2, WrittenWord
    <2>2. BytesOf(fifo') = BytesOf(fifo) \o last_word
      BY <2>1, BytesOfAppend DEF TypeInv, NeverEmpty
    <2>3. PICK s \in Seq(Int), t \in Seq(Int), u \in Seq(Int) :
            s = Ahead /\ t = BytesOf(fifo) /\ u = last_word
      BY AheadType
    <2>4. (s \o t) \o u = s \o (t \o u)
      BY Regroup
    <2>5. QED
      BY <2>2, <2>3, <2>4
  <1>3. QED
    BY <1>1, <1>2

LEMMA LossStep ==
  ASSUME TypeInv, ControlInv, ReadyInv, NothingLost, [Next]_vars
  PROVE  NothingLost'
  <1> USE DEF xldrVars, loaderVars, afpgaVars, driverVars
  <1> SUFFICES ASSUME Loading' PROVE AllThere'
    BY ByName, ByName' DEF NothingLost, Loading, Ahead, AllThere
  <1>1. Loading => AllThere
    BY ByName
  <1>2. LoaderTypeOK /\ pc \in Pc /\ fifo \in Seq(Word) /\ taken \in 0 .. ImageLen
    BY DEF TypeInv, DriverTypeOK, NeverEmpty
  <1>3. CASE UNCHANGED <<pc, state, afpga, received, d_data, fifo, last_word, stale, taken>>
    BY <1>1, <1>3 DEF Loading, Done, AllThere, Ahead
  <1>4. CASE UNCHANGED vars
    BY <1>3, <1>4 DEF vars
  <1>5. CASE WriteStart
    <2>1. /\ received' = <<>> /\ state' = "EXTEND_PROG" /\ fifo' = fifo
          /\ last_word' = <<>> /\ taken' = 0 /\ stale' = BytesOf(fifo)
      BY <1>5 DEF WriteStart, Start, ClearAfpga, ControlInv, TypeInv, NeverEmpty
    <2>2. Ahead' = <<>>
      BY <2>1, EmptySeq, ConcatEmptySeq DEF Ahead
    <2>3. BytesOf(fifo) \in Seq(Int)
      BY AheadType
    <2>4. SubSeq(Image, 1, 0) = <<>>
      BY SubSeqEmpty
    <2>5. (Ahead \o BytesOf(fifo))' = BytesOf(fifo)
      BY <2>1, <2>2, <2>3, ConcatEmptySeq
    <2>6. QED
      BY <2>1, <2>3, <2>4, <2>5 DEF AllThere
  <1>6. CASE WriteBuf
    <2>1. /\ WriteWord(FALSE) /\ last_word' = WordAfter(taken) /\ taken < ImageLen
          /\ taken' = taken + Len(WordAfter(taken)) /\ pc = "write"
          /\ UNCHANGED <<state, afpga, received, d_data, stale>>
      BY <1>6 DEF WriteBuf
    <2>2. AllThere
      BY <1>1, <2>1 DEF Loading, Done
    <2>3. Ahead' = Ahead
      BY <2>1 DEF Ahead
    <2>4. Ahead' \o BytesOf(fifo') = stale \o SubSeq(Image, 1, taken)
      BY <2>1, <2>2, <2>3, WriteKeeps DEF AllThere
    <2>5. WordAfter(taken) \in Seq(Int)
      <3>1. WordAfter(taken) \in Seq(1 .. ImageLen) /\ 1 .. ImageLen \subseteq Int
        BY <1>2, <2>1, WordAfterNext
      <3>2. QED
        BY <3>1, SeqMonotonic
    <2>6. (stale \o SubSeq(Image, 1, taken)) \o WordAfter(taken)
            = stale \o (SubSeq(Image, 1, taken) \o WordAfter(taken))
      <3>1. PICK s \in Seq(Int), t \in Seq(Int), u \in Seq(Int) :
              s = stale /\ t = SubSeq(Image, 1, taken) /\ u = WordAfter(taken)
        BY <2>5, AheadType
      <3>2. (s \o t) \o u = s \o (t \o u)
        BY Regroup
      <3>3. QED
        BY <3>1, <3>2
    <2>7. SubSeq(Image, 1, taken) \o WordAfter(taken) = SubSeq(Image, 1, taken')
      BY <1>2, <2>1, TakenMoves
    <2>8. QED
      BY <2>1, <2>4, <2>6, <2>7 DEF AllThere
  <1>7. CASE WriteLast
    <2>1. /\ WriteWord(TRUE) /\ last_word' = <<>> /\ pc = "complete"
          /\ UNCHANGED <<state, afpga, received, d_data, stale, taken>>
      BY <1>7 DEF WriteLast
    <2>2. AllThere
      BY <1>1, <2>1 DEF Loading, Done
    <2>3. Ahead' = Ahead
      BY <2>1 DEF Ahead
    <2>4. Ahead' \o BytesOf(fifo') = (Ahead \o BytesOf(fifo)) \o last_word
      BY <2>1, <2>3, WriteKeeps
    <2>5. (Ahead \o BytesOf(fifo)) \o last_word \in Seq(Int)
      BY AheadType, ConcatProperties
    <2>6. (Ahead' \o BytesOf(fifo')) \o <<>> = (Ahead \o BytesOf(fifo)) \o last_word
      BY <2>4, <2>5, ConcatEmptySeq
    <2>7. QED
      BY <2>1, <2>2, <2>6 DEF AllThere
  <1>8. CASE BeginDownload \/ (ContinueDownload /\ ~(WriteStart \/ WriteBuf \/ WriteLast))
    <2>1. \/ pc' \notin {"write", "complete", "poll"}
          \/ /\ pc \in {"write", "complete", "poll"}
             /\ UNCHANGED <<state, afpga, received, d_data, fifo, last_word, stale, taken>>
      BY <1>8 DEF BeginDownload, WriteInit, WriteInitUnavailable, ContinueDownload, WriteSwrst,
         EndOfImage, PollFull, GiveUpWrite, GiveUpLast, PollDone, PollTimeout, WriteExit
    <2>2. QED
      BY <1>1, <2>1 DEF Loading, Done, AllThere, Ahead
  <1>9. CASE FetchWord
    <2>1. /\ Head(fifo) \in Word /\ state = "READ_FIFO" /\ state' = "SHIFT"
          /\ d_data' = IF msbf THEN Head(fifo).bytes ELSE Swapped(Head(fifo).bytes)
      BY <1>9, FetchResult
    <2>2. /\ fifo # <<>> /\ fifo' = Tail(fifo) /\ received' = received
          /\ UNCHANGED <<pc, afpga, last_word, stale, taken>>
      BY <1>9 DEF FetchWord, Fetch
    <2>3. AllThere /\ msbf
      BY <1>1, <2>1, <2>2 DEF Loading, Done, ReadyInv
    <2>4. PICK t \in Seq(Int) : t = Head(fifo).bytes
      BY <2>1 DEF Word, Bytes
    <2>5. PICK u \in Seq(Int) : u = BytesOf(Tail(fifo))
      <3>1. Tail(fifo) \in Seq(Word)
        BY <1>2, <2>2, HeadTailProperties
      <3>2. QED
        BY <3>1, BytesOfType
    <2>6. BytesOf(fifo) = t \o u
      BY <1>2, <2>2, <2>4, <2>5, BytesOfTail
    <2>7. Ahead = received \o <<>> /\ Ahead' = received \o t
      BY <2>1, <2>2, <2>3, <2>4 DEF Ahead
    <2>8. (received \o <<>>) \o (t \o u) = (received \o t) \o u
      <3>1. PICK s \in Seq(Int) : s = received
        BY AheadType
      <3>2. (s \o <<>>) \o (t \o u) = (s \o t) \o u
        BY WordMoves
      <3>3. QED
        BY <3>1, <3>2
    <2>9. QED
      BY <2>2, <2>3, <2>5, <2>6, <2>7, <2>8 DEF AllThere
  <1>10. CASE DropWord
    BY <1>10 DEF DropWord, Drop, Loading
  <1>11. CASE LoaderStep /\ ShiftByte
    <2>1. /\ d_data \in Seq(Int) /\ d_data # <<>> /\ d_data' = Tail(d_data)
          /\ state' = "SHIFT" \/ (state' # "SHIFT" /\ d_data' = <<>>)
      BY <1>11, ShiftResult
    <2>2. UNCHANGED <<pc, fifo, last_word, stale, taken, afpga>> /\ state = "SHIFT" /\ ~Done
      BY <1>11 DEF LoaderStep, ShiftByte
    <2>3. AllThere /\ afpga = "ready"
      BY <1>1, <2>2 DEF Loading, ReadyInv
    <2>4. received' = Append(received, Head(d_data))
      BY <1>11, <2>3 DEF ShiftByte
    <2>5. Ahead' = received' \o d_data'
      BY <2>1 DEF Ahead
    <2>6. Ahead' = Ahead
      BY <2>1, <2>2, <2>4, <2>5, AheadType, ByteMoves DEF Ahead
    <2>7. QED
      BY <2>2, <2>3, <2>6 DEF AllThere
  <1>12. CASE LoaderStep /\ ~ShiftByte
    <2>1. UNCHANGED <<pc, fifo, last_word, stale, taken, received, d_data>>
      BY <1>12 DEF LoaderStep, Internal, ProgExtended, InitSeen, InitTimeout, InitReleased,
         DoneWhileShifting, FlagDone, DoneAfterLast, DoneTimeout, StartupEnd, AfpgaReady
    <2>2. /\ state \notin {"IDLE", "GOT_DONE", "STARTUP"}
          /\ ~Done
          /\ state = "SHIFT" <=> state' = "SHIFT"
      BY <1>12 DEF Loading, Done, LoaderStep, Internal, ProgExtended, InitSeen, InitTimeout,
         InitReleased, DoneWhileShifting, FlagDone, DoneAfterLast, DoneTimeout, StartupEnd,
         AfpgaReady
    <2>3. Ahead' = Ahead
      BY <2>1, <2>2 DEF Ahead
    <2>4. QED
      BY <1>1, <2>1, <2>2, <2>3 DEF Loading, AllThere
  <1>13. CASE AfpgaConfigured
    BY <1>13 DEF AfpgaConfigured, AfpgaDone, Loading, Done
  <1>14. QED
    BY <1>4, <1>5, <1>6, <1>7, <1>8, <1>9, <1>10, <1>11, <1>12, <1>13 DEF Next, Hardware

\* What the AFPGA has received, and what is under way to it, is what the driver
\* has taken from the image, for every image, division into chunks, length of a
\* word and depth of the FIFO.
THEOREM NothingLostCorrect == Spec => []NothingLost
  <1>1. Init => ReadyInv /\ NothingLost
    BY DEF Init, ReadyInv, NothingLost
  <1>2. QED
    BY <1>1, ReadyStep, LossStep, TypeInvariant, ControlInvariant, PTL DEF Spec
=============================================================================
