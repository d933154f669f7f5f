-------------------------- MODULE BootTriggerProofs --------------------------
(***************************************************************************)
(* Proofs about BootTrigger for every alphabet and every magic sequence    *)
(* whose first byte does not occur again in it.                            *)
(***************************************************************************)
EXTENDS BootTrigger, TLAPS

LEMMA InitIInv == Init => IInv
  <1> SUFFICES ASSUME Init PROVE IInv
    OBVIOUS
  <1>1. TypeOK
    <2>1. boot_state \in 0 .. N /\ streak \in 0 .. 2 * N
      BY MagicAssumption DEF MagicAssumption, Init
    <2>2. recent \in [1 .. N -> Byte \cup {NoByte}]
      BY DEF Init
    <2>3. boot_trig_p1 \in BOOLEAN /\ strobe \in BOOLEAN
      BY DEF Init
    <2>4. QED
      BY <2>1, <2>2, <2>3 DEF TypeOK
  <1>2. Matched /\ ReadyAfterStrobe /\ PulseAtStart /\ InStep
    BY MagicAssumption
       DEF MagicAssumption, Init, Matched, ReadyAfterStrobe, PulseAtStart, InStep, BOOT_READY
  <1>3. QED
    BY <1>1, <1>2 DEF IInv

\* A presented byte keeps the strengthening.
LEMMA WriteIInv ==
  ASSUME IInv, NEW b \in Byte, WriteBtrigr(b)
  PROVE  IInv'
  <1> USE MagicAssumption DEF MagicAssumption, IInv
  <1>1. boot_state \in 0 .. N - 1 /\ ~strobe
    BY DEF WriteBtrigr, ReadyAfterStrobe, TypeOK, BOOT_READY
  <1>2. boot_state' = IF b = Magic[boot_state + 1] THEN boot_state + 1 ELSE 0
    BY DEF WriteBtrigr, f_bootseq_step
  <1>3. recent' = [i \in 1 .. N |-> IF i = N THEN b ELSE recent[i + 1]]
    BY DEF WriteBtrigr, Remember
  <1>4. streak' = IF b = NextOfStreak(streak)
                  THEN IF streak < 2 * N THEN streak + 1 ELSE N + 1
                  ELSE IF b = Magic[1] THEN 1 ELSE 0
    BY DEF WriteBtrigr, Remember
  <1>5. TypeOK'
    <2>1. boot_state' \in 0 .. N /\ streak' \in 0 .. 2 * N
      BY <1>1, <1>2, <1>4 DEF TypeOK
    <2>2. recent' \in [1 .. N -> Byte \cup {NoByte}]
      BY <1>3 DEF TypeOK
    <2>3. boot_trig_p1' \in BOOLEAN /\ strobe' \in BOOLEAN
      BY DEF WriteBtrigr, TypeOK
    <2>4. QED
      BY <2>1, <2>2, <2>3 DEF TypeOK
  <1>6. Matched'
    <2>1. CASE b = Magic[boot_state + 1]
      <3>1. boot_state' = boot_state + 1
        BY <1>2, <2>1
      <3> SUFFICES ASSUME NEW i \in 1 .. boot_state + 1
                   PROVE  recent'[N - (boot_state + 1) + i] = Magic[i]
        BY <3>1 DEF Matched
      <3>2. CASE i = boot_state + 1
        BY <1>1, <1>3, <2>1, <3>2
      <3>3. CASE i # boot_state + 1
        <4>1. i \in 1 .. boot_state
          BY <1>1, <3>3
        <4>2. recent'[N - (boot_state + 1) + i] = recent[N - boot_state + i]
          BY <1>1, <1>3, <4>1
        <4>3. QED
          BY <4>1, <4>2 DEF Matched
      <3>4. QED
        BY <3>2, <3>3
    <2>2. CASE b # Magic[boot_state + 1]
      BY <1>2, <2>2 DEF Matched
    <2>3. QED
      BY <2>1, <2>2
  <1>7. ReadyAfterStrobe'
    BY DEF WriteBtrigr, ReadyAfterStrobe
  <1>8. PulseAtStart'
    BY DEF WriteBtrigr, PulseAtStart
  <1>9. InStep'
    <2>0. strobe'
      BY DEF WriteBtrigr
    <2>1. CASE streak < N
      <3>1. NextOfStreak(streak) = Magic[streak + 1]
        BY <2>1 DEF NextOfStreak
      <3>2. streak = 0 \/ boot_state \in {0, streak}
        BY <2>1 DEF InStep, TypeOK
      <3>3. \A i \in 2 .. N : Magic[i] # Magic[1]
        OBVIOUS
      <3>4. CASE b = Magic[streak + 1]
        <4>1. streak' = streak + 1 /\ streak + 1 \in 1 .. N
          BY <1>4, <2>1, <3>1, <3>4 DEF TypeOK
        <4>2. CASE streak = 0
          <5>1. b = Magic[1] /\ streak' = 1
            BY <3>4, <4>1, <4>2
          <5>2. boot_state' \in {0, 1}
            BY <1>1, <1>2, <3>3, <5>1
          <5>3. QED
            BY <5>1, <5>2 DEF InStep
        <4>3. CASE streak # 0
          <5>1. boot_state' \in {0, streak + 1}
            BY <1>1, <1>2, <3>2, <3>3, <3>4, <4>1, <4>3 DEF TypeOK
          <5>2. QED
            BY <4>1, <5>1 DEF InStep, TypeOK
        <4>4. QED
          BY <4>2, <4>3
      <3>5. CASE b # Magic[streak + 1] /\ b = Magic[1]
        <4>1. streak' = 1
          BY <1>4, <3>1, <3>5
        <4>2. boot_state' \in {0, 1}
          BY <1>1, <1>2, <3>3, <3>5
        <4>3. QED
          BY <4>1, <4>2 DEF InStep
      <3>6. CASE b # Magic[streak + 1] /\ b # Magic[1]
        <4>1. streak' = 0
          BY <1>4, <3>1, <3>6
        <4>2. QED
          BY <4>1 DEF InStep
      <3>7. QED
        BY <3>4, <3>5, <3>6
    <2>2. CASE streak >= N
      <3>1. PICK k \in 0 .. N - 1 :
              /\ boot_state = k
              /\ NextOfStreak(streak) = Magic[k + 1]
              /\ streak \in {N + k, 2 * N}
              /\ streak = 2 * N => k = 0
        BY <1>1, <2>2 DEF InStep, NextOfStreak, TypeOK
      <3>2. CASE b = Magic[k + 1]
        <4>1. boot_state' = k + 1 /\ streak' = N + k + 1
          BY <1>2, <1>4, <3>1, <3>2
        <4>2. CASE k + 1 = N
          BY <2>0, <4>1, <4>2 DEF InStep
        <4>3. CASE k + 1 < N
          BY <4>1, <4>3 DEF InStep
        <4>4. QED
          BY <4>2, <4>3
      <3>3. CASE b # Magic[k + 1]
        <4>1. boot_state' = 0 /\ streak' \in {0, 1}
          BY <1>2, <1>4, <3>1, <3>3
        <4>2. N > 1 /\ 2 * N > 1
          OBVIOUS
        <4>3. CASE streak' = 0
          BY <4>1, <4>2, <4>3 DEF InStep
        <4>4. CASE streak' = 1
          BY <4>1, <4>2, <4>4 DEF InStep
        <4>5. QED
          BY <4>1, <4>3, <4>4
      <3>4. QED
        BY <3>2, <3>3
    <2>3. QED
      BY <2>1, <2>2 DEF TypeOK
  <1>10. QED
    BY <1>5, <1>6, <1>7, <1>8, <1>9

\* A clock edge without a byte keeps it.
LEMMA IdleIInv ==
  ASSUME IInv, Idle
  PROVE  IInv'
  <1> USE MagicAssumption DEF MagicAssumption, IInv, Idle
  <1>1. TypeOK'
    <2>1. boot_state' \in 0 .. N
      BY DEF TypeOK
    <2>2. boot_trig_p1' \in BOOLEAN /\ strobe' \in BOOLEAN
      OBVIOUS
    <2>3. recent' = recent /\ streak' = streak
      OBVIOUS
    <2>4. QED
      BY <2>1, <2>2, <2>3 DEF TypeOK
  <1>2. Matched'
    BY DEF TypeOK, Matched
  <1>3. ReadyAfterStrobe' /\ PulseAtStart'
    BY DEF TypeOK, ReadyAfterStrobe, PulseAtStart, BOOT_READY
  <1>4. InStep'
    BY DEF TypeOK, InStep, ReadyAfterStrobe, BOOT_READY
  <1>5. QED
    BY <1>1, <1>2, <1>3, <1>4

\* The detector keeps its place in the magic sequence whatever is written.
THEOREM TriggerInvariant == Spec => []IInv
  <1>1. IInv /\ [Next]_vars => IInv'
    <2> SUFFICES ASSUME IInv, [Next]_vars PROVE IInv'
      OBVIOUS
    <2>1. CASE Idle
      BY <2>1, IdleIInv
    <2>2. CASE \E b \in Byte : WriteBtrigr(b)
      BY <2>2, WriteIInv
    <2>3. CASE UNCHANGED vars
      BY <2>3 DEF vars, IInv, TypeOK, Matched, ReadyAfterStrobe, PulseAtStart,
                  InStep, BOOT_READY
    <2>4. QED
      BY <2>1, <2>2, <2>3 DEF Next
  <1>2. QED
    BY <1>1, InitIInv, PTL DEF Spec

\* A second complete sequence in a row always fires.
THEOREM SecondSequence == Spec => []SecondSequenceFires
  <1>1. IInv => SecondSequenceFires
    BY MagicAssumption DEF MagicAssumption, IInv, InStep, SecondSequenceFires, BOOT_READY, TypeOK
  <1>2. QED
    BY <1>1, TriggerInvariant, PTL

\* The bootloader is triggered only by the magic sequence.
THEOREM TriggerSound == Spec => PulseOnlyAfterMagic
  <1>1. IInv /\ [Next]_vars => [(~boot_trig_p1 /\ boot_trig_p1') => recent = Magic]_vars
    <2> SUFFICES ASSUME IInv, [Next]_vars, ~boot_trig_p1, boot_trig_p1'
                 PROVE  recent = Magic \/ UNCHANGED vars
      OBVIOUS
    <2>1. CASE Idle
      <3>1. boot_state = N
        BY <2>1 DEF Idle, BOOT_READY
      <3>2. \A i \in 1 .. N : recent[i] = Magic[i]
        BY <3>1, MagicAssumption DEF MagicAssumption, IInv, Matched
      <3>3. recent \in [1 .. N -> Byte \cup {NoByte}] /\ Magic \in [1 .. N -> Byte]
        BY MagicAssumption DEF MagicAssumption, IInv, TypeOK
      <3>4. /\ recent = [i \in 1 .. N |-> recent[i]]
            /\ Magic = [i \in 1 .. N |-> Magic[i]]
        BY <3>3
      <3>5. QED
        BY <3>2, <3>4, Zenon
    <2>2. CASE \E b \in Byte : WriteBtrigr(b)
      BY <2>2 DEF WriteBtrigr
    <2>3. QED
      BY <2>1, <2>2 DEF Next
  <1>2. QED
    BY <1>1, TriggerInvariant, PTL DEF Spec, PulseOnlyAfterMagic
=============================================================================
