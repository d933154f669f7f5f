--------------------------- MODULE SvecDriverProofs ---------------------------
(***************************************************************************)
(* Proofs about SvecDriver: who holds the device_lock, what there is of an *)
(* instance at which time, and that operations which do not overlap never  *)
(* crash the kernel.                                                       *)
(***************************************************************************)
EXTENDS SvecDriver, TLAPS

\* The part of svec_fpga_init that runs once the memory is there.
InitSteps == {"init_device", "init_vic", "init_devices", "init_fmc", "init_app"}

\* The part of svec_fpga_exit that runs if the pointer was set.
DetachSteps == ExitSteps \ {"exit"}

\* What svec_fpga_exit undoes without asking whether it is there.
Needed == {"fmc", "device", "map"}

\* a is in the driver core's hands: in svec_probe or svec_remove.
Holding(a) ==
  \/ pc[a] \in ProbeSteps \cup RemoveSteps
  \/ pc[a] \in ExitSteps /\ ret[a] = "remove"

\* Who may be where, and who holds the two locks.
LockInv ==
  /\ \A a \in Actors : lock = a <=> Holding(a)
  /\ \A w \in Writers : /\ mtx = w <=> pc[w] = "loading"
                        /\ pc[w] \notin ProbeSteps \cup {"reading"}
  /\ pc[Admin] \notin StoreSteps \cup {"reading"}
  /\ pc[Admin] \in ExitSteps => ret[Admin] = "remove"
  /\ pc[Reader] \in {"idle", "reading"}

\* The instance exists from svec_probe to the end of svec_remove.
InstanceInv ==
  /\ bound \/ lock # NoOne => svec = "live"
  /\ ~bound /\ lock = NoOne => svec # "live" /\ dev = {} /\ attr # "present"
  /\ pc[Admin] \in ProbeSteps => ~bound /\ ~svec_fpga
  /\ pc[Admin] = "register" => dev = {} /\ attr # "present"
  /\ svec = "none" => AllIdle
  /\ \A a \in Actors : pc[a] \in {"drop_wait", "drop"} => attr # "present"

\* What svec_fpga_init has registered so far, and what it needs for the rest.
InitInv ==
  /\ pc[Admin] \in InitSteps => fpga = "live" /\ "map" \in res
  /\ pc[Admin] = "init_device" => res \subseteq Leftovers \cup {"map"}
  /\ pc[Admin] \in InitSteps \ {"init_device"} => "device" \in res
  /\ \A i \in 1 .. 4 : pc[Admin] = InitLabel[InitOrder[i]] =>
       res \subseteq {"map", "device", "dbg"} \cup {InitOrder[j] : j \in 1 .. i - 1}
  /\ pc[Admin] = "init_app" => "fmc" \in res
  /\ pc[Admin] \in {"init_device", "init_vic"} => meta \in {"svec", "novic"}
  /\ pc[Admin] = "init_devices" => "vic" \in res \/ meta = "novic"

\* Without the pointer there are only leftovers, and svec_fpga_exit removes one
\* thing after the other for whoever runs it.
ResInv ==
  /\ ~svec_fpga /\ pc[Admin] \notin InitSteps => res \subseteq Leftovers
  /\ ~bound /\ lock = NoOne => res \subseteq Leftovers
  /\ \A a \in Actors :
       /\ pc[a] \in RemoveSteps => res \subseteq Leftovers
       /\ pc[a] \in DetachSteps => pc[Admin] \notin ProbeSteps
       /\ \A i \in 1 .. 7 : pc[a] = ExitOrder[i] =>
            res \cap {ExitOrder[j] : j \in 1 .. i - 1} = {}
       /\ pc[a] \in {"free", "clear"} => res = {}

\* Operations that wait for each other: there is one at a time, and it finds
\* what it uses.
Alone == \A a, b \in Actors : pc[a] # "idle" /\ pc[b] # "idle" => a = b

Attached ==
  /\ \/ \E a \in Actors : pc[a] \in DetachSteps
     \/ ~svec_fpga
     \/ fpga = "live" /\ Needed \subseteq res
  /\ \A a \in Actors :
       /\ \A i \in 1 .. 7 : pc[a] = ExitOrder[i] =>
            fpga = "live" /\ Needed \cap {ExitOrder[j] : j \in i .. 7} \subseteq res
       /\ pc[a] = "free" => fpga = "live"
  /\ \A w \in Writers : pc[w] # "idle" => svec = "live"
  /\ pc[Reader] = "reading" => svec_fpga

InTurnInv ==
  /\ ~overlapped /\ meta # "novic" => ~crashed
  /\ ~overlapped => Alone /\ \A w \in Writers : pc[w] \in StoreSteps => ~svec_fpga
  /\ ~overlapped /\ ~crashed => Attached

DriverInv == LockInv /\ InstanceInv /\ InitInv /\ ResInv /\ InTurnInv

-----------------------------------------------------------------------------
(* The two orders, written out.                                            *)

\* svec_fpga_init's order and its labels.
LEMMA InitOrders ==
  /\ Len(InitOrder) = 4
  /\ InitOrder[1] = "vic" /\ InitOrder[2] = "devices"
  /\ InitOrder[3] = "fmc" /\ InitOrder[4] = "app"
  /\ InitLabel[InitOrder[1]] = "init_vic" /\ InitLabel[InitOrder[2]] = "init_devices"
  /\ InitLabel[InitOrder[3]] = "init_fmc" /\ InitLabel[InitOrder[4]] = "init_app"
  /\ ProbeSteps = {"register", "mgr", "init", "init_device", "init_vic",
                   "init_devices", "init_fmc", "init_app"}
<1>1. /\ Len(InitOrder) = 4
      /\ InitOrder[1] = "vic" /\ InitOrder[2] = "devices"
      /\ InitOrder[3] = "fmc" /\ InitOrder[4] = "app"
  BY DEF InitOrder
<1>2. DOMAIN InitLabel = {"vic", "devices", "fmc", "app"}
  BY DEF InitLabel
<1>3. /\ InitLabel["vic"] = "init_vic" /\ InitLabel["devices"] = "init_devices"
      /\ InitLabel["fmc"] = "init_fmc" /\ InitLabel["app"] = "init_app"
  BY DEF InitLabel
<1>4. QED
  BY <1>1, <1>2, <1>3 DEF ProbeSteps

\* svec_fpga_exit's order.
LEMMA ExitOrders ==
  /\ Len(ExitOrder) = 7 /\ DOMAIN ExitOrder = 1 .. 7
  /\ ExitOrder[1] = "app" /\ ExitOrder[2] = "fmc" /\ ExitOrder[3] = "devices"
  /\ ExitOrder[4] = "vic" /\ ExitOrder[5] = "dbg" /\ ExitOrder[6] = "device"
  /\ ExitOrder[7] = "map"
  /\ Resources = {"app", "fmc", "devices", "vic", "dbg", "device", "map"}
<1>1. /\ Len(ExitOrder) = 7 /\ DOMAIN ExitOrder = 1 .. 7
      /\ ExitOrder[1] = "app" /\ ExitOrder[2] = "fmc" /\ ExitOrder[3] = "devices"
      /\ ExitOrder[4] = "vic" /\ ExitOrder[5] = "dbg" /\ ExitOrder[6] = "device"
      /\ ExitOrder[7] = "map"
  BY DEF ExitOrder
<1>2. QED
  BY <1>1 DEF Resources

-----------------------------------------------------------------------------
(* Type correctness, for a few variables at a time.                       *)

Labels == {"idle", "reading"} \cup ProbeSteps \cup ExitSteps \cup StoreSteps
            \cup RemoveSteps

CardType == vdev \in BOOLEAN /\ bound \in BOOLEAN /\ lock \in Actors \cup {NoOne}

SvecType ==
  /\ svec \in {"none", "live", "freed"}
  /\ dev \subseteq {"device", "mgr"}
  /\ attr \in {"absent", "present", "removing", "removed"}
  /\ mtx \in Writers \cup {NoOne}

FpgaType ==
  /\ meta \in Contents
  /\ svec_fpga \in BOOLEAN
  /\ fpga \in {"none", "live", "freed"}
  /\ res \subseteq Resources
  /\ afpga \in Contents \cup {"none"}

HistoryType == leaked \in BOOLEAN /\ crashed \in BOOLEAN /\ overlapped \in BOOLEAN

FlowType == pc \in [Actors -> Labels] /\ ret \in [Actors -> {"load", "remove"}]

\* The parts are TypeOK.
LEMMA TypeParts == TypeOK <=> CardType /\ SvecType /\ FpgaType /\ HistoryType /\ FlowType
  BY Zenon DEF TypeOK, CardType, SvecType, FpgaType, HistoryType, FlowType, Labels

\* The initial states have the right types.
LEMMA InitType == Init => TypeOK
<1> SUFFICES ASSUME Init PROVE TypeOK
  OBVIOUS
<1>1. CardType /\ HistoryType
  BY DEF Init, CardType, HistoryType
<1>2. SvecType
  BY DEF Init, SvecType
<1>3. FpgaType
  BY DEF Init, FpgaType, Contents
<1>4. FlowType
  BY DEF Init, FlowType, Labels
<1>5. QED
  BY <1>1, <1>2, <1>3, <1>4, TypeParts

\* Every label somebody goes to is one of the driver's.
LEMMA GotoType ==
  ASSUME FlowType, NEW a \in Actors, NEW label \in Labels, Goto(a, label)
  PROVE  pc' \in [Actors -> Labels]
  BY DEF FlowType, Goto

\* The labels of svec_fpga_init.
LEMMA InitLabels ==
  /\ {"idle", "register", "mgr", "init", "init_device", "drop_wait", "drop"} \subseteq Labels
  /\ \A i \in 1 .. 4 : InitLabel[InitOrder[i]] \in Labels
  BY InitOrders DEF Labels, RemoveSteps

\* The labels of svec_fpga_exit and of those who call it.
LEMMA ExitLabels ==
  /\ {"idle", "exit", "free", "clear", "load", "remove", "reading"} \cup StoreSteps
       \cup RemoveSteps \subseteq Labels
  /\ \A i \in 1 .. 7 : ExitOrder[i] \in Labels
  BY ExitOrders DEF Labels, ExitSteps, StoreSteps, RemoveSteps

\* svec_probe and svec_fpga_init keep the types.
LEMMA ProbeType ==
  ASSUME TypeOK, Probe
  PROVE  TypeOK'
<1> USE DEF coreVars, svecVars, fpgaVars
<1>1. CardType /\ SvecType /\ FpgaType /\ HistoryType /\ FlowType
  BY TypeParts
<1>2. CardType'
  BY <1>1 DEF CardType, Actors,
       ProbeDevice, FailProbe, ProbeMgr, Unregister, InitMap, InitDevice,
       InitVic, InitDevices, InitFmc, InitApp, Registered, NothingThere, Unwind, Advance,
       EndProbe, Probe
<1>3. SvecType'
  BY <1>1 DEF SvecType,
       ProbeDevice, FailProbe, ProbeMgr, Unregister, InitMap, InitDevice,
       InitVic, InitDevices, InitFmc, InitApp, Registered, NothingThere, Unwind, Advance,
       EndProbe, Probe
<1>4. FpgaType'
  BY <1>1, InitOrders, ExitOrders DEF FpgaType, Contents,
       ProbeDevice, FailProbe, ProbeMgr, Unregister, InitMap, InitDevice,
       InitVic, InitDevices, InitFmc, InitApp, Registered, NothingThere, Unwind, Advance,
       EndProbe, Probe
<1>5. HistoryType'
  BY <1>1 DEF HistoryType,
       ProbeDevice, FailProbe, ProbeMgr, Unregister, InitMap, InitDevice,
       InitVic, InitDevices, InitFmc, InitApp, Registered, NothingThere, Unwind, Advance,
       EndProbe, Probe
<1>6. pc' \in [Actors -> Labels]
  <2>1. ASSUME NEW label \in Labels, Goto(Admin, label) PROVE pc' \in [Actors -> Labels]
    BY <1>1, <2>1, GotoType DEF Actors
  <2>2. ASSUME NEW i \in 1 .. 4, Registered(i) \/ NothingThere(i) \/ Unwind(i)
        PROVE  \E label \in Labels : Goto(Admin, label)
    <3>1. ASSUME Advance(i) PROVE \E label \in Labels : Goto(Admin, label)
      <4>1. i < 4 => i + 1 \in 1 .. 4
        OBVIOUS
      <4>2. QED
        BY <3>1, <4>1, InitLabels, InitOrders DEF Advance, EndProbe
    <3>2. QED
      BY <2>2, <3>1, InitLabels DEF Registered, NothingThere, Unwind, EndProbe
  <2>3. CASE ProbeDevice \/ ProbeMgr \/ InitMap \/ InitDevice
    BY <2>1, <2>3, InitLabels, InitOrders DEF ProbeDevice, FailProbe, ProbeMgr, Unregister,
         InitMap, InitDevice, EndProbe
  <2>4. CASE InitVic \/ InitDevices \/ InitFmc \/ InitApp
    BY <1>1, <2>1, <2>2, <2>4 DEF InitVic, InitDevices, InitFmc, InitApp, FlowType
  <2>5. QED
    BY <2>3, <2>4 DEF Probe
<1>7. ret' \in [Actors -> {"load", "remove"}]
  BY <1>1 DEF FlowType,
       ProbeDevice, FailProbe, ProbeMgr, Unregister, InitMap, InitDevice,
       InitVic, InitDevices, InitFmc, InitApp, Registered, NothingThere, Unwind, Advance,
       EndProbe, Probe
<1>8. FlowType'
  BY <1>6, <1>7 DEF FlowType
<1>9. QED
  BY <1>2, <1>3, <1>4, <1>5, <1>8, Zenon DEF TypeOK, CardType, SvecType, FpgaType,
       HistoryType, FlowType, Labels

\* svec_fpga_exit and svec_remove keep the types.
LEMMA ContinueType ==
  ASSUME TypeOK, NEW a \in Writers \cup {Admin}, Continue(a)
  PROVE  TypeOK'
<1> USE DEF coreVars, svecVars, fpgaVars
<1>1. CardType /\ SvecType /\ FpgaType /\ HistoryType /\ FlowType
  BY TypeParts
<1>2. CardType'
  BY <1>1 DEF CardType, Actors,
       Continue, Exit, BeginExit, ExitStep, ExitFree, ExitClear, Remove, Unregister, Drop,
       CrashIf
<1>3. SvecType'
  BY <1>1 DEF SvecType,
       Continue, Exit, BeginExit, ExitStep, ExitFree, ExitClear, Remove, Unregister, Drop,
       CrashIf
<1>4. FpgaType'
  BY <1>1, InitOrders, ExitOrders DEF FpgaType, Contents,
       Continue, Exit, BeginExit, ExitStep, ExitFree, ExitClear, Remove, Unregister, Drop,
       CrashIf
<1>5. HistoryType'
  BY <1>1 DEF HistoryType,
       Continue, Exit, BeginExit, ExitStep, ExitFree, ExitClear, Remove, Unregister, Drop,
       CrashIf
<1>6. pc' \in [Actors -> Labels]
  <2>1. ASSUME NEW label \in Labels, Goto(a, label) PROVE pc' \in [Actors -> Labels]
    BY <1>1, <2>1, GotoType DEF Actors
  <2>2. ASSUME NEW i \in DOMAIN ExitOrder, ExitStep(a, i)
        PROVE  \E label \in Labels : Goto(a, label)
    <3>1. i < 7 => i + 1 \in 1 .. 7
      BY ExitOrders
    <3>2. QED
      BY <2>2, <3>1, ExitOrders, ExitLabels DEF ExitStep
  <2>3. CASE BeginExit(a) \/ ExitFree(a) \/ ExitClear(a)
    <3>1. ret[a] \in Labels
      BY <1>1, ExitLabels DEF FlowType, Actors
    <3>2. QED
      BY <2>1, <2>3, <3>1, ExitOrders, ExitLabels DEF BeginExit, ExitFree, ExitClear
  <2>4. CASE Remove(a) \/ Drop(a)
    BY <2>1, <2>4, InitLabels DEF Remove, Unregister, Drop
  <2>5. QED
    BY <2>1, <2>2, <2>3, <2>4 DEF Continue, Exit
<1>7. ret' \in [Actors -> {"load", "remove"}]
  BY <1>1 DEF FlowType,
       Continue, Exit, BeginExit, ExitStep, ExitFree, ExitClear, Remove, Unregister, Drop,
       CrashIf
<1>8. FlowType'
  BY <1>6, <1>7 DEF FlowType
<1>9. QED
  BY <1>2, <1>3, <1>4, <1>5, <1>8, Zenon DEF TypeOK, CardType, SvecType, FpgaType,
       HistoryType, FlowType, Labels

\* A store keeps the types.
LEMMA StoreType ==
  ASSUME TypeOK, NEW w \in Writers, ContinueStore(w)
  PROVE  TypeOK'
<1> USE DEF coreVars, svecVars, fpgaVars
<1>1. CardType /\ SvecType /\ FpgaType /\ HistoryType /\ FlowType
  BY TypeParts
<1>2. CardType'
  BY <1>1 DEF CardType, Actors,
       ContinueStore, Load, LoadEnd, RemoveSelf, SelfRemoved, NotRemoved, ReadParent,
       VmeUnregister, CrashIf
<1>3. SvecType'
  BY <1>1 DEF SvecType,
       ContinueStore, Load, LoadEnd, RemoveSelf, SelfRemoved, NotRemoved, ReadParent,
       VmeUnregister, CrashIf
<1>4. FpgaType'
  BY <1>1, InitOrders, ExitOrders DEF FpgaType, Contents,
       ContinueStore, Load, LoadEnd, RemoveSelf, SelfRemoved, NotRemoved, ReadParent,
       VmeUnregister, CrashIf
<1>5. HistoryType'
  BY <1>1 DEF HistoryType,
       ContinueStore, Load, LoadEnd, RemoveSelf, SelfRemoved, NotRemoved, ReadParent,
       VmeUnregister, CrashIf
<1>6. pc' \in [Actors -> Labels]
  <2>1. ASSUME NEW label \in Labels, Goto(w, label) PROVE pc' \in [Actors -> Labels]
    BY <1>1, <2>1, GotoType DEF Actors
  <2>2. QED
    BY <2>1, ExitLabels DEF StoreSteps,
       ContinueStore, Load, LoadEnd, RemoveSelf, SelfRemoved, NotRemoved, ReadParent,
       VmeUnregister, CrashIf
<1>7. ret' \in [Actors -> {"load", "remove"}]
  BY <1>1 DEF FlowType,
       ContinueStore, Load, LoadEnd, RemoveSelf, SelfRemoved, NotRemoved, ReadParent,
       VmeUnregister, CrashIf
<1>8. FlowType'
  BY <1>6, <1>7 DEF FlowType
<1>9. QED
  BY <1>2, <1>3, <1>4, <1>5, <1>8, Zenon DEF TypeOK, CardType, SvecType, FpgaType,
       HistoryType, FlowType, Labels

\* What begins keeps the types.
LEMMA BeginType ==
  ASSUME TypeOK, Begin \/ UsePointer
  PROVE  TypeOK'
<1> USE DEF coreVars, svecVars, fpgaVars
<1>1. CardType /\ SvecType /\ FpgaType /\ HistoryType /\ FlowType
  BY TypeParts
<1>2. CardType'
  BY <1>1 DEF CardType, Actors,
       Begin, UsePointer, Rescan, Bind, Unbind, ReadPointer, Store, MayBegin, CrashIf
<1>3. SvecType'
  BY <1>1 DEF SvecType,
       Begin, UsePointer, Rescan, Bind, Unbind, ReadPointer, Store, MayBegin, CrashIf
<1>4. FpgaType'
  BY <1>1, InitOrders, ExitOrders DEF FpgaType, Contents,
       Begin, UsePointer, Rescan, Bind, Unbind, ReadPointer, Store, MayBegin, CrashIf
<1>5. HistoryType'
  BY <1>1 DEF HistoryType,
       Begin, UsePointer, Rescan, Bind, Unbind, ReadPointer, Store, MayBegin, CrashIf
<1>6. pc' \in [Actors -> Labels]
  <2>1. ASSUME NEW a \in Actors, NEW label \in Labels, Goto(a, label)
        PROVE  pc' \in [Actors -> Labels]
    BY <1>1, <2>1, GotoType
  <2>2. QED
    BY <1>1, <2>1, InitLabels, ExitLabels DEF FlowType, Actors,
       Begin, UsePointer, Rescan, Bind, Unbind, ReadPointer, Store, MayBegin, CrashIf
<1>7. ret' \in [Actors -> {"load", "remove"}]
  BY <1>1 DEF FlowType,
       Begin, UsePointer, Rescan, Bind, Unbind, ReadPointer, Store, MayBegin, CrashIf
<1>8. FlowType'
  BY <1>6, <1>7 DEF FlowType
<1>9. QED
  BY <1>2, <1>3, <1>4, <1>5, <1>8, Zenon DEF TypeOK, CardType, SvecType, FpgaType,
       HistoryType, FlowType, Labels

\* Nothing changes.
Same ==
  /\ vdev' = vdev /\ lock' = lock /\ bound' = bound /\ svec' = svec /\ dev' = dev
  /\ attr' = attr /\ mtx' = mtx /\ meta' = meta /\ svec_fpga' = svec_fpga
  /\ fpga' = fpga /\ res' = res /\ leaked' = leaked /\ afpga' = afpga
  /\ pc' = pc /\ ret' = ret /\ crashed' = crashed /\ overlapped' = overlapped

\* A stuttering step, variable by variable.
LEMMA Stutter == UNCHANGED vars => Same
  BY Zenon DEF Same, vars, coreVars, svecVars, fpgaVars

\* TypeOK is an invariant: every state the driver and its callers reach has the
\* types declared for it (svec-core.c, svec-core-fpga.c).
THEOREM TypeCorrect == Spec => []TypeOK
<1>1. ASSUME TypeOK, UNCHANGED vars PROVE TypeOK'
  <2>1. Same /\ CardType /\ SvecType /\ FpgaType /\ HistoryType /\ FlowType
    BY <1>1, Stutter, TypeParts
  <2>2. CardType' /\ SvecType'
    BY <2>1, Zenon DEF Same, CardType, SvecType
  <2>3. FpgaType' /\ HistoryType'
    BY <2>1, Zenon DEF Same, FpgaType, HistoryType
  <2>4. FlowType'
    BY <2>1, Zenon DEF Same, FlowType
  <2>5. QED
    BY <2>2, <2>3, <2>4, Zenon DEF TypeOK, CardType, SvecType, FpgaType, HistoryType,
         FlowType, Labels
<1>2. TypeOK /\ [Next]_vars => TypeOK'
  BY <1>1, ProbeType, ContinueType, StoreType, BeginType DEF Next
<1>3. QED
  BY InitType, <1>2, PTL DEF Spec




-----------------------------------------------------------------------------
(* The invariant of the driver, kept by every step.                        *)

\* A freshly started system, in which the card is not bound.
LEMMA InitDriver == Init => DriverInv
<1> SUFFICES ASSUME Init PROVE DriverInv
  OBVIOUS
<1> USE InitOrders, ExitOrders, SvecDriverAssumption
    DEF Init, Actors, ExitSteps, StoreSteps, RemoveSteps, DetachSteps, InitSteps, AllIdle
<1>1. LockInv
  BY DEF LockInv, Holding
<1>2. InstanceInv
  BY DEF InstanceInv
<1>3. InitInv
  BY DEF InitInv
<1>4. ResInv
  BY DEF ResInv, Leftovers
<1>5. InTurnInv
  BY DEF InTurnInv, Alone, Attached
<1>6. QED
  BY <1>1, <1>2, <1>3, <1>4, <1>5 DEF DriverInv

\* svec_probe and svec_fpga_init keep the invariant.
LEMMA ProbeKeeps ==
  ASSUME TypeOK, TypeOK', DriverInv, ~crashed, Probe
  PROVE  DriverInv'
<1> USE InitOrders, ExitOrders, SvecDriverAssumption
    DEF coreVars, svecVars, fpgaVars, Goto, Actors, ExitSteps, StoreSteps, RemoveSteps,
        InitSteps, DetachSteps, AllIdle, Holding, Leftovers,
        ProbeDevice, FailProbe, ProbeMgr, Unregister, InitMap, InitDevice,
           InitVic, InitDevices, InitFmc, InitApp, Registered, NothingThere, Unwind,
           Advance, EndProbe, Probe
<1>1. CardType /\ HistoryType /\ FlowType /\ svec_fpga' \in BOOLEAN /\ overlapped' \in BOOLEAN
  BY TypeParts DEF TypeOK
<1>2. LockInv /\ InstanceInv /\ InitInv /\ ResInv /\ InTurnInv
  BY DEF DriverInv
<1> USE <1>1, <1>2 DEF CardType, HistoryType, FlowType, LockInv, InstanceInv
<1>3. LockInv'
  OBVIOUS
<1>4. InstanceInv'
  OBVIOUS
<1>5. InitInv'
  BY DEF InitInv, ResInv
<1>6. ResInv'
  BY DEF ResInv, InitInv
<1>7. InTurnInv'
  BY DEF InTurnInv, Alone, Attached, Needed, Guarded, InitInv, ResInv
<1>8. QED
  BY <1>3, <1>4, <1>5, <1>6, <1>7 DEF DriverInv

\* svec_fpga_exit and svec_remove keep it.
LEMMA ContinueKeeps ==
  ASSUME TypeOK, TypeOK', DriverInv, ~crashed, NEW a \in Writers \cup {Admin}, Continue(a)
  PROVE  DriverInv'
<1> USE InitOrders, ExitOrders, SvecDriverAssumption
    DEF coreVars, svecVars, fpgaVars, Goto, Actors, ExitSteps, StoreSteps, RemoveSteps,
        InitSteps, DetachSteps, AllIdle, Holding, Leftovers,
        Continue, Exit, BeginExit, ExitStep, ExitFree, ExitClear, Remove, Unregister,
           Drop, CrashIf
<1>1. CardType /\ HistoryType /\ FlowType /\ svec_fpga' \in BOOLEAN /\ overlapped' \in BOOLEAN
  BY TypeParts DEF TypeOK
<1>2. LockInv /\ InstanceInv /\ InitInv /\ ResInv /\ InTurnInv
  BY DEF DriverInv
<1> USE <1>1, <1>2 DEF CardType, HistoryType, FlowType, LockInv, InstanceInv
<1>3. LockInv'
  OBVIOUS
<1>4. InstanceInv'
  OBVIOUS
<1>5. InitInv'
  BY DEF InitInv, ResInv
<1>6. ResInv'
  <2> USE DEF ResInv, InitInv
  <2>1. /\ (~svec_fpga /\ pc[Admin] \notin InitSteps => res \subseteq Leftovers)'
        /\ (~bound /\ lock = NoOne => res \subseteq Leftovers)'
    OBVIOUS
  <2>2. ASSUME NEW b \in Actors
        PROVE  /\ (pc[b] \in RemoveSteps => res \subseteq Leftovers)'
               /\ (pc[b] \in DetachSteps => pc[Admin] \notin ProbeSteps)'
    OBVIOUS
  <2>3. ASSUME NEW b \in Actors, NEW i \in 1 .. 7
        PROVE  (pc[b] = ExitOrder[i] => res \cap {ExitOrder[j] : j \in 1 .. i - 1} = {})'
    OBVIOUS
  <2>4. ASSUME NEW b \in Actors PROVE (pc[b] \in {"free", "clear"} => res = {})'
    <3>1. ASSUME ExitStep(a, 7) PROVE res' = {}
      <4>1. pc[a] = "map" /\ res \subseteq Resources /\ res' = res \ {"map"}
        BY <3>1 DEF TypeOK
      <4>2. \A j \in 1 .. 6 : ExitOrder[j] \notin res
        BY <4>1
      <4>3. QED
        BY <4>1, <4>2
    <3>2. ASSUME res = {} PROVE res' = {}
      BY <3>2
    <3>3. ASSUME pc'[b] \in {"free", "clear"}, pc[b] \notin {"free", "clear"}
          PROVE  ExitStep(a, 7)
      BY <3>3
    <3>4. QED
      BY <3>1, <3>2, <3>3
  <2>5. QED
    BY <2>1, <2>2, <2>3, <2>4 DEF ResInv
<1>7. InTurnInv'
  BY DEF InTurnInv, Alone, Attached, Needed, Guarded, InitInv, ResInv
<1>8. QED
  BY <1>3, <1>4, <1>5, <1>6, <1>7 DEF DriverInv

\* The rest of a store keeps it.
LEMMA StoreKeeps ==
  ASSUME TypeOK, TypeOK', DriverInv, ~crashed, NEW w \in Writers, ContinueStore(w)
  PROVE  DriverInv'
<1> USE InitOrders, ExitOrders, SvecDriverAssumption
    DEF coreVars, svecVars, fpgaVars, Goto, Actors, ExitSteps, StoreSteps, RemoveSteps,
        InitSteps, DetachSteps, AllIdle, Holding, Leftovers,
        ContinueStore, Load, LoadEnd, RemoveSelf, SelfRemoved, NotRemoved, ReadParent,
           VmeUnregister, CrashIf
<1>1. CardType /\ HistoryType /\ FlowType /\ svec_fpga' \in BOOLEAN /\ overlapped' \in BOOLEAN
  BY TypeParts DEF TypeOK
<1>2. LockInv /\ InstanceInv /\ InitInv /\ ResInv /\ InTurnInv
  BY DEF DriverInv
<1> USE <1>1, <1>2 DEF CardType, HistoryType, FlowType, LockInv, InstanceInv
<1>3. LockInv'
  OBVIOUS
<1>4. InstanceInv'
  OBVIOUS
<1>5. InitInv'
  BY DEF InitInv, ResInv
<1>6. ResInv'
  BY DEF ResInv, InitInv
<1>7. InTurnInv'
  BY DEF InTurnInv, Alone, Attached, Needed, Guarded, InitInv, ResInv
<1>8. QED
  BY <1>3, <1>4, <1>5, <1>6, <1>7 DEF DriverInv

\* What begins keeps it, and so does a reader of the debugfs file.
LEMMA BeginKeeps ==
  ASSUME TypeOK, TypeOK', DriverInv, ~crashed, Begin \/ UsePointer
  PROVE  DriverInv'
<1> USE InitOrders, ExitOrders, SvecDriverAssumption
    DEF coreVars, svecVars, fpgaVars, Goto, Actors, ExitSteps, StoreSteps, RemoveSteps,
        InitSteps, DetachSteps, AllIdle, Holding, Leftovers,
        Begin, UsePointer, Rescan, Bind, Unbind, ReadPointer, Store, MayBegin, CrashIf
<1>1. CardType /\ HistoryType /\ FlowType /\ svec_fpga' \in BOOLEAN /\ overlapped' \in BOOLEAN
  BY TypeParts DEF TypeOK
<1>2. LockInv /\ InstanceInv /\ InitInv /\ ResInv /\ InTurnInv
  BY DEF DriverInv
<1> USE <1>1, <1>2 DEF CardType, HistoryType, FlowType, LockInv, InstanceInv
<1>3. LockInv'
  OBVIOUS
<1>4. InstanceInv'
  OBVIOUS
<1>5. InitInv'
  BY DEF InitInv, ResInv
<1>6. ResInv'
  <2> USE DEF ResInv, InitInv
  <2>1. /\ (~svec_fpga /\ pc[Admin] \notin InitSteps => res \subseteq Leftovers)'
        /\ (~bound /\ lock = NoOne => res \subseteq Leftovers)'
    OBVIOUS
  <2>2. ASSUME NEW b \in Actors
        PROVE  /\ (pc[b] \in RemoveSteps => res \subseteq Leftovers)'
               /\ (pc[b] \in DetachSteps => pc[Admin] \notin ProbeSteps)'
    <3>1. svec \in {"none", "live", "freed"}
      BY DEF TypeOK
    <3>2. QED
      BY <3>1
  <2>3. ASSUME NEW b \in Actors, NEW i \in 1 .. 7
        PROVE  (pc[b] = ExitOrder[i] => res \cap {ExitOrder[j] : j \in 1 .. i - 1} = {})'
    OBVIOUS
  <2>4. ASSUME NEW b \in Actors PROVE (pc[b] \in {"free", "clear"} => res = {})'
    OBVIOUS
  <2>5. QED
    BY <2>1, <2>2, <2>3, <2>4 DEF ResInv
<1>7. InTurnInv'
  BY DEF InTurnInv, Alone, Attached, Needed, Guarded, InitInv, ResInv
<1>8. QED
  BY <1>3, <1>4, <1>5, <1>6, <1>7 DEF DriverInv

\* DriverInv is an invariant: the device_lock, mtx and the pointer in svec_dev
\* guard what svec_probe, svec_remove and firmware_name_store do to an instance,
\* however many writers there are.
THEOREM DriverInvariant == Spec => []DriverInv
<1>1. TypeOK /\ TypeOK' /\ DriverInv /\ Next => DriverInv'
  BY ProbeKeeps, ContinueKeeps, StoreKeeps, BeginKeeps DEF Next
<1>2. DriverInv /\ UNCHANGED vars => DriverInv'
  <2> SUFFICES ASSUME DriverInv, UNCHANGED vars PROVE DriverInv'
    OBVIOUS
  <2>1. Same
    BY Stutter
  <2>2. LockInv'
    BY <2>1, Zenon DEF Same, DriverInv, LockInv, Holding
  <2>3. InstanceInv' /\ InitInv' /\ ResInv'
    BY <2>1, Zenon DEF Same, DriverInv, InstanceInv, AllIdle, InitInv, ResInv, Leftovers
  <2>4. InTurnInv'
    <3>1. (Alone' <=> Alone) /\ (Attached' <=> Attached)
      BY <2>1, Zenon DEF Same, Alone, Attached
    <3>2. QED
      BY <2>1, <3>1, Zenon DEF Same, DriverInv, InTurnInv
  <2>5. QED
    BY <2>2, <2>3, <2>4 DEF DriverInv
<1>3. TypeOK /\ TypeOK' /\ DriverInv /\ [Next]_vars => DriverInv'
  BY <1>1, <1>2
<1>4. QED
  BY InitDriver, TypeCorrect, <1>3, PTL DEF Spec

-----------------------------------------------------------------------------
(* What follows from it.                                                   *)

\* Operations that wait for each other never crash the kernel, unless a bitstream
\* has no VIC (svec_fpga_devices_init reads vic_pdev without asking).
THEOREM NoCrash == Spec => []NoCrashInTurn
<1>1. TypeOK /\ DriverInv => NoCrashInTurn
  BY DEF TypeOK, DriverInv, InTurnInv, NoCrashInTurn
<1>2. QED
  BY TypeCorrect, DriverInvariant, <1>1, PTL

\* While the AFPGA is written in turn, nothing is left of its old contents: "this
\* function must run before re-flashing" (svec_fpga_exit).
THEOREM Detached == Spec => []DetachedInTurn
<1>1. TypeOK /\ DriverInv => DetachedInTurn
  <2> SUFFICES ASSUME TypeOK, DriverInv, ~overlapped, ~leaked,
                      NEW w \in Writers, pc[w] = "loading"
               PROVE  res = {}
    BY DEF DetachedInTurn, DetachedWhileFlashing, Flashing
  <2>1. ~svec_fpga /\ pc[Admin] \notin InitSteps
    <3>1. ~svec_fpga
      BY DEF DriverInv, InTurnInv, StoreSteps
    <3>2. pc[Admin] = "idle"
      BY SvecDriverAssumption DEF DriverInv, InTurnInv, Alone, Actors
    <3>3. QED
      BY <3>1, <3>2 DEF InitSteps
  <2>2. QED
    BY <2>1 DEF DriverInv, ResInv, Leftovers
<1>2. QED
  BY TypeCorrect, DriverInvariant, <1>1, PTL

\* When nobody is at work on a card that is not bound, everything of the instance
\* is gone, whatever overlapped (svec_remove and the error paths of svec_probe).
THEOREM Removed == Spec => []RemovedClean
<1>1. TypeOK /\ DriverInv => RemovedClean
  <2> SUFFICES ASSUME TypeOK, DriverInv, AllIdle, ~bound
               PROVE  dev = {} /\ svec # "live" /\ mtx = NoOne /\ res \subseteq Leftovers
    BY DEF RemovedClean
  <2>1. lock = NoOne /\ mtx = NoOne
    <3>1. lock \in Actors \cup {NoOne} /\ mtx \in Writers \cup {NoOne}
      BY DEF TypeOK
    <3>2. \A a \in Actors : ~Holding(a)
      BY InitOrders, ExitOrders DEF AllIdle, Holding, RemoveSteps, ExitSteps
    <3>3. QED
      BY <3>1, <3>2 DEF AllIdle, DriverInv, LockInv, Actors
  <2>2. QED
    BY <2>1 DEF DriverInv, InstanceInv, ResInv
<1>2. QED
  BY TypeCorrect, DriverInvariant, <1>1, PTL
=============================================================================
