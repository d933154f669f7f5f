------------------------------ MODULE SvecDriver ------------------------------
(***************************************************************************)
(* The life of a driver instance: probe and remove (svec-core.c), what is  *)
(* registered for the AFPGA (svec_fpga_init and svec_fpga_exit in          *)
(* svec-core-fpga.c), and the sysfs attribute firmware_name, whose store   *)
(* writes a new bitstream and then removes the instance that it belongs    *)
(* to.                                                                     *)
(*                                                                         *)
(* Every call that may sleep is a step of its own.  What goes wrong in the *)
(* kernel (memory used or freed after it was freed, a device unregistered  *)
(* twice, a null pointer) is crashed, and nothing happens afterwards.      *)
(***************************************************************************)
EXTENDS Naturals, Sequences

CONSTANTS
  Writers,      \* processes that write to firmware_name
  Admin,        \* the one that binds and unbinds the driver
  Reader,       \* a reader of the debugfs file fpga_device_metadata
  NoOne

\* Of a bitstream: an SVEC base with or without a VIC, or some other design.
Contents == {"svec", "novic", "other"}

Actors == Writers \cup {Admin, Reader}

ASSUME SvecDriverAssumption ==
  /\ NoOne \notin Actors
  /\ Admin \notin Writers /\ Reader \notin Writers /\ Admin # Reader

VARIABLES
  vdev,         \* the VME device exists
  lock,         \* who holds its device_lock
  bound,        \* the driver is bound to it
  svec,         \* the memory of struct svec_dev
  dev,          \* what is registered for it: its device, the FPGA manager
  attr,         \* firmware_name: removing and removed are by the store itself
  mtx,          \* who holds svec->mtx
  meta,         \* svec->meta: the AFPGA's contents when it was looked at
  svec_fpga,    \* the pointer in svec_dev is set
  fpga,         \* the memory of struct svec_fpga
  res,          \* what is mapped or registered for it
  leaked,       \* history: an initialisation failed after device_register
  afpga,        \* the contents of the AFPGA
  pc,           \* where everybody is
  ret,          \* where svec_fpga_exit returns to
  crashed,
  overlapped    \* history: something was begun before another thing was done

coreVars == <<vdev, lock, bound>>
svecVars == <<svec, dev, attr, mtx>>
fpgaVars == <<meta, svec_fpga, fpga, res, leaked>>
vars == <<coreVars, svecVars, fpgaVars, afpga, pc, ret, crashed, overlapped>>

\* The order of svec_fpga_init's last steps, and that of svec_fpga_exit.
InitOrder == <<"vic", "devices", "fmc", "app">>
ExitOrder == <<"app", "fmc", "devices", "vic", "dbg", "device", "map">>
Resources == {ExitOrder[i] : i \in DOMAIN ExitOrder}

InitLabel == [vic |-> "init_vic", devices |-> "init_devices",
              fmc |-> "init_fmc", app |-> "init_app"]
ProbeSteps == {"register", "mgr", "init", "init_device"}
                \cup {InitLabel[r] : r \in DOMAIN InitLabel}
ExitSteps == {"exit", "free", "clear"} \cup Resources
StoreSteps == {"load", "loading", "self", "drain", "loser", "unregister", "vme"}
RemoveSteps == {"remove", "drop_wait", "drop"}

TypeOK ==
  /\ vdev \in BOOLEAN /\ bound \in BOOLEAN
  /\ lock \in Actors \cup {NoOne}
  /\ svec \in {"none", "live", "freed"}
  /\ dev \subseteq {"device", "mgr"}
  /\ attr \in {"absent", "present", "removing", "removed"}
  /\ mtx \in Writers \cup {NoOne}
  /\ meta \in Contents
  /\ svec_fpga \in BOOLEAN
  /\ fpga \in {"none", "live", "freed"}
  /\ res \subseteq Resources
  /\ leaked \in BOOLEAN /\ crashed \in BOOLEAN /\ overlapped \in BOOLEAN
  /\ afpga \in Contents \cup {"none"}
  /\ pc \in [Actors -> {"idle", "reading"} \cup ProbeSteps \cup ExitSteps
                         \cup StoreSteps \cup RemoveSteps]
  /\ ret \in [Actors -> {"load", "remove"}]

Init ==
  /\ vdev = TRUE /\ lock = NoOne /\ bound = FALSE
  /\ svec = "none" /\ dev = {} /\ attr = "absent" /\ mtx = NoOne
  /\ meta = "other" /\ svec_fpga = FALSE /\ fpga = "none" /\ res = {}
  /\ leaked = FALSE
  /\ afpga \in Contents \cup {"none"}
  /\ pc = [a \in Actors |-> "idle"]
  /\ ret = [a \in Actors |-> "load"]
  /\ crashed = FALSE /\ overlapped = FALSE

Goto(a, label) == pc' = [pc EXCEPT ![a] = label]

AllIdle == \A a \in Actors : pc[a] = "idle"

\* Nobody has to wait for the others before beginning something.
MayBegin(a) ==
  /\ pc[a] = "idle"
  /\ overlapped' = (overlapped \/ ~AllIdle)

\* The rest of an action of which a condition makes the kernel crash.
CrashIf(condition) == crashed' = condition

-----------------------------------------------------------------------------
(* svec_probe, called with the device_lock held.                           *)

\* The vmebus driver finds the card again.
Rescan ==
  /\ ~vdev /\ AllIdle
  /\ vdev' = TRUE
  /\ UNCHANGED <<lock, bound, svecVars, fpgaVars, afpga, pc, ret, crashed, overlapped>>

\* Memory is not allocated again while somebody may still use it.
Bind ==
  /\ MayBegin(Admin)
  /\ vdev /\ ~bound /\ lock = NoOne
  /\ svec = "freed" => AllIdle
  /\ lock' = Admin
  /\ svec' = "live"
  /\ svec_fpga' = FALSE
  /\ fpga' = "none"
  /\ Goto(Admin, "register")
  /\ UNCHANGED <<vdev, bound, dev, attr, mtx, meta, res, leaked, afpga, ret, crashed>>

FailProbe ==
  /\ svec' = "freed"
  /\ lock' = NoOne
  /\ Goto(Admin, "idle")

EndProbe ==
  /\ bound' = TRUE
  /\ lock' = NoOne
  /\ Goto(Admin, "idle")

\* device_register: the attribute is there before the FPGA manager is.
ProbeDevice ==
  /\ pc[Admin] = "register"
  /\ \/ /\ dev' = dev \cup {"device"}
        /\ attr' = "present"
        /\ Goto(Admin, "mgr")
        /\ UNCHANGED <<lock, svec>>
     \/ FailProbe /\ UNCHANGED <<dev, attr>>
  /\ UNCHANGED <<vdev, bound, mtx, fpgaVars, afpga, ret, crashed, overlapped>>

\* A store that runs holds a reference to its attribute, which whoever
\* removes the attribute waits for; device_remove_file_self gives it up for as
\* long as it waits.
Holds(w) == pc[w] \notin {"idle", "drain", "loser"}

\* device_unregister of the instance's own device by a: the attribute takes no
\* more stores, and those that run are waited for unless one of them has
\* removed it already.
Unregister(a) ==
  /\ attr' = IF attr = "present" THEN "absent" ELSE attr
  /\ Goto(a, IF attr \in {"present", "removing"} THEN "drop_wait" ELSE "drop")

ProbeMgr ==
  /\ pc[Admin] = "mgr"
  /\ \/ dev' = dev \cup {"mgr"} /\ Goto(Admin, "init") /\ UNCHANGED attr
     \/ Unregister(Admin) /\ UNCHANGED dev
  /\ UNCHANGED <<coreVars, svec, mtx, fpgaVars, afpga, ret, crashed, overlapped>>

-----------------------------------------------------------------------------
(* svec_fpga_init, whose errors svec_probe only reports.                   *)

\* Fault: the metadata are not looked at.
InitMapUnchecked ==
  /\ pc[Admin] = "init"
  /\ meta' = afpga
  /\ fpga' = "live"
  /\ res' = res \cup {"map"}
  /\ Goto(Admin, "init_device")
  /\ UNCHANGED <<coreVars, svecVars, svec_fpga, leaked, afpga, ret, crashed, overlapped>>

\* svec_fpga_is_valid: the metadata are those of an SVEC base.
InitMap ==
  /\ pc[Admin] = "init"
  /\ \/ /\ afpga \in {"svec", "novic"}
        /\ meta' = afpga
        /\ fpga' = "live"
        /\ res' = res \cup {"map"}
        /\ Goto(Admin, "init_device")
        /\ UNCHANGED <<lock, bound>>
     \/ EndProbe /\ UNCHANGED <<meta, fpga, res>>
  /\ UNCHANGED <<vdev, svecVars, svec_fpga, leaked, afpga, ret, crashed, overlapped>>

InitDevice ==
  /\ pc[Admin] = "init_device"
  /\ \/ /\ res' = res \cup {"device", "dbg"}
        /\ Goto(Admin, InitLabel[InitOrder[1]])
        /\ UNCHANGED <<lock, bound, fpga>>
     \/ /\ res' = res \ {"map"}
        /\ fpga' = "freed"
        /\ EndProbe
  /\ UNCHANGED <<vdev, svecVars, meta, svec_fpga, leaked, afpga, ret, crashed, overlapped>>

\* Fault: the failed step's predecessors are not undone.
UnwindNothing(i) ==
  /\ leaked' = TRUE
  /\ EndProbe
  /\ UNCHANGED <<res, svec_fpga, crashed>>

\* err_vic and the labels before it: what was registered after the device is
\* unregistered, but the device itself, its debugfs files, the mapping and the
\* memory stay, and no pointer leads to them.
Unwind(i) ==
  /\ res' = res \ {InitOrder[j] : j \in 1 .. i - 1}
  /\ leaked' = TRUE
  /\ EndProbe
  /\ UNCHANGED <<svec_fpga, crashed>>

Advance(i) ==
  IF i < Len(InitOrder)
    THEN /\ Goto(Admin, InitLabel[InitOrder[i + 1]])
         /\ UNCHANGED <<lock, bound, svec_fpga>>
    ELSE EndProbe /\ svec_fpga' = TRUE

Registered(i) ==
  /\ res' = res \cup {InitOrder[i]}
  /\ Advance(i)
  /\ UNCHANGED <<leaked, crashed>>

NothingThere(i) == Advance(i) /\ UNCHANGED <<res, leaked, crashed>>

InitVic ==
  /\ pc[Admin] = "init_vic"
  /\ \/ meta = "svec" /\ (Registered(1) \/ Unwind(1))
     \/ meta = "novic" /\ NothingThere(1)
  /\ UNCHANGED <<vdev, svecVars, meta, fpga, afpga, ret, overlapped>>

\* The device of the VIC is looked at without asking whether there is one.
InitDevices ==
  /\ pc[Admin] = "init_devices"
  /\ \/ "vic" \in res /\ (Registered(2) \/ Unwind(2))
     \/ /\ "vic" \notin res
        /\ crashed' = TRUE
        /\ UNCHANGED <<lock, bound, svec_fpga, res, leaked, pc>>
  /\ UNCHANGED <<vdev, svecVars, meta, fpga, afpga, ret, overlapped>>

InitFmc ==
  /\ pc[Admin] = "init_fmc"
  /\ Registered(3) \/ Unwind(3)
  /\ UNCHANGED <<vdev, svecVars, meta, fpga, afpga, ret, overlapped>>

InitApp ==
  /\ pc[Admin] = "init_app"
  /\ Registered(4) \/ NothingThere(4) \/ Unwind(4)
  /\ UNCHANGED <<vdev, svecVars, meta, fpga, afpga, ret, overlapped>>

-----------------------------------------------------------------------------
(* svec_fpga_exit, by whoever calls it.                                    *)

BeginExit(a) ==
  /\ pc[a] = "exit"
  /\ Goto(a, IF svec_fpga THEN ExitOrder[1] ELSE ret[a])
  /\ CrashIf(svec = "freed")
  /\ UNCHANGED <<coreVars, svecVars, fpgaVars, afpga, ret, overlapped>>

\* The platform devices are unregistered if the pointers to them are set, and
\* mfd_remove_devices removes what there is; the other calls need what they
\* undo.
Guarded == {"app", "devices", "vic", "dbg"}

ExitStep(a, i) ==
  /\ pc[a] = ExitOrder[i]
  /\ res' = res \ {ExitOrder[i]}
  /\ Goto(a, IF i < Len(ExitOrder) THEN ExitOrder[i + 1] ELSE "free")
  /\ CrashIf(fpga = "freed" \/ ExitOrder[i] \notin res \cup Guarded)
  /\ UNCHANGED <<coreVars, svecVars, meta, svec_fpga, fpga, leaked, afpga, ret, overlapped>>

ExitFree(a) ==
  /\ pc[a] = "free"
  /\ fpga' = "freed"
  /\ Goto(a, "clear")
  /\ CrashIf(fpga = "freed")
  /\ UNCHANGED <<coreVars, svecVars, meta, svec_fpga, res, leaked, afpga, ret, overlapped>>

\* Fault: the pointer is kept.
KeepPointer(a) ==
  /\ pc[a] = "clear"
  /\ Goto(a, ret[a])
  /\ CrashIf(svec = "freed")
  /\ UNCHANGED <<coreVars, svecVars, fpgaVars, afpga, ret, overlapped>>

ExitClear(a) ==
  /\ pc[a] = "clear"
  /\ svec_fpga' = FALSE
  /\ Goto(a, ret[a])
  /\ CrashIf(svec = "freed")
  /\ UNCHANGED <<coreVars, svecVars, meta, fpga, res, leaked, afpga, ret, overlapped>>

-----------------------------------------------------------------------------
(* svec_remove.                                                            *)

Unbind ==
  /\ MayBegin(Admin)
  /\ bound /\ lock = NoOne
  /\ lock' = Admin
  /\ Goto(Admin, "exit")
  /\ ret' = [ret EXCEPT ![Admin] = "remove"]
  /\ UNCHANGED <<vdev, bound, svecVars, fpgaVars, afpga, crashed>>

\* svec_dbg_exit waits for the file's readers.
Remove(a) ==
  /\ pc[a] = "remove"
  /\ pc[Reader] = "idle"
  /\ dev' = dev \ {"mgr"}
  /\ Unregister(a)
  /\ UNCHANGED <<coreVars, svec, mtx, fpgaVars, afpga, ret, crashed, overlapped>>

\* The end of device_unregister, and kfree.  The VME device goes with the driver
\* if it was vme_unregister_device that unbound it.
Drop(a) ==
  /\ \/ pc[a] = "drop"
     \/ pc[a] = "drop_wait" /\ \A w \in Writers : ~Holds(w)
  /\ dev' = {}
  /\ svec' = "freed"
  /\ bound' = FALSE
  /\ lock' = NoOne
  /\ vdev' = (vdev /\ a \notin Writers)
  /\ Goto(a, "idle")
  /\ UNCHANGED <<attr, mtx, fpgaVars, afpga, ret, crashed, overlapped>>

-----------------------------------------------------------------------------
(* firmware_name_store.                                                    *)

\* Fault: what is registered for the AFPGA stays.
StoreWithoutExit(w) ==
  /\ MayBegin(w)
  /\ attr = "present"
  /\ Goto(w, "load")
  /\ UNCHANGED <<coreVars, svecVars, fpgaVars, afpga, ret, crashed>>

Store(w) ==
  /\ MayBegin(w)
  /\ attr = "present"
  /\ Goto(w, "exit")
  /\ ret' = [ret EXCEPT ![w] = "load"]
  /\ UNCHANGED <<coreVars, svecVars, fpgaVars, afpga, crashed>>

\* compat_svec_fw_load, under mtx: it fails without a manager or a file.
Load(w) ==
  /\ pc[w] = "load"
  /\ mtx = NoOne
  /\ \/ /\ "mgr" \in dev
        /\ mtx' = w
        /\ afpga' = "none"
        /\ Goto(w, "loading")
     \/ Goto(w, "self") /\ UNCHANGED <<mtx, afpga>>
  /\ UNCHANGED <<coreVars, svec, dev, attr, fpgaVars, ret, crashed, overlapped>>

\* The file's contents, or nothing if the download fails.
LoadEnd(w) ==
  /\ pc[w] = "loading"
  /\ afpga' \in Contents \cup {"none"}
  /\ mtx' = NoOne
  /\ Goto(w, "self")
  /\ UNCHANGED <<coreVars, svec, dev, attr, fpgaVars, ret, crashed, overlapped>>

\* Fault: the attribute is not removed first.
RemoveDirectly(w) ==
  /\ pc[w] = "self"
  /\ Goto(w, "unregister")
  /\ UNCHANGED <<coreVars, svecVars, fpgaVars, afpga, ret, crashed, overlapped>>

\* device_remove_file_self succeeds for one store, whatever the load's result.
RemoveSelf(w) ==
  /\ pc[w] = "self"
  /\ \/ /\ attr \in {"present", "absent"}
        /\ attr' = "removing"
        /\ Goto(w, "drain")
     \/ /\ attr \in {"removing", "removed"}
        /\ Goto(w, "loser")
        /\ UNCHANGED attr
  /\ UNCHANGED <<coreVars, svec, dev, mtx, fpgaVars, afpga, ret, crashed, overlapped>>

SelfRemoved(w) ==
  /\ pc[w] = "drain"
  /\ \A v \in Writers : ~Holds(v)
  /\ attr' = "removed"
  /\ Goto(w, "unregister")
  /\ UNCHANGED <<coreVars, svec, dev, mtx, fpgaVars, afpga, ret, crashed, overlapped>>

\* The one for which it fails gets to know when the other store is over, and
\* reports that the instance cannot be removed, by the instance's name.
NotRemoved(w) ==
  /\ pc[w] = "loser"
  /\ \A v \in Writers \ {w} : pc[v] \in {"idle", "loser"}
  /\ Goto(w, "idle")
  /\ CrashIf(svec = "freed")
  /\ UNCHANGED <<coreVars, svecVars, fpgaVars, afpga, ret, overlapped>>

\* vme_unregister_device of the parent, which is read first.
ReadParent(w) ==
  /\ pc[w] = "unregister"
  /\ Goto(w, "vme")
  /\ CrashIf(svec = "freed")
  /\ UNCHANGED <<coreVars, svecVars, fpgaVars, afpga, ret, overlapped>>

VmeUnregister(w) ==
  /\ pc[w] = "vme"
  /\ lock = NoOne
  /\ ret' = [ret EXCEPT ![w] = "remove"]
  /\ IF bound
       THEN lock' = w /\ Goto(w, "exit") /\ UNCHANGED vdev
       ELSE vdev' = FALSE /\ Goto(w, "idle") /\ UNCHANGED lock
  /\ UNCHANGED <<bound, svecVars, fpgaVars, afpga, crashed, overlapped>>

-----------------------------------------------------------------------------
(* svec_dbg_meta: the pointer is tested, and then used.                    *)

ReadPointer ==
  /\ MayBegin(Reader)
  /\ "mgr" \in dev
  /\ svec_fpga
  /\ Goto(Reader, "reading")
  /\ UNCHANGED <<coreVars, svecVars, fpgaVars, afpga, ret, crashed>>

UsePointer ==
  /\ pc[Reader] = "reading"
  /\ Goto(Reader, "idle")
  /\ CrashIf(fpga = "freed")
  /\ UNCHANGED <<coreVars, svecVars, fpgaVars, afpga, ret, overlapped>>

-----------------------------------------------------------------------------
Probe ==
  \/ ProbeDevice \/ ProbeMgr \/ InitMap \/ InitDevice
  \/ InitVic \/ InitDevices \/ InitFmc \/ InitApp

Exit(a) ==
  \/ BeginExit(a) \/ ExitFree(a) \/ ExitClear(a)
  \/ \E i \in DOMAIN ExitOrder : ExitStep(a, i)

Continue(a) == Exit(a) \/ Remove(a) \/ Drop(a)

ContinueStore(w) ==
  \/ Load(w) \/ LoadEnd(w)
  \/ RemoveSelf(w) \/ SelfRemoved(w) \/ NotRemoved(w)
  \/ ReadParent(w) \/ VmeUnregister(w)

Begin ==
  \/ Rescan \/ Bind \/ Unbind \/ ReadPointer
  \/ \E w \in Writers : Store(w)

Next ==
  /\ ~crashed
  /\ \/ Begin \/ Probe \/ UsePointer
     \/ \E a \in Writers \cup {Admin} : Continue(a)
     \/ \E w \in Writers : ContinueStore(w)

Spec == Init /\ [][Next]_vars

\* What was begun goes on: the calls return, and locks are granted.
FairSpec ==
  /\ Spec
  /\ WF_vars(~crashed /\ (Probe \/ UsePointer))
  /\ \A a \in Writers \cup {Admin} : WF_vars(~crashed /\ Continue(a))
  /\ \A w \in Writers : WF_vars(~crashed /\ ContinueStore(w))

-----------------------------------------------------------------------------
Flashing == \E w \in Writers : pc[w] = "loading"

\* Whatever stores, readers and unbinds there are, on a card that is bound nobody
\* uses memory after it was freed, frees or unregisters anything twice, or goes
\* through a null pointer (CHANGELOG.rst, release 1.4.8: "fix kernel crash when
\* programming new bitstream").
ProgrammingIsSafe == crashed => ~bound

\* Nothing of the kind happens, bound or not, if each of them waits for the one
\* before it, whatever steps of an initialisation fail, unless a bitstream has no
\* VIC: then svec_fpga_devices_init goes through the null pointer vic_pdev.
NoCrashInTurn == crashed => overlapped \/ meta = "novic"

\* While an AFPGA is written nothing of what was registered for its old
\* contents is left, as the comment in svec_fpga_exit demands: "this function
\* must run before re-flashing".
DetachedWhileFlashing == Flashing => res = {}

\* The same if nothing overlaps, for cards whose initialisation never failed
\* half way.
DetachedInTurn == ~overlapped /\ ~leaked => DetachedWhileFlashing

\* When nobody is at work on an unbound card everything of the instance is
\* gone, even after overlapping operations that were lucky; what a failed
\* initialisation leaves behind is the AFPGA's device, its debugfs files and the
\* mapping, and never a device below it.
Leftovers == IF leaked THEN {"map", "device", "dbg"} ELSE {}
RemovedClean ==
  AllIdle /\ ~bound /\ ~crashed => /\ dev = {} /\ svec # "live" /\ mtx = NoOne
                                   /\ res \subseteq Leftovers

\* A store ends, and when it does the instance it belonged to is gone, as the
\* comment in firmware_name_store wants: it does not wait for itself.  A store
\* that overlaps other operations need not end.
StoreRemoves ==
  \A w \in Writers :
    (pc[w] = "load") ~> (pc[w] = "idle" /\ ~bound /\ ~vdev) \/ overlapped
=============================================================================
