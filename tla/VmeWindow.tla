----------------------------- MODULE VmeWindow -----------------------------
(***************************************************************************)
(* libvmebus.c: how processes map VME space.  To say whether a window may  *)
(* be created or destroyed, the library changes a flag that the vmebus     *)
(* driver keeps for everybody: it saves the flag, sets it, makes its call  *)
(* and restores what it saved, each with an ioctl of its own.              *)
(*                                                                         *)
(* A step is one system call.  Any of them may fail; processes run         *)
(* concurrently and may be killed.  A process uses the old pair of calls   *)
(* (find_controller, return_controller) or the new one (vme_map,           *)
(* vme_unmap), for one mapping at a time.                                  *)
(***************************************************************************)
EXTENDS Naturals, FiniteSets

CONSTANTS
  Proc,      \* the processes
  File,      \* the file descriptions there may be
  Requests,  \* what is mapped: [addr, len]
  Align,     \* find_controller's alignment (64k)
  Slots,     \* windows of the VME bridge
  None

ASSUME VmeWindowAssumption ==
  /\ \A r \in Requests : r.addr \in Nat /\ r.len \in Nat \ {0}
  /\ Align \in Nat \ {0}
  /\ Slots \in Nat
  /\ None \notin Proc

VARIABLES
  create_on_find_fail,  \* the driver's flags
  destroy_on_remove,
  default,     \* what the flags were at first
  windows,     \* the windows of the bridge that are in use
  file,        \* the open files: whose they are, and the window mapped by each
  call,        \* each process: the call it is in, and its descriptor
  api,         \* "vme_map" or "find_controller"
  alone,       \* history: no two calls have overlapped
  clean        \* history: no call was killed, or kept from restoring a flag

driverVars == <<create_on_find_fail, destroy_on_remove, windows>>
constVars == <<default, api>>
vars == <<driverVars, constVars, file, call, alone, clean>>

Window == [base : Nat, size : Nat]
At == {"idle", "open", "get_create", "set_create", "find", "mmap", "restore_create",
       "undo", "munmap", "get_destroy", "set_destroy", "release", "restore_destroy",
       "close", "dma"}

\* The mapping descriptor of a process and the local variables of its call.
Call == [at : At, fd : File \cup {None}, window : Window \cup {None}, held : BOOLEAN,
         request : Requests \cup {None}, force : BOOLEAN, org : BOOLEAN, ok : BOOLEAN]

Fresh == [at |-> "idle", fd |-> None, window |-> None, held |-> FALSE,
          request |-> None, force |-> FALSE, org |-> FALSE, ok |-> TRUE]

Closed == [by |-> None, on |-> None]

TypeOK ==
  /\ create_on_find_fail \in BOOLEAN
  /\ destroy_on_remove \in BOOLEAN
  /\ default \in [create : BOOLEAN, destroy : BOOLEAN]
  /\ windows \subseteq Window
  /\ Cardinality(windows) <= Slots
  /\ file \in [File -> [by : Proc \cup {None}, on : Window \cup {None}]]
  /\ call \in [Proc -> Call]
  /\ api \in [Proc -> {"vme_map", "find_controller"}]
  /\ alone \in BOOLEAN
  /\ clean \in BOOLEAN

Init ==
  /\ default \in [create : BOOLEAN, destroy : BOOLEAN]
  /\ create_on_find_fail = default.create
  /\ destroy_on_remove = default.destroy
  /\ windows = {}
  /\ file = [f \in File |-> Closed]
  /\ call = [p \in Proc |-> Fresh]
  /\ api \in [Proc -> {"vme_map", "find_controller"}]
  /\ alone = TRUE
  /\ clean = TRUE

Goto(p, at) == call' = [call EXCEPT ![p].at = at]

\* The beginning of a call.
Enter(p, c) ==
  /\ call[p].at = "idle"
  /\ call' = [call EXCEPT ![p] = c]
  /\ alone' = (alone /\ \A q \in Proc : call[q].at = "idle")

\* The end of a call that maps nothing, or no more.
Leave(p, ok) == call' = [call EXCEPT ![p] = [Fresh EXCEPT !.ok = ok]]

-----------------------------------------------------------------------------
(* The vmebus driver.                                                      *)

Covers(w, base, size) == w.base <= base /\ base + size <= w.base + w.size

\* Closing a file removes its mapping; whether a window without mappings goes
\* with it is the driver's business.
Close(fds) ==
  /\ file' = [f \in File |-> IF f \in fds THEN Closed ELSE file[f]]
  /\ \E gone \in SUBSET {file[f].on : f \in fds} :
       /\ \A w \in gone : \A f \in File \ fds : file[f].on # w
       /\ windows' = windows \ gone

-----------------------------------------------------------------------------
(* vme_map and find_controller.                                            *)

\* Fault: an aligned number is rounded as well.
WantedTooLow(p) ==
  LET r == call[p].request
      Down(n) == IF api[p] = "find_controller" THEN n - (Align - (n % Align)) ELSE n
  IN [base |-> Down(r.addr), size |-> Down(r.len)]

\* vme_map takes what it is given; find_controller rounds both down.
Wanted(p) ==
  LET r == call[p].request
      Down(n) == IF api[p] = "find_controller" THEN n - (n % Align) ELSE n
  IN [base |-> Down(r.addr), size |-> Down(r.len)]

MapCall(p) ==
  /\ ~call[p].held
  /\ \E r \in Requests, force \in BOOLEAN :
       /\ api[p] = "find_controller" => force
       /\ Enter(p, [Fresh EXCEPT !.at = "open", !.request = r, !.force = force])
  /\ UNCHANGED <<driverVars, constVars, file, clean>>

Open(p, at) ==
  \E f \in File :
    /\ file[f] = Closed
    /\ file' = [file EXCEPT ![f].by = p]
    /\ call' = [call EXCEPT ![p].at = at, ![p].fd = f]

OpenWindow(p) ==
  /\ call[p].at = "open"
  /\ Open(p, "get_create") \/ (Leave(p, FALSE) /\ UNCHANGED file)
  /\ UNCHANGED <<driverVars, constVars, alone, clean>>

\* Fault: nothing is closed.
BailLeaks(p) ==
  /\ UNCHANGED <<file, windows>>
  /\ Leave(p, FALSE)

\* The way out after an error: find_controller forgets the file.
Bail(p) ==
  /\ IF api[p] = "vme_map" THEN Close({call[p].fd}) ELSE UNCHANGED <<file, windows>>
  /\ Leave(p, FALSE)

GetCreate(p) ==
  /\ call[p].at = "get_create"
  /\ \/ /\ call' = [call EXCEPT ![p].org = create_on_find_fail, ![p].at = "set_create"]
        /\ UNCHANGED <<file, windows>>
     \/ Bail(p)
  /\ UNCHANGED <<create_on_find_fail, destroy_on_remove, constVars, alone, clean>>

\* Fault: the flag is only ever set.
SetCreateTrue(p) ==
  /\ call[p].at = "set_create"
  /\ \/ /\ create_on_find_fail' = TRUE
        /\ Goto(p, "find")
        /\ UNCHANGED <<file, windows>>
     \/ Bail(p) /\ UNCHANGED create_on_find_fail
  /\ UNCHANGED <<destroy_on_remove, constVars, alone, clean>>

SetCreate(p) ==
  /\ call[p].at = "set_create"
  /\ \/ /\ create_on_find_fail' = call[p].force
        /\ Goto(p, "find")
        /\ UNCHANGED <<file, windows>>
     \/ Bail(p) /\ UNCHANGED create_on_find_fail
  /\ UNCHANGED <<destroy_on_remove, constVars, alone, clean>>

\* The driver finds a window that covers the area, or creates one.
FindMapping(p) ==
  /\ call[p].at = "find"
  /\ LET area == Wanted(p)
         fits == {w \in windows : Covers(w, area.base, area.size)}
         Map(w) ==
           /\ file' = [file EXCEPT ![call[p].fd].on = w]
           /\ call' = [call EXCEPT ![p].window = w, ![p].at = "mmap"]
     IN \/ \E w \in fits : Map(w) /\ UNCHANGED windows
        \/ /\ fits = {}
           /\ create_on_find_fail
           /\ Cardinality(windows) < Slots
           /\ Map(area)
           /\ windows' = windows \cup {area}
        \/ Goto(p, "undo") /\ UNCHANGED <<file, windows>>
  /\ UNCHANGED <<create_on_find_fail, destroy_on_remove, constVars, alone, clean>>

Mmap(p) ==
  /\ call[p].at = "mmap"
  /\ Goto(p, "restore_create") \/ Goto(p, "undo")
  /\ UNCHANGED <<driverVars, constVars, file, alone, clean>>

\* The result of this ioctl is ignored.
PutBackCreate(p) ==
  \/ create_on_find_fail' = call[p].org /\ clean' = clean
  \/ create_on_find_fail' = create_on_find_fail /\ clean' = FALSE

\* The end of a call that maps: the descriptor is the caller's.
Holding(c) == [c EXCEPT !.at = "idle", !.held = TRUE, !.force = FALSE, !.org = FALSE]

\* Fault: the file is closed as soon as its window is mapped.
RestoreAndClose(p) ==
  /\ call[p].at = "restore_create"
  /\ PutBackCreate(p)
  /\ call' = [call EXCEPT ![p] = Holding(@)]
  /\ Close({call[p].fd})
  /\ UNCHANGED <<destroy_on_remove, constVars, alone>>

RestoreCreate(p) ==
  /\ call[p].at = "restore_create"
  /\ PutBackCreate(p)
  /\ call' = [call EXCEPT ![p] = Holding(@)]
  /\ UNCHANGED <<destroy_on_remove, windows, constVars, file, alone>>

\* Fault: the flag is restored after a success only.
UndoWithoutFlag(p) ==
  /\ call[p].at = "undo"
  /\ Bail(p)
  /\ UNCHANGED <<create_on_find_fail, destroy_on_remove, constVars, alone, clean>>

Undo(p) ==
  /\ call[p].at = "undo"
  /\ PutBackCreate(p)
  /\ Bail(p)
  /\ UNCHANGED <<destroy_on_remove, constVars, alone>>

-----------------------------------------------------------------------------
(* vme_unmap and return_controller, which goes on after every error.       *)

UnmapCall(p) ==
  /\ call[p].held
  /\ \E force \in BOOLEAN :
       /\ api[p] = "find_controller" => force
       /\ Enter(p, [call[p] EXCEPT !.at = "munmap", !.force = force])
  /\ UNCHANGED <<driverVars, constVars, file, clean>>

Munmap(p) ==
  /\ call[p].at = "munmap"
  /\ \E ok \in BOOLEAN :
       call' = [call EXCEPT ![p].ok = ok,
                            ![p].at = IF call[p].force THEN "get_destroy" ELSE "release"]
  /\ UNCHANGED <<driverVars, constVars, file, alone, clean>>

\* A flag that could not be read has any value.
GetDestroy(p) ==
  /\ call[p].at = "get_destroy"
  /\ \/ call' = [call EXCEPT ![p].org = destroy_on_remove, ![p].at = "set_destroy"]
        /\ clean' = clean
     \/ \E org \in BOOLEAN :
          call' = [call EXCEPT ![p].org = org, ![p].at = "set_destroy"]
        /\ clean' = FALSE
  /\ UNCHANGED <<driverVars, constVars, file, alone>>

SetDestroy(p) ==
  /\ call[p].at = "set_destroy"
  /\ destroy_on_remove' \in {TRUE, destroy_on_remove}
  /\ Goto(p, "release")
  /\ UNCHANGED <<create_on_find_fail, windows, constVars, file, alone, clean>>

Release(p) ==
  /\ call[p].at = "release"
  /\ LET next == IF call[p].force THEN "restore_destroy" ELSE "close"
         f == call[p].fd
         others == \E g \in File \ {f} : file[g].on = call[p].window
     IN \/ /\ file' = [file EXCEPT ![f].on = None]
           /\ windows' = IF destroy_on_remove /\ ~others
                         THEN windows \ {call[p].window} ELSE windows
           /\ Goto(p, next)
        \/ /\ call' = [call EXCEPT ![p].ok = FALSE, ![p].at = next]
           /\ UNCHANGED <<file, windows>>
  /\ UNCHANGED <<create_on_find_fail, destroy_on_remove, constVars, alone, clean>>

RestoreDestroy(p) ==
  /\ call[p].at = "restore_destroy"
  /\ \/ destroy_on_remove' = call[p].org /\ clean' = clean
     \/ destroy_on_remove' = destroy_on_remove /\ clean' = FALSE
  /\ Goto(p, "close")
  /\ UNCHANGED <<create_on_find_fail, windows, constVars, file, alone>>

CloseWindow(p) ==
  /\ call[p].at = "close"
  /\ Close({call[p].fd})
  /\ Leave(p, call[p].ok)
  /\ UNCHANGED <<create_on_find_fail, destroy_on_remove, constVars, alone, clean>>

-----------------------------------------------------------------------------
\* vme_dma_read and vme_dma_write, by a process that has nothing mapped.
DmaCall(p) ==
  /\ ~call[p].held
  /\ call[p].at = "idle"
  /\ Open(p, "dma")
  /\ alone' = (alone /\ \A q \in Proc : call[q].at = "idle")
  /\ UNCHANGED <<driverVars, constVars, clean>>

DmaEnd(p) ==
  /\ call[p].at = "dma"
  /\ Close({call[p].fd})
  /\ \E ok \in BOOLEAN : Leave(p, ok)
  /\ UNCHANGED <<create_on_find_fail, destroy_on_remove, constVars, alone, clean>>

\* A process ends, by itself or not: its files are closed, no flag is restored.
Exit(p) ==
  /\ Close({f \in File : file[f].by = p})
  /\ call' = [call EXCEPT ![p] = Fresh]
  /\ clean' = (clean /\ call[p].at = "idle")
  /\ UNCHANGED <<create_on_find_fail, destroy_on_remove, constVars, alone>>

\* find_controller and vme_map, return_controller and vme_unmap.
MapSteps(p) ==
  \/ OpenWindow(p) \/ GetCreate(p) \/ SetCreate(p) \/ FindMapping(p)
  \/ Mmap(p) \/ RestoreCreate(p) \/ Undo(p)

UnmapSteps(p) ==
  \/ Munmap(p) \/ GetDestroy(p) \/ SetDestroy(p) \/ Release(p)
  \/ RestoreDestroy(p) \/ CloseWindow(p)

Library(p) == MapSteps(p) \/ UnmapSteps(p) \/ DmaEnd(p)

Next == \E p \in Proc : MapCall(p) \/ UnmapCall(p) \/ DmaCall(p) \/ Library(p) \/ Exit(p)

Spec == Init /\ [][Next]_vars

-----------------------------------------------------------------------------
(* Properties.                                                             *)

\* Calls that do not overlap leave the driver's flags as they were, on every
\* way out -- if none is killed half way, and every ioctl that reads or restores
\* a flag succeeds where the library goes on without it.
FlagsRestored ==
  (alone /\ clean /\ \A p \in Proc : call[p].at = "idle")
  => create_on_find_fail = default.create /\ destroy_on_remove = default.destroy

\* Whoever maps with vme_map holds a file only while it has something mapped,
\* whichever system call fails, and so does everybody who only transfers by DMA.
FailedCallHoldsNothing ==
  \A p \in Proc :
    (api[p] = "vme_map" /\ call[p].at = "idle" /\ ~call[p].held)
    => \A f \in File : file[f].by # p

\* What a process has mapped stays mapped until it unmaps it: no other process
\* takes its window away, whatever flags it sets and however their calls
\* interleave.  It covers what was asked for, unless find_controller rounded.
MappedUntilUnmapped ==
  \A p \in Proc :
    (call[p].at = "idle" /\ call[p].held) =>
      LET c == call[p]
          aligned == c.request.addr % Align = 0 /\ c.request.len % Align = 0
      IN /\ file[c.fd] = [by |-> p, on |-> c.window]
         /\ c.window \in windows
         /\ (api[p] = "vme_map" \/ aligned)
              => Covers(c.window, c.request.addr, c.request.len)

\* force is an order: while calls do not overlap, a window is created only by a
\* call with force, even after a call that was killed or could not restore the
\* flag, and even if the driver creates windows by default.
CreatedByForceOnly ==
  [][(alone /\ ~(windows' \subseteq windows))
     => \E p \in Proc : call[p].at = "find" /\ call[p].force]_vars
=============================================================================
