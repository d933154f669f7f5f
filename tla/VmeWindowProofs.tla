-------------------------- MODULE VmeWindowProofs --------------------------
(***************************************************************************)
(* Proofs about VmeWindow for every number of processes, files and         *)
(* windows: calls that do not overlap restore the driver's flags, and who  *)
(* holds which file and window, whatever the interleaving.                 *)
(***************************************************************************)
EXTENDS VmeWindow, Integers, FiniteSetTheorems, TLAPS

Area == [base : Int, size : Int]

Descriptor == [at : At, fd : File \cup {None}, window : Area \cup {None}, held : BOOLEAN,
               request : Requests \cup {None}, force : BOOLEAN, org : BOOLEAN, ok : BOOLEAN]

\* The types the proof needs.
ShapeInv ==
  /\ create_on_find_fail \in BOOLEAN
  /\ destroy_on_remove \in BOOLEAN
  /\ windows \subseteq Area
  /\ call \in [Proc -> Descriptor]
  /\ \A p \in Proc : call[p].at \in {"open", "get_create", "set_create", "find"}
                       => call[p].request \in Requests

\* Where a call has read a flag, where it has set it, and who is in a call.
CreateRead == {"set_create", "find", "mmap", "restore_create", "undo"}
CreateSet == {"find", "mmap", "restore_create", "undo"}
DestroyRead == {"set_destroy", "release", "restore_destroy"}
DestroySet == {"release", "restore_destroy"}

Idle(p) == call[p].at = "idle"
OneCall == \A p, q \in Proc : ~Idle(p) /\ ~Idle(q) => p = q

\* What a lonely call knows of the flags it will restore, and the flags that no
\* call has set.
FlagsKnown ==
  /\ \A p \in Proc : call[p].at \in CreateRead => call[p].org = default.create
  /\ \A p \in Proc : call[p].at \in DestroyRead /\ call[p].force
                       => call[p].org = default.destroy
  /\ (\A p \in Proc : call[p].at \notin CreateSet) => create_on_find_fail = default.create
  /\ (\A p \in Proc : ~(call[p].at \in DestroySet /\ call[p].force))
       => destroy_on_remove = default.destroy

\* The inductive invariant.
FlagsInv ==
  /\ ShapeInv
  /\ \A p \in Proc : call[p].at \in {"get_destroy", "set_destroy", "restore_destroy"}
                       => call[p].force
  /\ alone => OneCall
  /\ (alone /\ clean) => FlagsKnown

LEMMA InitFlags == Init => FlagsInv
  BY DEF Init, FlagsInv, ShapeInv, OneCall, FlagsKnown, Idle, Fresh, Descriptor, At,
     CreateRead, CreateSet, DestroyRead, DestroySet

-----------------------------------------------------------------------------
(* Beginnings and ends.                                                    *)

\* A call that begins changes no flag.
LEMMA EnterFlags ==
  ASSUME FlagsInv, NEW p \in Proc, Idle(p),
         NEW c \in Descriptor, call' = [call EXCEPT ![p] = c],
         c.at \in {"open", "munmap", "dma"}, c.at = "open" => c.request \in Requests,
         alone' = (alone /\ \A q \in Proc : call[q].at = "idle"),
         windows' \subseteq windows,
         UNCHANGED <<create_on_find_fail, destroy_on_remove, default, clean>>
  PROVE  FlagsInv'
  <1>1. call' \in [Proc -> Descriptor] /\ \A q \in Proc \ {p} : call'[q] = call[q]
    BY DEF FlagsInv, ShapeInv
  <1>2. call'[p] = c
    BY DEF FlagsInv, ShapeInv
  <1>3. ShapeInv'
    BY <1>1, <1>2 DEF FlagsInv, ShapeInv
  <1>4. (alone => OneCall)'
    BY <1>1 DEF OneCall, Idle
  <1>5. ((alone /\ clean) => FlagsKnown)'
    BY <1>1, <1>2 DEF FlagsInv, FlagsKnown, Idle, CreateRead, CreateSet, DestroyRead, DestroySet
  <1>6. QED
    BY <1>1, <1>2, <1>3, <1>4, <1>5 DEF FlagsInv

\* A call that ends where it has set no flag, or has just restored it.
LEMMA LeaveFlags ==
  ASSUME FlagsInv, NEW p \in Proc,
         NEW c \in Descriptor, call' = [call EXCEPT ![p] = c], c.at = "idle",
         windows' \subseteq windows, alone' = alone, default' = default,
         clean' => clean,
         create_on_find_fail' \in BOOLEAN, destroy_on_remove' \in BOOLEAN,
         (alone' /\ clean') =>
           /\ create_on_find_fail' = default.create
           /\ destroy_on_remove' = default.destroy
  PROVE  FlagsInv'
  <1>1. call' \in [Proc -> Descriptor] /\ \A q \in Proc \ {p} : call'[q] = call[q]
    BY DEF FlagsInv, ShapeInv
  <1>2. call'[p] = c
    BY DEF FlagsInv, ShapeInv
  <1>3. ShapeInv'
    BY <1>1, <1>2 DEF FlagsInv, ShapeInv
  <1>4. (alone => OneCall)'
    BY <1>1, <1>2 DEF FlagsInv, OneCall, Idle
  <1>5. ((alone /\ clean) => FlagsKnown)'
    BY <1>1, <1>2 DEF FlagsInv, FlagsKnown, CreateRead, DestroyRead
  <1>6. QED
    BY <1>1, <1>2, <1>3, <1>4, <1>5 DEF FlagsInv

\* In a lonely call that has not set a flag, it is as it was.
LEMMA CreateAsBefore ==
  ASSUME FlagsInv, alone, clean, NEW p \in Proc, ~Idle(p), call[p].at \notin CreateSet
  PROVE  create_on_find_fail = default.create
  <1>1. \A q \in Proc \ {p} : call[q].at = "idle"
    BY DEF FlagsInv, OneCall, Idle
  <1>2. QED
    BY <1>1 DEF FlagsInv, FlagsKnown, CreateSet

LEMMA DestroyAsBefore ==
  ASSUME FlagsInv, alone, clean, NEW p \in Proc, ~Idle(p),
         ~(call[p].at \in DestroySet /\ call[p].force)
  PROVE  destroy_on_remove = default.destroy
  <1>1. \A q \in Proc \ {p} : call[q].at = "idle"
    BY DEF FlagsInv, OneCall, Idle
  <1>2. QED
    BY <1>1 DEF FlagsInv, FlagsKnown, DestroySet

\* Ways out that restore nothing are taken where nothing has been set.
LEMMA BailFlags ==
  ASSUME FlagsInv, NEW p \in Proc, ~Idle(p), NEW ok \in BOOLEAN, Leave(p, ok),
         windows' \subseteq windows,
         alone' = alone, default' = default, clean' = clean,
         UNCHANGED <<create_on_find_fail, destroy_on_remove>>,
         (alone /\ clean) =>
           create_on_find_fail = default.create /\ destroy_on_remove = default.destroy
  PROVE  FlagsInv'
  <1> DEFINE c == [Fresh EXCEPT !.ok = ok]
  <1>1. c \in Descriptor /\ c.at = "idle" /\ call' = [call EXCEPT ![p] = c]
    BY DEF Leave, Fresh, Descriptor, At
  <1> HIDE DEF c
  <1>2. create_on_find_fail \in BOOLEAN /\ destroy_on_remove \in BOOLEAN
    BY DEF FlagsInv, ShapeInv
  <1>3. QED
    BY <1>1, <1>2, LeaveFlags

LEMMA CloseShrinks == ASSUME NEW fds, Close(fds) PROVE windows' \subseteq windows
  BY DEF Close

LEMMA BailShrinks == ASSUME NEW p, Bail(p) PROVE windows' \subseteq windows /\ Leave(p, FALSE)
  BY CloseShrinks DEF Bail

-----------------------------------------------------------------------------
(* Within a call.                                                          *)

\* A step within a lonely call that knows what it will restore.
LEMMA InnerFlags ==
  ASSUME FlagsInv, NEW p \in Proc, ~Idle(p),
         NEW c \in Descriptor, call' = [call EXCEPT ![p] = c], c.at # "idle",
         c.at \in {"open", "get_create", "set_create", "find"} => c.request \in Requests,
         c.at \in {"get_destroy", "set_destroy", "restore_destroy"} => c.force,
         windows' \subseteq Area, alone' = alone, default' = default,
         clean' => clean,
         create_on_find_fail' \in BOOLEAN, destroy_on_remove' \in BOOLEAN,
         (alone /\ clean') =>
           /\ c.at \in CreateRead => c.org = default.create
           /\ c.at \in DestroyRead /\ c.force => c.org = default.destroy
           /\ c.at \in CreateSet \/ create_on_find_fail' = default.create
           /\ (c.at \in DestroySet /\ c.force) \/ destroy_on_remove' = default.destroy
  PROVE  FlagsInv'
  <1>1. call' \in [Proc -> Descriptor] /\ \A q \in Proc \ {p} : call'[q] = call[q]
    BY DEF FlagsInv, ShapeInv
  <1>2. call'[p] = c
    BY DEF FlagsInv, ShapeInv
  <1>3. ShapeInv'
    BY <1>1, <1>2 DEF FlagsInv, ShapeInv
  <1>4. (alone => OneCall)'
    BY <1>1, <1>2 DEF FlagsInv, OneCall, Idle
  <1>5. ((alone /\ clean) => FlagsKnown)'
    <2> SUFFICES ASSUME alone, clean' PROVE FlagsKnown'
      OBVIOUS
    <2>1. \A q \in Proc \ {p} : call'[q].at = "idle"
      BY <1>1 DEF FlagsInv, OneCall, Idle
    <2>2. QED
      BY <1>2, <2>1 DEF FlagsKnown, CreateRead, DestroyRead
  <1>6. QED
    BY <1>1, <1>2, <1>3, <1>4, <1>5 DEF FlagsInv

LEMMA OpenFlags == ASSUME FlagsInv, NEW p \in Proc, OpenWindow(p) PROVE FlagsInv'
  <1> USE DEF OpenWindow, driverVars, constVars
  <1>1. ~Idle(p) /\ call[p] \in Descriptor /\ call[p].at = "open"
    BY DEF FlagsInv, ShapeInv, Idle
  <1>2. (alone /\ clean) => /\ create_on_find_fail = default.create
                            /\ destroy_on_remove = default.destroy
    BY <1>1, CreateAsBefore, DestroyAsBefore DEF CreateSet, DestroySet
  <1>3. CASE Leave(p, FALSE)
    BY <1>1, <1>2, <1>3, BailFlags
  <1>4. CASE Open(p, "get_create")
    <2>1. PICK f \in File : call' = [call EXCEPT ![p].at = "get_create", ![p].fd = f]
      BY <1>4 DEF Open
    <2> DEFINE c == [call[p] EXCEPT !.at = "get_create", !.fd = f]
    <2>2. c \in Descriptor /\ c.at = "get_create" /\ c.request \in Requests
      BY <1>1 DEF Descriptor, At, FlagsInv, ShapeInv
    <2>3. call' = [call EXCEPT ![p] = c]
      BY <2>1
    <2> HIDE DEF c
    <2>4. windows' \subseteq Area /\ create_on_find_fail' \in BOOLEAN
          /\ destroy_on_remove' \in BOOLEAN
      BY DEF FlagsInv, ShapeInv
    <2>5. QED
      BY <1>1, <1>2, <2>2, <2>3, <2>4, InnerFlags
         DEF CreateRead, CreateSet, DestroyRead, DestroySet
  <1>5. QED
    BY <1>3, <1>4

LEMMA GetCreateFlags == ASSUME FlagsInv, NEW p \in Proc, GetCreate(p) PROVE FlagsInv'
  <1> USE DEF GetCreate, constVars
  <1>1. ~Idle(p) /\ call[p] \in Descriptor /\ call[p].at = "get_create"
    BY DEF FlagsInv, ShapeInv, Idle
  <1>2. (alone /\ clean) => /\ create_on_find_fail = default.create
                            /\ destroy_on_remove = default.destroy
    BY <1>1, CreateAsBefore, DestroyAsBefore DEF CreateSet, DestroySet
  <1>3. CASE Bail(p)
    BY <1>1, <1>2, <1>3, BailShrinks, BailFlags
  <1>4. CASE ~Bail(p)
    <2> DEFINE c == [call[p] EXCEPT !.org = create_on_find_fail, !.at = "set_create"]
    <2>1. call' = [call EXCEPT ![p] = c]
      BY <1>4
    <2>2. create_on_find_fail \in BOOLEAN
      BY DEF FlagsInv, ShapeInv
    <2>3. c \in Descriptor /\ c.at = "set_create" /\ c.request \in Requests
          /\ c.org = create_on_find_fail
      BY <1>1, <2>2 DEF Descriptor, At, FlagsInv, ShapeInv
    <2> HIDE DEF c
    <2>4. windows' \subseteq Area /\ create_on_find_fail' \in BOOLEAN
          /\ destroy_on_remove' \in BOOLEAN
      BY <1>4 DEF FlagsInv, ShapeInv
    <2>5. QED
      BY <1>1, <1>2, <2>1, <2>3, <2>4, InnerFlags
         DEF CreateRead, CreateSet, DestroyRead, DestroySet
  <1>5. QED
    BY <1>3, <1>4

LEMMA SetCreateFlags == ASSUME FlagsInv, NEW p \in Proc, SetCreate(p) PROVE FlagsInv'
  <1> USE DEF SetCreate, constVars
  <1>1. ~Idle(p) /\ call[p] \in Descriptor /\ call[p].at = "set_create"
    BY DEF FlagsInv, ShapeInv, Idle
  <1>2. (alone /\ clean) => /\ create_on_find_fail = default.create
                            /\ destroy_on_remove = default.destroy
                            /\ call[p].org = default.create
    BY <1>1, CreateAsBefore, DestroyAsBefore
       DEF CreateSet, DestroySet, FlagsInv, FlagsKnown, CreateRead
  <1>3. CASE Bail(p) /\ UNCHANGED create_on_find_fail
    BY <1>1, <1>2, <1>3, BailShrinks, BailFlags
  <1>4. CASE ~(Bail(p) /\ UNCHANGED create_on_find_fail)
    <2> DEFINE c == [call[p] EXCEPT !.at = "find"]
    <2>1. call' = [call EXCEPT ![p] = c]
      BY <1>4 DEF Goto
    <2>2. c \in Descriptor /\ c.at = "find" /\ c.request \in Requests /\ c.org = call[p].org
      BY <1>1 DEF Descriptor, At, FlagsInv, ShapeInv
    <2> HIDE DEF c
    <2>3. windows' \subseteq Area /\ create_on_find_fail' \in BOOLEAN
          /\ destroy_on_remove' \in BOOLEAN
      BY <1>1, <1>4 DEF FlagsInv, ShapeInv, Descriptor
    <2>4. QED
      BY <1>1, <1>2, <2>1, <2>2, <2>3, InnerFlags
         DEF CreateRead, CreateSet, DestroyRead, DestroySet
  <1>5. QED
    BY <1>3, <1>4

\* What is mapped has integer bounds, rounded or not.
LEMMA WantedIsArea ==
  ASSUME NEW p \in Proc, call[p].request \in Requests
  PROVE  Wanted(p) \in Area
  <1>1. call[p].request.addr \in Nat /\ call[p].request.len \in Nat
    BY VmeWindowAssumption DEF VmeWindowAssumption
  <1>2. \A m \in Nat : m % Align \in Nat
    BY VmeWindowAssumption DEF VmeWindowAssumption
  <1>3. QED
    BY <1>1, <1>2 DEF Wanted, Area

LEMMA FindFlags == ASSUME FlagsInv, NEW p \in Proc, FindMapping(p) PROVE FlagsInv'
  <1> USE DEF constVars
  <1>1. /\ ~Idle(p) /\ call[p] \in Descriptor /\ call[p].at = "find"
        /\ UNCHANGED <<create_on_find_fail, destroy_on_remove, default, alone, clean>>
    BY DEF FlagsInv, ShapeInv, Idle, FindMapping
  <1>2. (alone /\ clean) => destroy_on_remove = default.destroy /\ call[p].org = default.create
    BY <1>1, DestroyAsBefore DEF DestroySet, FlagsInv, FlagsKnown, CreateRead
  <1>3. windows \subseteq Area /\ create_on_find_fail \in BOOLEAN /\ destroy_on_remove \in BOOLEAN
    BY DEF FlagsInv, ShapeInv
  <1>4. ASSUME NEW w \in Area, windows' \subseteq windows \cup {w},
               call' = [call EXCEPT ![p].window = w, ![p].at = "mmap"]
        PROVE  FlagsInv'
    <2> DEFINE c == [call[p] EXCEPT !.window = w, !.at = "mmap"]
    <2>1. c \in Descriptor /\ c.at = "mmap" /\ c.org = call[p].org
          /\ call' = [call EXCEPT ![p] = c]
      BY <1>1, <1>4 DEF Descriptor, At
    <2>2. windows' \subseteq Area
      BY <1>3, <1>4
    <2> HIDE DEF c
    <2>3. QED
      BY <1>1, <1>2, <1>3, <2>1, <2>2, InnerFlags
         DEF CreateRead, CreateSet, DestroyRead, DestroySet
  <1>5. CASE Goto(p, "undo") /\ UNCHANGED <<file, windows>>
    <2> DEFINE c == [call[p] EXCEPT !.at = "undo"]
    <2>1. c \in Descriptor /\ c.at = "undo" /\ c.org = call[p].org
          /\ call' = [call EXCEPT ![p] = c]
      BY <1>1, <1>5 DEF Descriptor, At, Goto
    <2> HIDE DEF c
    <2>2. QED
      BY <1>1, <1>2, <1>3, <1>5, <2>1, InnerFlags
         DEF CreateRead, CreateSet, DestroyRead, DestroySet
  <1>6. CASE ~(Goto(p, "undo") /\ UNCHANGED <<file, windows>>)
    <2>1. PICK w \in windows \cup {Wanted(p)} :
            /\ call' = [call EXCEPT ![p].window = w, ![p].at = "mmap"]
            /\ windows' \subseteq windows \cup {w}
      BY <1>6 DEF FindMapping
    <2>2. Wanted(p) \in Area
      BY <1>1, WantedIsArea DEF FlagsInv, ShapeInv
    <2>3. QED
      BY <1>3, <1>4, <2>1, <2>2
  <1>7. QED
    BY <1>5, <1>6

LEMMA MmapFlags == ASSUME FlagsInv, NEW p \in Proc, Mmap(p) PROVE FlagsInv'
  <1> USE DEF driverVars, constVars
  <1>1. /\ ~Idle(p) /\ call[p] \in Descriptor /\ call[p].at = "mmap"
        /\ UNCHANGED <<create_on_find_fail, destroy_on_remove, windows, default, alone, clean>>
    BY DEF FlagsInv, ShapeInv, Idle, Mmap
  <1>2. (alone /\ clean) => destroy_on_remove = default.destroy /\ call[p].org = default.create
    BY <1>1, DestroyAsBefore DEF DestroySet, FlagsInv, FlagsKnown, CreateRead
  <1>3. windows \subseteq Area /\ create_on_find_fail \in BOOLEAN /\ destroy_on_remove \in BOOLEAN
    BY DEF FlagsInv, ShapeInv
  <1>4. PICK at \in {"restore_create", "undo"} : Goto(p, at)
    BY DEF Mmap
  <1> DEFINE c == [call[p] EXCEPT !.at = at]
  <1>5. c \in Descriptor /\ c.at = at /\ c.org = call[p].org /\ call' = [call EXCEPT ![p] = c]
    BY <1>1, <1>4 DEF Descriptor, At, Goto
  <1> HIDE DEF c
  <1>6. QED
    BY <1>1, <1>2, <1>3, <1>4, <1>5, InnerFlags
       DEF CreateRead, CreateSet, DestroyRead, DestroySet

\* After the restoring ioctl the flag is what it was, or the history says so.
LEMMA RestoredCreate ==
  ASSUME FlagsInv, NEW p \in Proc, call[p].at \in {"restore_create", "undo"}, PutBackCreate(p)
  PROVE  /\ create_on_find_fail' \in BOOLEAN /\ (clean' => clean)
         /\ (alone /\ clean') => create_on_find_fail' = default.create
                                 /\ destroy_on_remove = default.destroy
  <1>1. call[p] \in Descriptor /\ ~Idle(p)
    BY DEF FlagsInv, ShapeInv, Idle
  <1>2. (alone /\ clean) => destroy_on_remove = default.destroy /\ call[p].org = default.create
    BY <1>1, DestroyAsBefore DEF DestroySet, FlagsInv, FlagsKnown, CreateRead
  <1>3. call[p].org \in BOOLEAN /\ create_on_find_fail \in BOOLEAN
    BY <1>1 DEF Descriptor, FlagsInv, ShapeInv
  <1>4. QED
    BY <1>2, <1>3 DEF PutBackCreate

LEMMA RestoreCreateFlags == ASSUME FlagsInv, NEW p \in Proc, RestoreCreate(p) PROVE FlagsInv'
  <1> USE DEF constVars
  <1>1. /\ call[p] \in Descriptor /\ call[p].at = "restore_create" /\ PutBackCreate(p)
        /\ UNCHANGED <<destroy_on_remove, windows, default, alone>>
    BY DEF FlagsInv, ShapeInv, RestoreCreate
  <1>2. destroy_on_remove' \in BOOLEAN
    BY <1>1 DEF FlagsInv, ShapeInv
  <1> DEFINE c == Holding(call[p])
  <1>3. c \in Descriptor /\ c.at = "idle" /\ call' = [call EXCEPT ![p] = c]
    BY <1>1 DEF RestoreCreate, Holding, Descriptor, At, FlagsInv, ShapeInv
  <1> HIDE DEF c
  <1>4. QED
    BY <1>1, <1>2, <1>3, RestoredCreate, LeaveFlags

LEMMA UndoFlags == ASSUME FlagsInv, NEW p \in Proc, Undo(p) PROVE FlagsInv'
  <1> USE DEF constVars
  <1>1. /\ call[p].at = "undo" /\ PutBackCreate(p) /\ Bail(p)
        /\ UNCHANGED <<destroy_on_remove, default, alone>>
    BY DEF Undo
  <1>2. destroy_on_remove' \in BOOLEAN
    BY <1>1 DEF FlagsInv, ShapeInv
  <1> DEFINE c == [Fresh EXCEPT !.ok = FALSE]
  <1>3. c \in Descriptor /\ c.at = "idle" /\ call' = [call EXCEPT ![p] = c]
    BY <1>1, BailShrinks DEF Leave, Fresh, Descriptor, At
  <1> HIDE DEF c
  <1>4. QED
    BY <1>1, <1>2, <1>3, BailShrinks, RestoredCreate, LeaveFlags

LEMMA MunmapFlags == ASSUME FlagsInv, NEW p \in Proc, Munmap(p) PROVE FlagsInv'
  <1> USE DEF driverVars, constVars
  <1>1. /\ ~Idle(p) /\ call[p] \in Descriptor /\ call[p].at = "munmap"
        /\ UNCHANGED <<create_on_find_fail, destroy_on_remove, windows, default, alone, clean>>
    BY DEF FlagsInv, ShapeInv, Idle, Munmap
  <1>2. (alone /\ clean) => /\ create_on_find_fail = default.create
                            /\ destroy_on_remove = default.destroy
    BY <1>1, CreateAsBefore, DestroyAsBefore DEF CreateSet, DestroySet
  <1>3. windows \subseteq Area /\ create_on_find_fail \in BOOLEAN /\ destroy_on_remove \in BOOLEAN
    BY DEF FlagsInv, ShapeInv
  <1>4. PICK ok \in BOOLEAN :
          call' = [call EXCEPT ![p].ok = ok,
                               ![p].at = IF call[p].force THEN "get_destroy" ELSE "release"]
    BY DEF Munmap
  <1> DEFINE c == [call[p] EXCEPT !.ok = ok,
                                  !.at = IF call[p].force THEN "get_destroy" ELSE "release"]
  <1>5. /\ c \in Descriptor /\ c.force = call[p].force
        /\ call' = [call EXCEPT ![p] = c]
        /\ c.at = IF c.force THEN "get_destroy" ELSE "release"
    BY <1>1, <1>4 DEF Descriptor, At
  <1> HIDE DEF c
  <1>6. QED
    BY <1>1, <1>2, <1>3, <1>5, InnerFlags
       DEF CreateRead, CreateSet, DestroyRead, DestroySet

LEMMA GetDestroyFlags == ASSUME FlagsInv, NEW p \in Proc, GetDestroy(p) PROVE FlagsInv'
  <1> USE DEF driverVars, constVars
  <1>1. /\ ~Idle(p) /\ call[p] \in Descriptor /\ call[p].at = "get_destroy" /\ call[p].force
        /\ UNCHANGED <<create_on_find_fail, destroy_on_remove, windows, default, alone>>
    BY DEF FlagsInv, ShapeInv, Idle, GetDestroy
  <1>2. (alone /\ clean) => /\ create_on_find_fail = default.create
                            /\ destroy_on_remove = default.destroy
    BY <1>1, CreateAsBefore, DestroyAsBefore DEF CreateSet, DestroySet
  <1>3. windows \subseteq Area /\ create_on_find_fail \in BOOLEAN /\ destroy_on_remove \in BOOLEAN
    BY DEF FlagsInv, ShapeInv
  <1>4. PICK org \in BOOLEAN :
          /\ call' = [call EXCEPT ![p].org = org, ![p].at = "set_destroy"]
          /\ (clean' = clean /\ org = destroy_on_remove) \/ clean' = FALSE
    BY <1>3 DEF GetDestroy
  <1> DEFINE c == [call[p] EXCEPT !.org = org, !.at = "set_destroy"]
  <1>5. /\ c \in Descriptor /\ c.force /\ c.at = "set_destroy" /\ c.org = org
        /\ call' = [call EXCEPT ![p] = c]
    BY <1>1, <1>4 DEF Descriptor, At
  <1> HIDE DEF c
  <1>6. (clean' => clean) /\ ((alone /\ clean') => c.org = default.destroy)
    BY <1>2, <1>4, <1>5
  <1>7. QED
    BY <1>1, <1>2, <1>3, <1>5, <1>6, InnerFlags
       DEF CreateRead, CreateSet, DestroyRead, DestroySet

LEMMA SetDestroyFlags == ASSUME FlagsInv, NEW p \in Proc, SetDestroy(p) PROVE FlagsInv'
  <1> USE DEF constVars
  <1>1. /\ ~Idle(p) /\ call[p] \in Descriptor /\ call[p].at = "set_destroy" /\ call[p].force
        /\ UNCHANGED <<create_on_find_fail, windows, default, alone>>
        /\ Goto(p, "release")
    BY DEF FlagsInv, ShapeInv, Idle, SetDestroy
  <1>2. destroy_on_remove' \in {TRUE, destroy_on_remove} /\ clean' = clean
    BY DEF SetDestroy
  <1>3. (alone /\ clean) => create_on_find_fail = default.create /\ call[p].org = default.destroy
    BY <1>1, CreateAsBefore DEF CreateSet, FlagsInv, FlagsKnown, DestroyRead
  <1>4. windows \subseteq Area /\ create_on_find_fail \in BOOLEAN /\ destroy_on_remove' \in BOOLEAN
    BY <1>1, <1>2 DEF FlagsInv, ShapeInv
  <1> DEFINE c == [call[p] EXCEPT !.at = "release"]
  <1>5. /\ c \in Descriptor /\ c.force /\ c.at = "release" /\ c.org = call[p].org
        /\ call' = [call EXCEPT ![p] = c]
    BY <1>1 DEF Descriptor, At, Goto
  <1> HIDE DEF c
  <1>6. /\ clean' => clean
        /\ (alone /\ clean') => create_on_find_fail = default.create /\ c.org = default.destroy
    BY <1>2, <1>3, <1>5
  <1>7. QED
    BY <1>1, <1>4, <1>5, <1>6, InnerFlags
       DEF CreateRead, CreateSet, DestroyRead, DestroySet

LEMMA ReleaseFlags == ASSUME FlagsInv, NEW p \in Proc, Release(p) PROVE FlagsInv'
  <1> USE DEF constVars
  <1>1. /\ ~Idle(p) /\ call[p] \in Descriptor /\ call[p].at = "release"
        /\ UNCHANGED <<create_on_find_fail, destroy_on_remove, default, alone, clean>>
        /\ windows' \subseteq windows
    BY DEF FlagsInv, ShapeInv, Idle, Release
  <1>2. (alone /\ clean) =>
          /\ create_on_find_fail = default.create
          /\ IF call[p].force THEN call[p].org = default.destroy
                              ELSE destroy_on_remove = default.destroy
    BY <1>1, CreateAsBefore, DestroyAsBefore DEF CreateSet, FlagsInv, FlagsKnown, DestroyRead
  <1>3. windows' \subseteq Area /\ create_on_find_fail \in BOOLEAN /\ destroy_on_remove \in BOOLEAN
    BY <1>1 DEF FlagsInv, ShapeInv
  <1>4. PICK ok \in BOOLEAN :
          call' = [call EXCEPT ![p].ok = ok,
                               ![p].at = IF call[p].force THEN "restore_destroy" ELSE "close"]
    <2>1. CASE Goto(p, IF call[p].force THEN "restore_destroy" ELSE "close")
      <3>1. call[p].ok \in BOOLEAN
        BY <1>1 DEF Descriptor
      <3>2. [call[p] EXCEPT !.ok = call[p].ok] = call[p]
        BY <1>1 DEF Descriptor
      <3>3. QED
        BY <2>1, <3>1, <3>2 DEF Goto, FlagsInv, ShapeInv
    <2>2. QED
      BY <2>1 DEF Release
  <1> DEFINE c == [call[p] EXCEPT !.ok = ok,
                                  !.at = IF call[p].force THEN "restore_destroy" ELSE "close"]
  <1>5. /\ c \in Descriptor /\ c.force = call[p].force /\ c.org = call[p].org
        /\ c.at = IF c.force THEN "restore_destroy" ELSE "close"
        /\ call' = [call EXCEPT ![p] = c]
    BY <1>1, <1>4 DEF Descriptor, At
  <1> HIDE DEF c
  <1>6. QED
    BY <1>1, <1>2, <1>3, <1>5, InnerFlags
       DEF CreateRead, CreateSet, DestroyRead, DestroySet

LEMMA RestoreDestroyFlags == ASSUME FlagsInv, NEW p \in Proc, RestoreDestroy(p) PROVE FlagsInv'
  <1> USE DEF constVars
  <1>1. /\ ~Idle(p) /\ call[p] \in Descriptor /\ call[p].at = "restore_destroy" /\ call[p].force
        /\ UNCHANGED <<create_on_find_fail, windows, default, alone>>
        /\ Goto(p, "close")
    BY DEF FlagsInv, ShapeInv, Idle, RestoreDestroy
  <1>2. \/ destroy_on_remove' = call[p].org /\ clean' = clean
        \/ destroy_on_remove' = destroy_on_remove /\ clean' = FALSE
    BY DEF RestoreDestroy
  <1>3. (alone /\ clean) => create_on_find_fail = default.create /\ call[p].org = default.destroy
    BY <1>1, CreateAsBefore DEF CreateSet, FlagsInv, FlagsKnown, DestroyRead
  <1>4. windows \subseteq Area /\ create_on_find_fail \in BOOLEAN /\ destroy_on_remove' \in BOOLEAN
    <2>1. call[p].org \in BOOLEAN
      BY <1>1 DEF Descriptor
    <2>2. QED
      BY <1>1, <1>2, <2>1 DEF FlagsInv, ShapeInv
  <1> DEFINE c == [call[p] EXCEPT !.at = "close"]
  <1>5. c \in Descriptor /\ c.at = "close" /\ call' = [call EXCEPT ![p] = c]
    BY <1>1 DEF Descriptor, At, Goto
  <1> HIDE DEF c
  <1>6. /\ clean' => clean
        /\ (alone /\ clean') => /\ create_on_find_fail = default.create
                                 /\ destroy_on_remove' = default.destroy
    BY <1>2, <1>3
  <1>7. QED
    BY <1>1, <1>4, <1>5, <1>6, InnerFlags
       DEF CreateRead, CreateSet, DestroyRead, DestroySet

LEMMA EndFlags == ASSUME FlagsInv, NEW p \in Proc, CloseWindow(p) \/ DmaEnd(p) PROVE FlagsInv'
  <1> USE DEF constVars
  <1>1. /\ ~Idle(p) /\ call[p] \in Descriptor /\ call[p].at \in {"close", "dma"}
        /\ UNCHANGED <<create_on_find_fail, destroy_on_remove, default, alone, clean>>
        /\ windows' \subseteq windows
    BY CloseShrinks DEF FlagsInv, ShapeInv, Idle, CloseWindow, DmaEnd
  <1>2. (alone /\ clean) => /\ create_on_find_fail = default.create
                            /\ destroy_on_remove = default.destroy
    BY <1>1, CreateAsBefore, DestroyAsBefore DEF CreateSet, DestroySet
  <1>3. PICK ok \in BOOLEAN : Leave(p, ok)
    BY <1>1 DEF CloseWindow, DmaEnd, Descriptor
  <1>4. QED
    BY <1>1, <1>2, <1>3, BailFlags

LEMMA ExitFlags == ASSUME FlagsInv, NEW p \in Proc, Exit(p) PROVE FlagsInv'
  <1> USE DEF constVars
  <1>1. /\ UNCHANGED <<create_on_find_fail, destroy_on_remove, default, alone>>
        /\ windows' \subseteq windows
        /\ clean' = (clean /\ Idle(p))
        /\ call' = [call EXCEPT ![p] = Fresh]
    BY CloseShrinks DEF Exit, Idle
  <1>2. create_on_find_fail \in BOOLEAN /\ destroy_on_remove \in BOOLEAN
        /\ call \in [Proc -> Descriptor]
    BY DEF FlagsInv, ShapeInv
  <1>3. Fresh \in Descriptor /\ Fresh.at = "idle"
    BY DEF Fresh, Descriptor, At
  <1>4. CASE ~Idle(p)
    BY <1>1, <1>2, <1>3, <1>4, LeaveFlags
  <1>5. CASE Idle(p)
    <2>1. \A q \in Proc \ {p} : call'[q] = call[q]
      BY <1>1, <1>2
    <2>2. call'[p] = Fresh /\ call' \in [Proc -> Descriptor]
      BY <1>1, <1>2, <1>3
    <2>3. ShapeInv'
      BY <1>1, <1>2, <1>3, <2>1, <2>2 DEF FlagsInv, ShapeInv
    <2>4. (alone => OneCall)'
      BY <1>1, <1>3, <2>1, <2>2 DEF FlagsInv, OneCall, Idle
    <2>5. ((alone /\ clean) => FlagsKnown)'
      BY <1>1, <1>3, <1>5, <2>1, <2>2
         DEF FlagsInv, FlagsKnown, Idle, CreateRead, CreateSet, DestroyRead, DestroySet
    <2>6. QED
      BY <1>3, <2>1, <2>2, <2>3, <2>4, <2>5 DEF FlagsInv
  <1>6. QED
    BY <1>4, <1>5

LEMMA BeginFlags ==
  ASSUME FlagsInv, NEW p \in Proc, MapCall(p) \/ UnmapCall(p) \/ DmaCall(p)
  PROVE  FlagsInv'
  <1> USE DEF driverVars, constVars
  <1>1. /\ Idle(p) /\ call[p] \in Descriptor
        /\ UNCHANGED <<create_on_find_fail, destroy_on_remove, windows, default, clean>>
        /\ alone' = (alone /\ \A q \in Proc : call[q].at = "idle")
    BY DEF FlagsInv, ShapeInv, Idle, MapCall, UnmapCall, DmaCall, Enter
  <1>2. CASE MapCall(p)
    <2>1. PICK r \in Requests, force \in BOOLEAN :
            call' = [call EXCEPT ![p] =
                       [Fresh EXCEPT !.at = "open", !.request = r, !.force = force]]
      BY <1>2 DEF MapCall, Enter
    <2> DEFINE c == [Fresh EXCEPT !.at = "open", !.request = r, !.force = force]
    <2>2. c \in Descriptor /\ c.at = "open" /\ c.request \in Requests
      BY DEF Fresh, Descriptor, At
    <2>3. call' = [call EXCEPT ![p] = c]
      BY <2>1
    <2> HIDE DEF c
    <2>4. QED
      BY <1>1, <2>2, <2>3, EnterFlags
  <1>3. CASE UnmapCall(p)
    <2>1. PICK force \in BOOLEAN :
            call' = [call EXCEPT ![p] = [call[p] EXCEPT !.at = "munmap", !.force = force]]
      BY <1>3 DEF UnmapCall, Enter
    <2> DEFINE c == [call[p] EXCEPT !.at = "munmap", !.force = force]
    <2>2. c \in Descriptor /\ c.at = "munmap"
      BY <1>1 DEF Descriptor, At
    <2>3. call' = [call EXCEPT ![p] = c]
      BY <2>1
    <2> HIDE DEF c
    <2>4. QED
      BY <1>1, <2>2, <2>3, EnterFlags
  <1>4. CASE DmaCall(p)
    <2>1. PICK f \in File : call' = [call EXCEPT ![p].at = "dma", ![p].fd = f]
      BY <1>4 DEF DmaCall, Open
    <2> DEFINE c == [call[p] EXCEPT !.at = "dma", !.fd = f]
    <2>2. c \in Descriptor /\ c.at = "dma"
      BY <1>1 DEF Descriptor, At
    <2>3. call' = [call EXCEPT ![p] = c]
      BY <2>1
    <2> HIDE DEF c
    <2>4. QED
      BY <1>1, <2>2, <2>3, EnterFlags
  <1>5. QED
    BY <1>2, <1>3, <1>4

-----------------------------------------------------------------------------
(* Theorems.                                                               *)

\* The inductive invariant: a lonely call knows what the flags were, and only
\* between its setting and its restoring ioctl are they anything else.
THEOREM FlagsInvariant == Spec => []FlagsInv
  <1>1. FlagsInv /\ [Next]_vars => FlagsInv'
    <2> SUFFICES ASSUME FlagsInv, [Next]_vars PROVE FlagsInv'
      OBVIOUS
    <2>1. CASE UNCHANGED vars
      BY <2>1 DEF vars, driverVars, constVars, FlagsInv, ShapeInv, OneCall, FlagsKnown, Idle
    <2>2. ASSUME NEW p \in Proc, Library(p) PROVE FlagsInv'
      BY <2>2, OpenFlags, GetCreateFlags, SetCreateFlags, FindFlags, MmapFlags,
         RestoreCreateFlags, UndoFlags, MunmapFlags, GetDestroyFlags, SetDestroyFlags,
         ReleaseFlags, RestoreDestroyFlags, EndFlags
         DEF Library, MapSteps, UnmapSteps
    <2>3. QED
      BY <2>1, <2>2, BeginFlags, ExitFlags DEF Next
  <1>2. QED
    BY InitFlags, <1>1, PTL DEF Spec

\* However many processes, files and windows there are, calls that do not
\* overlap leave the driver's flags as they found them, on every way out.
THEOREM FlagsAreRestored == Spec => []FlagsRestored
  <1>1. FlagsInv => FlagsRestored
    BY DEF FlagsInv, FlagsKnown, FlagsRestored, CreateSet, DestroySet
  <1>2. QED
    BY FlagsInvariant, <1>1, PTL

-----------------------------------------------------------------------------
(* Who holds which file and window, whatever the interleaving.             *)

\* Where a process has a file of its own, and where a window is mapped by it.
HasFile(c) == c.at \notin {"idle", "open"} \/ (c.at = "idle" /\ c.held)

Mapping(c) ==
  \/ c.at \in {"mmap", "restore_create", "munmap", "get_destroy", "set_destroy", "release"}
  \/ c.at = "idle" /\ c.held

\* A process that maps what it asked for has asked for an area of this kind.
Exact(p) ==
  \/ api[p] = "vme_map"
  \/ call[p].request.addr % Align = 0 /\ call[p].request.len % Align = 0

Own(p) ==
  /\ HasFile(call[p]) => call[p].fd \in File /\ file[call[p].fd].by = p
  /\ Mapping(call[p]) =>
       /\ file[call[p].fd].on = call[p].window
       /\ call[p].window \in windows
       /\ Exact(p) => Covers(call[p].window, call[p].request.addr, call[p].request.len)
  /\ api[p] = "vme_map" =>
       \A f \in File : file[f].by = p => HasFile(call[p]) /\ call[p].fd = f

FileShape == file \in [File -> [by : Proc \cup {None}, on : Area \cup {None}]]

\* The inductive invariant, next to FlagsInv.
OwnInv ==
  /\ FileShape
  /\ \A p \in Proc : Own(p)

\* What a step of p leaves alone: the calls and files of the others, and the
\* windows that they have mapped.
Confined(p) ==
  /\ \A q \in Proc \ {p} : call'[q] = call[q]
  /\ api' = api
  /\ \A f \in File : file[f].by \notin {p, None} => file'[f] = file[f]
  /\ \A f \in File : file'[f].by = file[f].by \/ file'[f].by \in {p, None}
  /\ \A f \in File : (file[f].by \notin {p, None} /\ file[f].on \in windows)
                       => file[f].on \in windows'

LEMMA InitOwn == Init => OwnInv
  BY VmeWindowAssumption
     DEF Init, OwnInv, FileShape, Own, HasFile, Mapping, Fresh, Closed, VmeWindowAssumption

LEMMA OthersKeep ==
  ASSUME OwnInv, NEW p \in Proc, NEW q \in Proc \ {p}, Confined(p)
  PROVE  Own(q)'
  <1>1. q # None /\ q # p /\ call'[q] = call[q] /\ api'[q] = api[q]
    BY VmeWindowAssumption DEF Confined, VmeWindowAssumption
  <1>2. Own(q)
    BY DEF OwnInv
  <1>3. HasFile(call[q]) => file'[call[q].fd] = file[call[q].fd]
    BY <1>1, <1>2 DEF Own, Confined
  <1>4. Mapping(call[q]) => HasFile(call[q])
    BY DEF Mapping, HasFile
  <1>5. Mapping(call[q]) => call[q].window \in windows'
    BY <1>1, <1>2, <1>4 DEF Own, Confined
  <1>6. \A f \in File : file'[f].by = q => file[f].by = q
    BY <1>1 DEF Confined
  <1>7. QED
    BY <1>1, <1>2, <1>3, <1>4, <1>5, <1>6 DEF Own, Exact

\* So a step has to be looked at from its own process only.
LEMMA StepOwn ==
  ASSUME OwnInv, NEW p \in Proc, Confined(p), Own(p)', FileShape'
  PROVE  OwnInv'
  BY OthersKeep DEF OwnInv

-----------------------------------------------------------------------------
\* A step within a call, which keeps the descriptor and the files.
LEMMA InnerOwn ==
  ASSUME OwnInv, call \in [Proc -> Descriptor], NEW p \in Proc,
         NEW c, call' = [call EXCEPT ![p] = c],
         c.fd = call[p].fd, c.window = call[p].window, c.request = call[p].request,
         HasFile(c) <=> HasFile(call[p]), Mapping(c) => Mapping(call[p]),
         UNCHANGED <<file, api>>, windows \subseteq windows'
  PROVE  OwnInv'
  <1>1. call'[p] = c /\ \A q \in Proc \ {p} : call'[q] = call[q]
    OBVIOUS
  <1>2. Own(p)
    BY DEF OwnInv
  <1>3. Own(p)'
    BY <1>1, <1>2 DEF Own, Exact
  <1>4. Confined(p)
    BY <1>1 DEF Confined
  <1>5. QED
    BY <1>3, <1>4, StepOwn DEF OwnInv, FileShape

\* Closing files of its own takes no window from another process.
LEMMA CloseOwn ==
  ASSUME OwnInv, call \in [Proc -> Descriptor], NEW p \in Proc,
         NEW c, call' = [call EXCEPT ![p] = c], ~HasFile(c), ~Mapping(c), api' = api,
         NEW fds \in SUBSET File, Close(fds), \A f \in fds : file[f].by = p,
         api[p] = "vme_map" => \A f \in File : file[f].by = p => f \in fds
  PROVE  OwnInv'
  <1>1. call'[p] = c /\ \A q \in Proc \ {p} : call'[q] = call[q]
    OBVIOUS
  <1>2. p # None
    BY VmeWindowAssumption DEF VmeWindowAssumption
  <1>3. file' = [f \in File |-> IF f \in fds THEN Closed ELSE file[f]]
    BY DEF Close
  <1>4. FileShape'
    BY <1>3 DEF OwnInv, FileShape, Closed
  <1>5. Own(p)'
    BY <1>1, <1>2, <1>3 DEF Own, Closed
  <1>6. Confined(p)
    <2>1. \A f \in File : (file[f].by \notin {p, None} /\ file[f].on \in windows)
                            => file[f].on \in windows'
      BY DEF Close
    <2>2. QED
      BY <1>1, <1>3, <2>1 DEF Confined, Closed
  <1>7. QED
    BY <1>4, <1>5, <1>6, StepOwn

-----------------------------------------------------------------------------
(* The actions.                                                            *)

\* Steps that change neither the files nor the descriptor.
LEMMA CallStepsOwn ==
  ASSUME OwnInv, ShapeInv, NEW p \in Proc,
         \/ Mmap(p) \/ RestoreCreate(p)
         \/ Munmap(p) \/ GetDestroy(p) \/ SetDestroy(p) \/ RestoreDestroy(p) \/ UnmapCall(p)
         \/ GetCreate(p) /\ ~Bail(p)
         \/ SetCreate(p) /\ ~Bail(p)
         \/ FindMapping(p) /\ Goto(p, "undo") /\ UNCHANGED <<file, windows>>
         \/ Release(p) /\ UNCHANGED <<file, windows>>
  PROVE  OwnInv'
  <1> USE DEF driverVars, constVars
  <1>1. call \in [Proc -> Descriptor]
    BY DEF ShapeInv
  <1>2. call[p] \in Descriptor
    BY <1>1
  <1>3. UNCHANGED <<file, api>> /\ windows \subseteq windows'
    BY DEF Mmap, RestoreCreate, Munmap, GetDestroy, SetDestroy, RestoreDestroy,
           UnmapCall, GetCreate, SetCreate, FindMapping, Release
  <1>4. PICK c : /\ call' = [call EXCEPT ![p] = c]
                 /\ c.fd = call[p].fd /\ c.window = call[p].window
                 /\ c.request = call[p].request
                 /\ HasFile(c) <=> HasFile(call[p])
                 /\ Mapping(c) => Mapping(call[p])
    <2>0. ASSUME NEW at, Goto(p, at)
          PROVE  \E c : /\ call' = [call EXCEPT ![p] = c] /\ c.at = at
                        /\ c.fd = call[p].fd /\ c.window = call[p].window
                        /\ c.request = call[p].request
      <3> DEFINE c == [call[p] EXCEPT !.at = at]
      <3>1. /\ c.at = at /\ c.fd = call[p].fd /\ c.window = call[p].window
            /\ c.request = call[p].request
        BY <1>2 DEF Descriptor
      <3>2. call' = [call EXCEPT ![p] = c]
        BY <2>0 DEF Goto
      <3> HIDE DEF c
      <3>3. QED
        BY <3>1, <3>2
    <2>1. CASE Mmap(p)
      BY <2>0, <2>1 DEF Mmap, HasFile, Mapping
    <2>2. CASE RestoreCreate(p)
      BY <1>2, <2>2 DEF RestoreCreate, Holding, Descriptor, HasFile, Mapping
    <2>3. CASE Munmap(p)
      <3>1. PICK ok \in BOOLEAN :
              call' = [call EXCEPT ![p].ok = ok,
                         ![p].at = IF call[p].force THEN "get_destroy" ELSE "release"]
        BY <2>3 DEF Munmap
      <3> DEFINE c == [call[p] EXCEPT !.ok = ok,
                         !.at = IF call[p].force THEN "get_destroy" ELSE "release"]
      <3>2. /\ call' = [call EXCEPT ![p] = c] /\ call[p].at = "munmap"
            /\ c.at \in {"get_destroy", "release"}
            /\ c.fd = call[p].fd /\ c.window = call[p].window /\ c.request = call[p].request
        BY <1>2, <2>3, <3>1 DEF Munmap, Descriptor
      <3> HIDE DEF c
      <3>3. QED
        BY <3>2 DEF HasFile, Mapping
    <2>4. CASE GetDestroy(p)
      <3>1. PICK org : call' = [call EXCEPT ![p].org = org, ![p].at = "set_destroy"]
        BY <2>4 DEF GetDestroy
      <3> DEFINE c == [call[p] EXCEPT !.org = org, !.at = "set_destroy"]
      <3>2. /\ call' = [call EXCEPT ![p] = c] /\ call[p].at = "get_destroy"
            /\ c.at = "set_destroy"
            /\ c.fd = call[p].fd /\ c.window = call[p].window /\ c.request = call[p].request
        BY <1>2, <2>4, <3>1 DEF GetDestroy, Descriptor
      <3> HIDE DEF c
      <3>3. QED
        BY <3>2 DEF HasFile, Mapping
    <2>5. CASE SetDestroy(p)
      BY <2>0, <2>5 DEF SetDestroy, HasFile, Mapping
    <2>6. CASE RestoreDestroy(p)
      BY <2>0, <2>6 DEF RestoreDestroy, HasFile, Mapping
    <2>7. CASE UnmapCall(p)
      BY <1>2, <2>7 DEF UnmapCall, Enter, Descriptor, HasFile, Mapping
    <2>8. CASE GetCreate(p) /\ ~Bail(p)
      <3> DEFINE c == [call[p] EXCEPT !.org = create_on_find_fail, !.at = "set_create"]
      <3>1. call' = [call EXCEPT ![p] = c] /\ call[p].at = "get_create"
        BY <2>8 DEF GetCreate
      <3>2. c.at = "set_create" /\ c.fd = call[p].fd /\ c.window = call[p].window
            /\ c.request = call[p].request
        BY <1>2 DEF Descriptor
      <3> HIDE DEF c
      <3>3. QED
        BY <2>8, <3>1, <3>2 DEF GetCreate, HasFile, Mapping
    <2>9. CASE SetCreate(p) /\ ~Bail(p)
      BY <2>0, <2>9 DEF SetCreate, HasFile, Mapping
    <2>10. CASE FindMapping(p) /\ Goto(p, "undo") /\ UNCHANGED <<file, windows>>
      BY <2>0, <2>10 DEF FindMapping, HasFile, Mapping
    <2>11. CASE Release(p) /\ UNCHANGED <<file, windows>>
      <3> DEFINE next == IF call[p].force THEN "restore_destroy" ELSE "close"
                 c == [call[p] EXCEPT !.ok = FALSE, !.at = next]
      <3>1. call[p].at = "release" /\ (Goto(p, next) \/ call' = [call EXCEPT ![p] = c])
        BY <2>11 DEF Release
      <3>2. /\ c.at = next /\ c.fd = call[p].fd /\ c.window = call[p].window
            /\ c.request = call[p].request
        BY <1>2 DEF Descriptor
      <3>3. next \in {"restore_destroy", "close"}
        OBVIOUS
      <3> HIDE DEF c, next
      <3>4. QED
        BY <2>0, <3>1, <3>2, <3>3 DEF HasFile, Mapping
    <2>12. QED
      BY <2>1, <2>2, <2>3, <2>4, <2>5, <2>6, <2>7, <2>8, <2>9, <2>10, <2>11
  <1>5. QED
    BY <1>1, <1>3, <1>4, InnerOwn

\* The ways out.
LEMMA BailOwn ==
  ASSUME OwnInv, ShapeInv, NEW p \in Proc, HasFile(call[p]), Bail(p), UNCHANGED api
  PROVE  OwnInv'
  <1>1. call \in [Proc -> Descriptor] /\ Own(p)
    BY DEF ShapeInv, OwnInv
  <1> DEFINE c == [Fresh EXCEPT !.ok = FALSE]
  <1>2. call' = [call EXCEPT ![p] = c] /\ ~HasFile(c) /\ ~Mapping(c)
    BY DEF Bail, Leave, Fresh, HasFile, Mapping
  <1> HIDE DEF c
  <1>3. CASE api[p] = "vme_map"
    <2>1. {call[p].fd} \in SUBSET File /\ Close({call[p].fd})
      BY <1>1, <1>3 DEF Own, Bail
    <2>2. \A f \in {call[p].fd} : file[f].by = p
      BY <1>1 DEF Own
    <2>3. \A f \in File : file[f].by = p => f \in {call[p].fd}
      BY <1>1, <1>3 DEF Own
    <2>4. QED
      BY <1>1, <1>2, <2>1, <2>2, <2>3, CloseOwn
  <1>4. CASE api[p] # "vme_map"
    <2>1. UNCHANGED <<file, windows>>
      BY <1>4 DEF Bail
    <2>2. call'[p] = c /\ \A q \in Proc \ {p} : call'[q] = call[q]
      BY <1>1, <1>2
    <2>3. Own(p)' /\ Confined(p) /\ FileShape'
      BY <1>2, <1>4, <2>1, <2>2 DEF Own, Confined, OwnInv, FileShape
    <2>4. QED
      BY <2>3, StepOwn
  <1>5. QED
    BY <1>3, <1>4

LEMMA CloseWindowOwn ==
  ASSUME OwnInv, ShapeInv, NEW p \in Proc, CloseWindow(p) \/ DmaEnd(p)
  PROVE  OwnInv'
  <1>1. call \in [Proc -> Descriptor] /\ Own(p) /\ HasFile(call[p])
        /\ Close({call[p].fd}) /\ api' = api
    BY DEF ShapeInv, OwnInv, CloseWindow, DmaEnd, HasFile, constVars
  <1>2. PICK ok : Leave(p, ok)
    BY DEF CloseWindow, DmaEnd
  <1> DEFINE c == [Fresh EXCEPT !.ok = ok]
  <1>3. call' = [call EXCEPT ![p] = c] /\ ~HasFile(c) /\ ~Mapping(c)
    BY <1>2 DEF Leave, Fresh, HasFile, Mapping
  <1> HIDE DEF c
  <1>4. {call[p].fd} \in SUBSET File /\ \A f \in {call[p].fd} : file[f].by = p
    BY <1>1 DEF Own
  <1>5. api[p] = "vme_map" => \A f \in File : file[f].by = p => f \in {call[p].fd}
    BY <1>1 DEF Own
  <1>6. QED
    BY <1>1, <1>3, <1>4, <1>5, CloseOwn

LEMMA ExitOwn == ASSUME OwnInv, ShapeInv, NEW p \in Proc, Exit(p) PROVE OwnInv'
  <1>1. call \in [Proc -> Descriptor]
    BY DEF ShapeInv
  <1> DEFINE fds == {f \in File : file[f].by = p}
  <1>2. Close(fds) /\ call' = [call EXCEPT ![p] = Fresh] /\ api' = api
    BY DEF Exit, constVars
  <1>3. ~HasFile(Fresh) /\ ~Mapping(Fresh)
    BY DEF Fresh, HasFile, Mapping
  <1>4. fds \in SUBSET File /\ (\A f \in fds : file[f].by = p)
        /\ \A f \in File : file[f].by = p => f \in fds
    OBVIOUS
  <1> HIDE DEF fds
  <1>5. QED
    BY <1>1, <1>2, <1>3, <1>4, CloseOwn

\* A file that is opened was nobody's.
LEMMA OpenOwn ==
  ASSUME OwnInv, ShapeInv, NEW p \in Proc, ~HasFile(call[p]), UNCHANGED <<api, windows>>,
         NEW at, at \in {"get_create", "dma"}, Open(p, at)
  PROVE  OwnInv'
  <1>1. call \in [Proc -> Descriptor] /\ Own(p)
    BY DEF ShapeInv, OwnInv
  <1>2. PICK f \in File : /\ file[f] = Closed
                          /\ file' = [file EXCEPT ![f].by = p]
                          /\ call' = [call EXCEPT ![p].at = at, ![p].fd = f]
    BY DEF Open
  <1>3. FileShape'
    BY <1>2 DEF OwnInv, FileShape
  <1>4. /\ file'[f].by = p
        /\ \A g \in File \ {f} : file'[g] = file[g]
    BY <1>2 DEF OwnInv, FileShape
  <1>5. call'[p].at = at /\ call'[p].fd = f /\ \A q \in Proc \ {p} : call'[q] = call[q]
    BY <1>1, <1>2 DEF Descriptor
  <1>6. Own(p)'
    BY <1>1, <1>4, <1>5 DEF Own, HasFile, Mapping
  <1>7. Confined(p)
    <2>1. file[f].by = None /\ file'[f].by = p /\ api' = api /\ windows' = windows
      BY <1>2, <1>4 DEF Closed
    <2>2. \A g \in File : g = f \/ file'[g] = file[g]
      BY <1>4
    <2>3. QED
      BY <1>5, <2>1, <2>2 DEF Confined
  <1>8. QED
    BY <1>3, <1>6, <1>7, StepOwn

LEMMA BeginOwn ==
  ASSUME OwnInv, ShapeInv, NEW p \in Proc, MapCall(p) \/ DmaCall(p) \/ OpenWindow(p)
  PROVE  OwnInv'
  <1> USE DEF driverVars, constVars
  <1>1. call \in [Proc -> Descriptor] /\ Own(p)
    BY DEF ShapeInv, OwnInv
  <1>2. ~HasFile(call[p]) /\ UNCHANGED <<api, windows>>
    BY DEF MapCall, DmaCall, OpenWindow, Enter, HasFile
  <1>3. CASE DmaCall(p)
    BY <1>2, <1>3, OpenOwn DEF DmaCall
  <1>4. CASE OpenWindow(p) /\ Open(p, "get_create")
    BY <1>2, <1>4, OpenOwn
  <1>5. ASSUME NEW c, call' = [call EXCEPT ![p] = c], ~HasFile(c), ~Mapping(c), file' = file
        PROVE  OwnInv'
    <2>1. call'[p] = c /\ \A q \in Proc \ {p} : call'[q] = call[q]
      BY <1>1, <1>5
    <2>2. Own(p)' /\ Confined(p) /\ FileShape'
      BY <1>1, <1>2, <1>5, <2>1 DEF Own, Confined, OwnInv, FileShape
    <2>3. QED
      BY <2>2, StepOwn
  <1>6. CASE MapCall(p)
    <2>1. PICK r \in Requests, force \in BOOLEAN :
            call' = [call EXCEPT ![p] =
                       [Fresh EXCEPT !.at = "open", !.request = r, !.force = force]]
      BY <1>6 DEF MapCall, Enter
    <2> DEFINE c == [Fresh EXCEPT !.at = "open", !.request = r, !.force = force]
    <2>2. ~HasFile(c) /\ ~Mapping(c) /\ file' = file
      BY <1>6 DEF Fresh, HasFile, Mapping, MapCall
    <2> HIDE DEF c
    <2>3. QED
      BY <1>5, <2>1, <2>2 DEF c
  <1>7. CASE OpenWindow(p) /\ ~Open(p, "get_create")
    <2> DEFINE c == [Fresh EXCEPT !.ok = FALSE]
    <2>1. call' = [call EXCEPT ![p] = c] /\ ~HasFile(c) /\ ~Mapping(c) /\ file' = file
      BY <1>7 DEF OpenWindow, Leave, Fresh, HasFile, Mapping
    <2> HIDE DEF c
    <2>2. QED
      BY <1>5, <2>1
  <1>8. QED
    BY <1>3, <1>4, <1>6, <1>7

\* What find_mapping returns covers what was asked for, unless it was rounded.
LEMMA WantedCovers ==
  ASSUME ShapeInv, NEW p \in Proc, call[p].request \in Requests, Exact(p),
         NEW w \in Area, Covers(w, Wanted(p).base, Wanted(p).size) \/ w = Wanted(p)
  PROVE  Covers(w, call[p].request.addr, call[p].request.len)
  <1>1. call[p].request.addr \in Nat /\ call[p].request.len \in Nat
    BY VmeWindowAssumption DEF VmeWindowAssumption
  <1>2. Wanted(p) = [base |-> call[p].request.addr, size |-> call[p].request.len]
    BY <1>1 DEF Wanted, Exact
  <1>3. QED
    BY <1>1, <1>2 DEF Covers, Area

\* The driver maps the window by the caller's file and by no other.
LEMMA FindOwn == ASSUME OwnInv, ShapeInv, NEW p \in Proc, FindMapping(p) PROVE OwnInv'
  <1> USE DEF constVars
  <1>1. /\ call \in [Proc -> Descriptor] /\ Own(p) /\ call[p].at = "find" /\ HasFile(call[p])
        /\ call[p].request \in Requests /\ api' = api /\ windows \subseteq Area
    BY DEF ShapeInv, OwnInv, FindMapping, HasFile
  <1>2. CASE Goto(p, "undo") /\ UNCHANGED <<file, windows>>
    BY <1>2, CallStepsOwn
  <1>3. CASE ~(Goto(p, "undo") /\ UNCHANGED <<file, windows>>)
    <2> DEFINE fd == call[p].fd
    <2>1. PICK w : /\ \/ w \in windows /\ windows' = windows
                           /\ Covers(w, Wanted(p).base, Wanted(p).size)
                      \/ w = Wanted(p) /\ windows' = windows \cup {w}
                   /\ file' = [file EXCEPT ![fd].on = w]
                   /\ call' = [call EXCEPT ![p].window = w, ![p].at = "mmap"]
      BY <1>3 DEF FindMapping
    <2>2. w \in Area /\ w \in windows' /\ windows \subseteq windows'
      BY <1>1, <2>1, WantedIsArea
    <2>3. fd \in File /\ file[fd].by = p
      BY <1>1 DEF Own
    <2>4. FileShape'
      BY <2>1, <2>2, <2>3 DEF OwnInv, FileShape
    <2>5. /\ file'[fd].by = p /\ file'[fd].on = w
          /\ \A f \in File \ {fd} : file'[f] = file[f]
      BY <2>1, <2>3 DEF OwnInv, FileShape
    <2>6. /\ call'[p].at = "mmap" /\ call'[p].window = w /\ call'[p].fd = fd
          /\ call'[p].request = call[p].request
          /\ \A q \in Proc \ {p} : call'[q] = call[q]
      BY <1>1, <2>1 DEF Descriptor
    <2> HIDE DEF fd
    <2>7. Exact(p) => Covers(w, call[p].request.addr, call[p].request.len)
      BY <1>1, <2>1, <2>2, WantedCovers
    <2>8. \A f \in File : file'[f].by = p => file[f].by = p
      BY <2>3, <2>5
    <2>9. Own(p)'
      BY <1>1, <2>2, <2>3, <2>5, <2>6, <2>7, <2>8 DEF Own, Exact, HasFile, Mapping, fd
    <2>10. Confined(p)
      BY <1>1, <2>2, <2>3, <2>5, <2>6 DEF Confined
    <2>11. QED
      BY <2>4, <2>9, <2>10, StepOwn
  <1>4. QED
    BY <1>2, <1>3

\* A released window is destroyed only if no other file has it mapped.
LEMMA ReleaseOwn == ASSUME OwnInv, ShapeInv, NEW p \in Proc, Release(p) PROVE OwnInv'
  <1> USE DEF constVars
  <1>1. /\ call \in [Proc -> Descriptor] /\ Own(p) /\ HasFile(call[p]) /\ api' = api
        /\ call[p].at = "release"
    BY DEF ShapeInv, OwnInv, Release, HasFile
  <1>2. CASE UNCHANGED <<file, windows>>
    BY <1>2, CallStepsOwn
  <1>3. CASE ~UNCHANGED <<file, windows>>
    <2> DEFINE fd == call[p].fd
               next == IF call[p].force THEN "restore_destroy" ELSE "close"
    <2>1. /\ file' = [file EXCEPT ![fd].on = None]
          /\ \/ windows' = windows
             \/ /\ windows' = windows \ {call[p].window}
                /\ \A g \in File \ {fd} : file[g].on # call[p].window
          /\ Goto(p, next)
      BY <1>3 DEF Release
    <2>2. fd \in File /\ file[fd].by = p
      BY <1>1 DEF Own
    <2>3. FileShape'
      BY <2>1, <2>2 DEF OwnInv, FileShape
    <2>4. /\ file'[fd].by = p
          /\ \A f \in File \ {fd} : file'[f] = file[f]
      BY <2>1, <2>2 DEF OwnInv, FileShape
    <2>5. /\ call'[p].at = next /\ call'[p].fd = fd
          /\ \A q \in Proc \ {p} : call'[q] = call[q]
      BY <1>1, <2>1 DEF Descriptor, Goto
    <2>6. next \in {"restore_destroy", "close"}
      OBVIOUS
    <2> HIDE DEF fd, next
    <2>7. \A f \in File : file'[f].by = p => file[f].by = p
      BY <2>2, <2>4
    <2>8. Own(p)'
      BY <1>1, <2>2, <2>4, <2>5, <2>6, <2>7 DEF Own, HasFile, Mapping, fd
    <2>9. \A f \in File : (file[f].by \notin {p, None} /\ file[f].on \in windows)
                            => file[f].on \in windows'
      BY <2>1, <2>2
    <2>10. Confined(p)
      BY <1>1, <2>2, <2>4, <2>5, <2>9 DEF Confined
    <2>11. QED
      BY <2>3, <2>8, <2>10, StepOwn
  <1>4. QED
    BY <1>2, <1>3

-----------------------------------------------------------------------------
(* Theorems.                                                               *)

\* The inductive invariant: every process owns the file its descriptor names,
\* and by vme_map no other; what it has mapped is a window of the bridge.
THEOREM OwnInvariant == Spec => []OwnInv
  <1>1. OwnInv /\ ShapeInv /\ [Next]_vars => OwnInv'
    <2> SUFFICES ASSUME OwnInv, ShapeInv, [Next]_vars PROVE OwnInv'
      OBVIOUS
    <2>1. CASE UNCHANGED vars
      BY <2>1 DEF vars, driverVars, constVars, OwnInv, FileShape, Own, Exact
    <2>2. ASSUME NEW p \in Proc, Library(p) PROVE OwnInv'
      <3>1. CASE Bail(p) /\ (GetCreate(p) \/ SetCreate(p) \/ Undo(p))
        <4>1. HasFile(call[p]) /\ UNCHANGED api
          BY <3>1 DEF GetCreate, SetCreate, Undo, HasFile, constVars
        <4>2. QED
          BY <3>1, <4>1, BailOwn
      <3>2. Undo(p) => Bail(p)
        BY DEF Undo
      <3>3. QED
        BY <2>2, <3>1, <3>2, BeginOwn, CallStepsOwn, FindOwn, ReleaseOwn, CloseWindowOwn
           DEF Library, MapSteps, UnmapSteps
    <2>3. QED
      BY <2>1, <2>2, BeginOwn, CallStepsOwn, ExitOwn DEF Next
  <1>2. FlagsInv => ShapeInv
    BY DEF FlagsInv
  <1>3. QED
    BY InitOwn, FlagsInvariant, <1>1, <1>2, PTL DEF Spec

\* What a process has mapped stays mapped until it unmaps it, whatever any
\* number of other processes do, and covers what was asked for.
THEOREM MappedStays == Spec => []MappedUntilUnmapped
  <1>1. OwnInv /\ ShapeInv => MappedUntilUnmapped
    <2> SUFFICES ASSUME OwnInv, ShapeInv, NEW p \in Proc, call[p].at = "idle", call[p].held
                 PROVE  /\ file[call[p].fd] = [by |-> p, on |-> call[p].window]
                        /\ call[p].window \in windows
                        /\ Exact(p) => Covers(call[p].window, call[p].request.addr,
                                              call[p].request.len)
      BY DEF MappedUntilUnmapped, Exact
    <2>1. Own(p) /\ HasFile(call[p]) /\ Mapping(call[p])
      BY DEF OwnInv, HasFile, Mapping
    <2>2. call[p].fd \in File
      BY <2>1 DEF Own
    <2>3. file[call[p].fd] \in [by : Proc \cup {None}, on : Area \cup {None}]
      BY <2>2 DEF OwnInv, FileShape
    <2>4. QED
      BY <2>1, <2>3 DEF Own
  <1>2. FlagsInv => ShapeInv
    BY DEF FlagsInv
  <1>3. QED
    BY OwnInvariant, FlagsInvariant, <1>1, <1>2, PTL

\* Whichever system call fails, a process that uses vme_map and has nothing
\* mapped holds no file.
THEOREM NothingHeld == Spec => []FailedCallHoldsNothing
  <1>1. OwnInv => FailedCallHoldsNothing
    BY DEF OwnInv, Own, HasFile, FailedCallHoldsNothing
  <1>2. QED
    BY OwnInvariant, <1>1, PTL

-----------------------------------------------------------------------------
(* Forced windows.                                                         *)

\* A lonely call that asks for a window has set the flag to what it wants.
ForceKnown ==
  alone => \A p \in Proc : call[p].at = "find" => create_on_find_fail = call[p].force

\* Only the step that sets the flag leads to the one that asks for a window.
LEMMA FindAfterSet ==
  ASSUME ShapeInv, NEW p \in Proc,
         MapCall(p) \/ UnmapCall(p) \/ DmaCall(p) \/ Library(p) \/ Exit(p),
         call'[p].at = "find"
  PROVE  create_on_find_fail' = call'[p].force
  <1>1. call \in [Proc -> Descriptor] /\ call[p] \in Descriptor
    BY DEF ShapeInv
  <1>2. ASSUME NEW ok, Leave(p, ok) PROVE FALSE
    BY <1>1, <1>2 DEF Leave, Fresh
  <1>3. ~Bail(p)
    BY <1>2 DEF Bail
  <1>4. CASE MapCall(p) \/ UnmapCall(p) \/ DmaCall(p)
    <2>1. ASSUME NEW c, call' = [call EXCEPT ![p] = c], c.at # "find" PROVE FALSE
      BY <1>1, <2>1
    <2>2. \A force : [call[p] EXCEPT !.at = "munmap", !.force = force].at # "find"
      BY <1>1 DEF Descriptor
    <2>3. ~MapCall(p)
      <3> SUFFICES ASSUME MapCall(p) PROVE FALSE
        OBVIOUS
      <3>1. PICK r \in Requests, force \in BOOLEAN :
              Enter(p, [Fresh EXCEPT !.at = "open", !.request = r, !.force = force])
        BY DEF MapCall
      <3> DEFINE c == [Fresh EXCEPT !.at = "open", !.request = r, !.force = force]
      <3>2. c.at # "find" /\ call' = [call EXCEPT ![p] = c]
        BY <3>1 DEF Fresh, Enter
      <3> HIDE DEF c
      <3>3. QED
        BY <2>1, <3>2
    <2>4. ~UnmapCall(p)
      BY <2>1, <2>2 DEF UnmapCall, Enter
    <2>5. ~DmaCall(p)
      BY <1>1 DEF DmaCall, Open, Descriptor
    <2>6. QED
      BY <1>4, <2>3, <2>4, <2>5
  <1>5. CASE Exit(p)
    BY <1>1, <1>5 DEF Exit, Fresh
  <1>6. CASE OpenWindow(p) \/ GetCreate(p)
    <2>1. ~OpenWindow(p)
      BY <1>1, <1>2 DEF OpenWindow, Open, Descriptor
    <2>2. ~GetCreate(p)
      BY <1>1, <1>3 DEF GetCreate, Descriptor
    <2>3. QED
      BY <1>6, <2>1, <2>2
  <1>7. CASE SetCreate(p)
    BY <1>1, <1>3, <1>7 DEF SetCreate, Goto, Descriptor
  <1>8. CASE FindMapping(p) \/ Mmap(p)
    <2>1. ~FindMapping(p)
      <3> SUFFICES ASSUME FindMapping(p) PROVE FALSE
        OBVIOUS
      <3>1. \/ \E w : call' = [call EXCEPT ![p].window = w, ![p].at = "mmap"]
            \/ Goto(p, "undo")
        BY DEF FindMapping
      <3>2. QED
        BY <1>1, <3>1 DEF Goto, Descriptor
    <2>2. ~Mmap(p)
      BY <1>1 DEF Mmap, Goto, Descriptor
    <2>3. QED
      BY <1>8, <2>1, <2>2
  <1>9. CASE RestoreCreate(p) \/ Undo(p)
    BY <1>1, <1>3, <1>9 DEF RestoreCreate, Holding, Undo, Descriptor
  <1>10. CASE Munmap(p)
    BY <1>1, <1>10 DEF Munmap, Descriptor
  <1>11. CASE GetDestroy(p) \/ SetDestroy(p)
    <2>1. ~GetDestroy(p)
      <3> SUFFICES ASSUME GetDestroy(p) PROVE FALSE
        OBVIOUS
      <3>1. PICK org : call' = [call EXCEPT ![p].org = org, ![p].at = "set_destroy"]
        BY DEF GetDestroy
      <3>2. QED
        BY <1>1, <3>1 DEF Descriptor
    <2>2. ~SetDestroy(p)
      BY <1>1 DEF SetDestroy, Goto, Descriptor
    <2>3. QED
      BY <1>11, <2>1, <2>2
  <1>12. CASE Release(p) \/ RestoreDestroy(p)
    BY <1>1, <1>12 DEF Release, RestoreDestroy, Goto, Descriptor
  <1>13. CASE CloseWindow(p) \/ DmaEnd(p)
    BY <1>2, <1>13 DEF CloseWindow, DmaEnd
  <1>14. QED
    BY <1>4, <1>5, <1>6, <1>7, <1>8, <1>9, <1>10, <1>11, <1>12, <1>13
       DEF Library, MapSteps, UnmapSteps

\* A step of another process leaves a call alone.
LEMMA OthersStay ==
  ASSUME FlagsInv, NEW q \in Proc, NEW p \in Proc \ {q}, alone',
         MapCall(q) \/ UnmapCall(q) \/ DmaCall(q) \/ Library(q) \/ Exit(q)
  PROVE  alone /\ call'[p] = call[p]
  <1>1. call \in [Proc -> Descriptor]
    BY DEF FlagsInv, ShapeInv
  <1>2. ASSUME NEW c, call' = [call EXCEPT ![q] = c] PROVE call'[p] = call[p]
    BY <1>1, <1>2
  <1>3. ASSUME NEW ok, Leave(q, ok) PROVE call'[p] = call[p]
    BY <1>1, <1>3 DEF Leave
  <1>4. CASE MapCall(q) \/ UnmapCall(q) \/ DmaCall(q)
    BY <1>1, <1>2, <1>4 DEF MapCall, UnmapCall, DmaCall, Enter, Open
  <1>5. CASE Exit(q)
    BY <1>1, <1>5 DEF Exit
  <1>6. CASE OpenWindow(q) \/ GetCreate(q) \/ SetCreate(q)
    BY <1>1, <1>3, <1>6 DEF OpenWindow, Open, GetCreate, SetCreate, Goto, Bail
  <1>7. CASE FindMapping(q) \/ Mmap(q)
    BY <1>1, <1>7 DEF FindMapping, Mmap, Goto
  <1>8. CASE RestoreCreate(q) \/ Undo(q)
    BY <1>1, <1>3, <1>8 DEF RestoreCreate, Undo, Bail
  <1>9. CASE UnmapSteps(q)
    BY <1>1, <1>3, <1>9
       DEF UnmapSteps, Munmap, GetDestroy, SetDestroy, Release, RestoreDestroy, CloseWindow, Goto
  <1>10. CASE DmaEnd(q)
    BY <1>3, <1>10 DEF DmaEnd
  <1>11. alone
    BY DEF MapCall, UnmapCall, DmaCall, Enter, Exit, Library, MapSteps, UnmapSteps, OpenWindow,
       GetCreate, SetCreate, FindMapping, Mmap, RestoreCreate, Undo, Munmap, GetDestroy,
       SetDestroy, Release, RestoreDestroy, CloseWindow, DmaEnd
  <1>12. QED
    BY <1>4, <1>5, <1>6, <1>7, <1>8, <1>9, <1>10, <1>11 DEF Library, MapSteps

\* While a lonely call asks for a window, all others can do is to exit.
LEMMA OthersAway ==
  ASSUME FlagsInv, NEW p \in Proc, alone', call[p].at = "find",
         NEW q \in Proc \ {p},
         MapCall(q) \/ UnmapCall(q) \/ DmaCall(q) \/ Library(q) \/ Exit(q)
  PROVE  UNCHANGED create_on_find_fail
  <1>1. CASE Exit(q)
    BY <1>1 DEF Exit
  <1>2. CASE MapCall(q) \/ UnmapCall(q) \/ DmaCall(q)
    BY <1>2 DEF MapCall, UnmapCall, DmaCall, Enter
  <1>3. CASE Library(q)
    <2>1. alone
      BY OthersStay
    <2>2. call[q].at = "idle"
      BY <2>1 DEF FlagsInv, OneCall, Idle
    <2>3. QED
      BY <1>3, <2>2 DEF Library, MapSteps, UnmapSteps, OpenWindow, GetCreate, SetCreate,
         FindMapping, Mmap, RestoreCreate, Undo, Munmap, GetDestroy, SetDestroy, Release,
         RestoreDestroy, CloseWindow, DmaEnd
  <1>4. QED
    BY <1>1, <1>2, <1>3

\* While calls do not overlap, the flag says what the caller who asks for a window
\* wants, however earlier calls have ended.
THEOREM ForceIsKnown == Spec => []ForceKnown
  <1>1. Init => ForceKnown
    BY DEF Init, ForceKnown, Fresh
  <1>2. FlagsInv /\ ForceKnown /\ [Next]_vars => ForceKnown'
    <2> SUFFICES ASSUME FlagsInv, ForceKnown, [Next]_vars, alone',
                        NEW p \in Proc, call'[p].at = "find"
                 PROVE  create_on_find_fail' = call'[p].force
      BY DEF ForceKnown
    <2>1. CASE UNCHANGED vars
      BY <2>1 DEF vars, driverVars, ForceKnown
    <2>2. ASSUME NEW q \in Proc,
                 MapCall(q) \/ UnmapCall(q) \/ DmaCall(q) \/ Library(q) \/ Exit(q)
          PROVE  create_on_find_fail' = call'[p].force
      <3>1. CASE q = p
        BY <2>2, <3>1, FindAfterSet DEF FlagsInv
      <3>2. CASE q # p
        <4>1. alone /\ call'[p] = call[p]
          BY <2>2, <3>2, OthersStay
        <4>2. QED
          BY <2>2, <3>2, <4>1, OthersAway DEF ForceKnown
      <3>3. QED
        BY <3>1, <3>2
    <2>3. QED
      BY <2>1, <2>2 DEF Next
  <1>3. QED
    BY FlagsInvariant, <1>1, <1>2, PTL DEF Spec

\* However many processes there are, a window is created by a call with force
\* only, as long as calls do not overlap.
THEOREM CreatedIsForced == Spec => CreatedByForceOnly
  <1>1. FlagsInv /\ ForceKnown /\ [Next]_vars =>
          [(alone /\ ~(windows' \subseteq windows))
           => \E p \in Proc : call[p].at = "find" /\ call[p].force]_vars
    <2> SUFFICES ASSUME FlagsInv, ForceKnown, Next, alone, ~(windows' \subseteq windows)
                 PROVE  \E p \in Proc : call[p].at = "find" /\ call[p].force
      BY DEF vars, driverVars
    <2>1. PICK p \in Proc :
            MapCall(p) \/ UnmapCall(p) \/ DmaCall(p) \/ Library(p) \/ Exit(p)
      BY DEF Next
    <2>2. FindMapping(p)
      <3>1. ~Bail(p)
        BY BailShrinks
      <3>2. ~MapCall(p) /\ ~UnmapCall(p) /\ ~DmaCall(p) /\ ~Exit(p)
        BY CloseShrinks DEF MapCall, UnmapCall, DmaCall, Exit, driverVars
      <3>3. ~DmaEnd(p) /\ ~UnmapSteps(p)
        BY CloseShrinks DEF DmaEnd, UnmapSteps, Munmap, GetDestroy, SetDestroy, Release,
           RestoreDestroy, CloseWindow, driverVars
      <3>4. QED
        BY <2>1, <3>1, <3>2, <3>3
           DEF Library, MapSteps, OpenWindow, GetCreate, SetCreate, Mmap, RestoreCreate, Undo,
               driverVars
    <2>3. call[p].at = "find" /\ create_on_find_fail
      BY <2>2 DEF FindMapping
    <2>4. QED
      BY <2>3 DEF ForceKnown
  <1>2. QED
    BY FlagsInvariant, ForceIsKnown, <1>1, PTL DEF Spec, CreatedByForceOnly

-----------------------------------------------------------------------------
(* Type correctness: no area begins below zero or has a negative size, and *)
(* the bridge never has more windows than slots.                           *)

Placed(w) == w \in Window \cup {None}

\* What TypeOK says beyond ShapeInv and FileShape.
WindowInv ==
  /\ windows \subseteq Window
  /\ IsFiniteSet(windows) /\ Cardinality(windows) <= Slots
  /\ \A f \in File : Placed(file[f].on)
  /\ \A p \in Proc : Placed(call[p].window)

ConstInv ==
  /\ default \in [create : BOOLEAN, destroy : BOOLEAN]
  /\ api \in [Proc -> {"vme_map", "find_controller"}]
  /\ alone \in BOOLEAN /\ clean \in BOOLEAN

\* Rounding down stays above zero.
LEMMA RoundedDown ==
  ASSUME NEW n \in Nat, NEW a \in Nat \ {0}
  PROVE  n - (n % a) \in Nat
  <1>1. n % a \in Nat /\ n % a < a /\ n % a = n - a * (n \div a) /\ n \div a \in Int
    OBVIOUS
  <1>2. CASE n < a
    BY <1>1, <1>2
  <1>3. CASE a <= n
    BY <1>1, <1>3
  <1>4. QED
    BY <1>2, <1>3

\* So what is asked of the driver is an area of the VME space (libvmebus.c).
LEMMA WantedIsWindow ==
  ASSUME NEW p \in Proc, call[p].request \in Requests
  PROVE  Wanted(p) \in Window
  <1>1. call[p].request.addr \in Nat /\ call[p].request.len \in Nat /\ Align \in Nat \ {0}
    BY VmeWindowAssumption DEF VmeWindowAssumption
  <1>2. /\ call[p].request.addr - (call[p].request.addr % Align) \in Nat
        /\ call[p].request.len - (call[p].request.len % Align) \in Nat
    BY <1>1, RoundedDown
  <1>3. QED
    BY <1>1, <1>2 DEF Wanted, Window

\* Windows that go leave room.
LEMMA FewerWindows ==
  ASSUME WindowInv, windows' \subseteq windows
  PROVE  /\ windows' \subseteq Window
         /\ IsFiniteSet(windows)' /\ (Cardinality(windows) <= Slots)'
  <1>1. IsFiniteSet(windows') /\ Cardinality(windows') <= Cardinality(windows)
    BY FS_Subset DEF WindowInv
  <1>2. Cardinality(windows') \in Nat /\ Cardinality(windows) \in Nat /\ Slots \in Nat
    BY <1>1, FS_CardinalityType, VmeWindowAssumption DEF WindowInv, VmeWindowAssumption
  <1>3. QED
    BY <1>1, <1>2 DEF WindowInv

\* Every step but that of the driver's search keeps or drops windows.
LEMMA OtherWindows ==
  ASSUME ShapeInv, OwnInv, WindowInv, NEW p \in Proc,
         \/ MapCall(p) \/ UnmapCall(p) \/ DmaCall(p) \/ DmaEnd(p) \/ Exit(p) \/ UnmapSteps(p)
         \/ OpenWindow(p) \/ GetCreate(p) \/ SetCreate(p)
         \/ Mmap(p) \/ RestoreCreate(p) \/ Undo(p)
  PROVE  WindowInv'
  <1> USE DEF driverVars, constVars, UnmapSteps
  <1>1. windows' \subseteq windows
    BY CloseShrinks, BailShrinks DEF MapCall, UnmapCall, DmaCall, DmaEnd, Exit, Munmap,
       GetDestroy, SetDestroy, Release, RestoreDestroy, CloseWindow, OpenWindow, GetCreate,
       SetCreate, Mmap, RestoreCreate, Undo
  <1>2. \A f \in File : Placed(file'[f].on)
    <2>1. ASSUME NEW fds, Close(fds) PROVE \A f \in File : Placed(file'[f].on)
      BY <2>1 DEF WindowInv, Placed, Close, Closed
    <2>2. ASSUME Bail(p) PROVE \A f \in File : Placed(file'[f].on)
      BY <2>1, <2>2 DEF Bail, WindowInv
    <2>3. ASSUME NEW at, Open(p, at) PROVE \A f \in File : Placed(file'[f].on)
      BY <2>3 DEF OwnInv, FileShape, WindowInv, Placed, Open
    <2>4. CASE Release(p)
      BY <2>4 DEF OwnInv, FileShape, WindowInv, Placed, Release
    <2>5. CASE UNCHANGED file
      BY <2>5 DEF WindowInv
    <2>6. QED
      BY <2>1, <2>2, <2>3, <2>4, <2>5 DEF MapCall, UnmapCall, DmaCall, DmaEnd, Exit, Munmap,
         GetDestroy, SetDestroy, RestoreDestroy, CloseWindow, OpenWindow, GetCreate, SetCreate,
         Mmap, RestoreCreate, Undo
  <1>3. \A q \in Proc : Placed(call'[q].window)
    <2>1. call \in [Proc -> Descriptor] /\ Fresh.window = None
      BY DEF ShapeInv, Fresh
    <2> DEFINE Kept == \A q \in Proc : call'[q].window \in {None, call[q].window}
    <2>2. ASSUME NEW c, call' = [call EXCEPT ![p] = c], c.window \in {None, call[p].window}
          PROVE  Kept
      BY <2>1, <2>2
    <2>3. ASSUME MapCall(p) PROVE Kept
      <3>1. PICK r \in Requests, force \in BOOLEAN :
              call' = [call EXCEPT ![p] = [Fresh EXCEPT !.at = "open", !.request = r,
                                                        !.force = force]]
        BY <2>3 DEF MapCall, Enter
      <3>2. [Fresh EXCEPT !.at = "open", !.request = r, !.force = force].window = None
        BY DEF Fresh
      <3>3. QED
        BY <3>1, <3>2, <2>2
    <2>4. ASSUME UnmapCall(p) PROVE Kept
      <3>1. PICK force \in BOOLEAN :
              call' = [call EXCEPT ![p] = [call[p] EXCEPT !.at = "munmap", !.force = force]]
        BY <2>4 DEF UnmapCall, Enter
      <3>2. [call[p] EXCEPT !.at = "munmap", !.force = force].window = call[p].window
        BY <2>1 DEF Descriptor
      <3>3. QED
        BY <3>1, <3>2, <2>2
    <2>5. ASSUME DmaCall(p) \/ OpenWindow(p) PROVE Kept
      BY <2>1, <2>5 DEF DmaCall, OpenWindow, Open, Leave, Descriptor, Fresh
    <2>6. ASSUME DmaEnd(p) \/ Exit(p) \/ CloseWindow(p) \/ Undo(p) \/ Bail(p) PROVE Kept
      BY <2>1, <2>6 DEF DmaEnd, Exit, CloseWindow, Undo, Bail, Leave, Fresh
    <2>7. ASSUME Mmap(p) \/ SetDestroy(p) \/ RestoreDestroy(p) PROVE Kept
      <3>1. PICK at : call' = [call EXCEPT ![p].at = at]
        BY <2>7 DEF Mmap, SetDestroy, RestoreDestroy, Goto
      <3>2. QED
        BY <2>1, <3>1 DEF Descriptor
    <2>8. ASSUME NEW at, NEW ok, call' = [call EXCEPT ![p].ok = ok, ![p].at = at] PROVE Kept
      BY <2>1, <2>8 DEF Descriptor
    <2>9. ASSUME NEW at, NEW org, call' = [call EXCEPT ![p].org = org, ![p].at = at] PROVE Kept
      BY <2>1, <2>9 DEF Descriptor
    <2>10. ASSUME Release(p) PROVE Kept
      <3>1. \/ \E at : Goto(p, at)
            \/ \E at, ok : call' = [call EXCEPT ![p].ok = ok, ![p].at = at]
        BY <2>10 DEF Release
      <3>2. (\E at : Goto(p, at)) => Kept
        BY <2>1 DEF Goto, Descriptor
      <3>3. QED
        BY <3>1, <3>2, <2>8
    <2>11. ASSUME RestoreCreate(p) PROVE Kept
      BY <2>1, <2>11 DEF RestoreCreate, Holding, Descriptor
    <2>12. ASSUME Munmap(p) \/ GetDestroy(p) PROVE Kept
      BY <2>8, <2>9, <2>12 DEF Munmap, GetDestroy
    <2>13. ASSUME (GetCreate(p) \/ SetCreate(p)) /\ ~Bail(p) PROVE Kept
      BY <2>1, <2>13 DEF GetCreate, SetCreate, Goto, Descriptor
    <2>14. Kept
      BY <2>3, <2>4, <2>5, <2>6, <2>7, <2>10, <2>11, <2>12, <2>13
    <2>15. QED
      BY <2>14 DEF WindowInv, Placed
  <1>4. QED
    BY <1>1, <1>2, <1>3, FewerWindows DEF WindowInv

\* The driver's search adds a window only where there is room for it.
LEMMA FindWindows ==
  ASSUME ShapeInv, OwnInv, WindowInv, NEW p \in Proc, FindMapping(p)
  PROVE  WindowInv'
  <1>1. Wanted(p) \in Window
    BY WantedIsWindow DEF ShapeInv, FindMapping
  <1>2. ASSUME NEW w \in Window,
               file' = [file EXCEPT ![call[p].fd].on = w],
               call' = [call EXCEPT ![p].window = w, ![p].at = "mmap"]
        PROVE  /\ \A f \in File : Placed(file'[f].on)
               /\ \A q \in Proc : Placed(call'[q].window)
    BY <1>2 DEF ShapeInv, Descriptor, OwnInv, FileShape, WindowInv, Placed
  <1>3. CASE Goto(p, "undo") /\ UNCHANGED <<file, windows>>
    <2>1. \A q \in Proc : call'[q].window = call[q].window
      BY <1>3 DEF ShapeInv, Descriptor, Goto
    <2>2. QED
      BY <1>3, <2>1, FewerWindows DEF WindowInv, Placed
  <1>4. ASSUME NEW w \in windows, UNCHANGED windows,
               file' = [file EXCEPT ![call[p].fd].on = w],
               call' = [call EXCEPT ![p].window = w, ![p].at = "mmap"]
        PROVE  WindowInv'
    BY <1>2, <1>4, FewerWindows DEF WindowInv
  <1>5. ASSUME Cardinality(windows) < Slots, windows' = windows \cup {Wanted(p)},
               file' = [file EXCEPT ![call[p].fd].on = Wanted(p)],
               call' = [call EXCEPT ![p].window = Wanted(p), ![p].at = "mmap"]
        PROVE  WindowInv'
    <2>1. IsFiniteSet(windows') /\ Cardinality(windows') <= Slots
      <3>1. IsFiniteSet(windows) /\ Cardinality(windows) \in Nat /\ Slots \in Nat
        BY FS_CardinalityType, VmeWindowAssumption DEF WindowInv, VmeWindowAssumption
      <3>2. /\ IsFiniteSet(windows')
            /\ Cardinality(windows') \in {Cardinality(windows), Cardinality(windows) + 1}
        BY <1>5, <3>1, FS_AddElement
      <3>3. QED
        BY <1>5, <3>1, <3>2
    <2>2. QED
      BY <1>1, <1>2, <1>5, <2>1 DEF WindowInv
  <1>6. QED
    BY <1>3, <1>4, <1>5 DEF FindMapping

\* The rest has its types whatever happens.
LEMMA ConstStep ==
  ASSUME ConstInv, ShapeInv, NEW p \in Proc,
         MapCall(p) \/ UnmapCall(p) \/ DmaCall(p) \/ Library(p) \/ Exit(p)
  PROVE  ConstInv'
  <1>1. default' = default /\ api' = api
    BY DEF MapCall, UnmapCall, DmaCall, Library, MapSteps, UnmapSteps, DmaEnd, Exit, OpenWindow,
       GetCreate, SetCreate, FindMapping, Mmap, RestoreCreate, Undo, Munmap, GetDestroy,
       SetDestroy, Release, RestoreDestroy, CloseWindow, constVars
  <1>2. alone' \in BOOLEAN
    BY DEF ConstInv, MapCall, UnmapCall, DmaCall, Library, MapSteps, UnmapSteps, DmaEnd, Exit,
       OpenWindow, GetCreate, SetCreate, FindMapping, Mmap, RestoreCreate, Undo, Munmap,
       GetDestroy, SetDestroy, Release, RestoreDestroy, CloseWindow, Enter
  <1>3. clean' \in BOOLEAN
    BY DEF ConstInv, MapCall, UnmapCall, DmaCall, Library, MapSteps, UnmapSteps, DmaEnd, Exit,
       OpenWindow, GetCreate, SetCreate, FindMapping, Mmap, RestoreCreate, Undo, Munmap,
       GetDestroy, SetDestroy, Release, RestoreDestroy, CloseWindow, PutBackCreate
  <1>4. QED
    BY <1>1, <1>2, <1>3 DEF ConstInv

\* TypeOK is an invariant: whatever the processes do, areas stay within the VME
\* space and the bridge's windows within its slots.
THEOREM TypeCorrect == Spec => []TypeOK
  <1>1. Init => WindowInv /\ ConstInv
    <2>1. IsFiniteSet({}) /\ Cardinality({}) = 0 /\ Slots \in Nat
      BY FS_EmptySet, VmeWindowAssumption DEF VmeWindowAssumption
    <2>2. QED
      BY <2>1, VmeWindowAssumption
         DEF Init, WindowInv, ConstInv, Placed, Closed, Fresh, VmeWindowAssumption
  <1>2. WindowInv /\ ConstInv /\ ShapeInv /\ OwnInv /\ [Next]_vars => WindowInv' /\ ConstInv'
    <2> SUFFICES ASSUME WindowInv, ConstInv, ShapeInv, OwnInv, [Next]_vars
                 PROVE  WindowInv' /\ ConstInv'
      OBVIOUS
    <2>1. CASE UNCHANGED vars
      <3>1. /\ windows' = windows /\ file' = file /\ call' = call /\ default' = default
            /\ api' = api /\ alone' = alone /\ clean' = clean
        BY <2>1 DEF vars, driverVars, constVars
      <3>2. QED
        BY <3>1 DEF WindowInv, ConstInv, Placed
    <2>2. ASSUME NEW p \in Proc,
                 MapCall(p) \/ UnmapCall(p) \/ DmaCall(p) \/ Library(p) \/ Exit(p)
          PROVE  WindowInv' /\ ConstInv'
      <3>1. ConstInv'
        BY <2>2, ConstStep
      <3>2. WindowInv'
        BY <2>2, OtherWindows, FindWindows DEF Library, MapSteps
      <3>3. QED
        BY <3>1, <3>2
    <2>3. QED
      BY <2>1, <2>2 DEF Next
  <1>3. FlagsInv => ShapeInv
    BY DEF FlagsInv
  <1>4. WindowInv /\ ConstInv /\ ShapeInv /\ OwnInv => TypeOK
    <2> SUFFICES ASSUME WindowInv, ConstInv, ShapeInv, OwnInv PROVE TypeOK
      OBVIOUS
    <2>1. file \in [File -> [by : Proc \cup {None}, on : Window \cup {None}]]
      BY DEF WindowInv, OwnInv, FileShape, Placed
    <2>2. call \in [Proc -> Call]
      BY DEF WindowInv, ShapeInv, Descriptor, Call, Placed
    <2>3. QED
      BY <2>1, <2>2 DEF TypeOK, WindowInv, ConstInv, ShapeInv
  <1>5. QED
    BY FlagsInvariant, OwnInvariant, <1>1, <1>2, <1>3, <1>4, PTL DEF Spec
=============================================================================
