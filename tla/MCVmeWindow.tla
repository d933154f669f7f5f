---------------------------- MODULE MCVmeWindow ----------------------------
(***************************************************************************)
(* Two processes and a bridge with two windows.  The second request is not *)
(* aligned; when it is rounded, it is inside the first.                    *)
(***************************************************************************)
EXTENDS VmeWindow, TLC

CONSTANTS p1, p2, f1, f2

MCProc == {p1, p2}
MCFile == {f1, f2}
MCRequests == {[addr |-> 0, len |-> 4], [addr |-> 3, len |-> 2]}
Symmetry == Permutations(MCProc) \cup Permutations(MCFile)
=============================================================================
