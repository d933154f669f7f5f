----------------------------- MODULE MCSvecDriver -----------------------------
(***************************************************************************)
(* SvecDriver with two processes that write bitstreams, so that two stores *)
(* overlap, beside an administrator and a reader.                          *)
(***************************************************************************)
EXTENDS SvecDriver
=============================================================================
