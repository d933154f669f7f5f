----------------------------- MODULE MCDownload -----------------------------
(***************************************************************************)
(* Download of an image in two chunks, the first of which does not end on  *)
(* a word, in words of two bytes.  The AFPGA is configured by the first    *)
(* three bytes, so the words after them can fill the FIFO when the loader  *)
(* has already stopped.                                                    *)
(***************************************************************************)
EXTENDS Download

MCChunkEnds == {3, ImageLen}
=============================================================================
