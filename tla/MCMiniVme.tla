------------------------------ MODULE MCMiniVme ------------------------------
(***************************************************************************)
(* MiniVme with two values on the data lines.                              *)
(***************************************************************************)
EXTENDS MiniVme

\* Masters that access of this card's CR/CSR space the bootloader's registers
\* only, and of other cards' what they like.
RegistersOnly ==
  {t \in Target : t.mine => t.register}

Anywhere == Target
=============================================================================
