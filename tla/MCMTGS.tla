------------------------------- MODULE MCMTGS -------------------------------
(* Small instances of the MTGS ring: six or seven slots, a vsync takes two.  *)
EXTENDS MTGS
=============================================================================
