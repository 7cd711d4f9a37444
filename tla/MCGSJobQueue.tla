---------------------------- MODULE MCGSJobQueue ----------------------------
(* A ring of three slots, two of them usable.                                *)
EXTENDS GSJobQueue
=============================================================================
