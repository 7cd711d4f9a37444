------------------------------- MODULE MCMTVU -------------------------------
(* Small instances of the MTVU ring: packets of two and three words in a     *)
(* ring of nine, with a safety net as long as the longest packet.            *)
EXTENDS MTVU

VifPackets  == { [tag |-> "VIF_UNPACK", size |-> 3],
                 [tag |-> "VIF_WRITE",  size |-> 2] }
VUPrograms  == { [tag |-> "VU_EXECUTE", size |-> 2],
                 [tag |-> "VIF_UNPACK", size |-> 3] }
=============================================================================
