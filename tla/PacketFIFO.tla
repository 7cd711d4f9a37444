----------------------------- MODULE PacketFIFO -----------------------------
(***************************************************************************)
(* What the emulator's inter-thread rings promise their two ends: a         *)
(* producer publishes packets one by one, a single consumer takes them in   *)
(* the same order, none lost, none twice, none invented.  MTVU's word ring, *)
(* MTGS's quadword ring, the renderer's job queue and GIF path 1 are shown  *)
(* to implement this specification.                                         *)
(***************************************************************************)
EXTENDS Naturals, Sequences

CONSTANT Packet            \* everything a packet can be

VARIABLES produced,        \* the packets published so far, oldest first
          consumed         \* the packets taken so far, oldest first

Init ==
  /\ produced = << >>
  /\ consumed = << >>

Put ==
  /\ \E p \in Packet : produced' = Append(produced, p)
  /\ UNCHANGED consumed

Get ==
  /\ Len(consumed) < Len(produced)
  /\ consumed' = Append(consumed, produced[Len(consumed) + 1])
  /\ UNCHANGED produced

Next == Put \/ Get

Spec == Init /\ [][Next]_<<produced, consumed>>
=============================================================================
