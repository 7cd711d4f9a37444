---------------------------- MODULE MTGS_proofs ----------------------------
(***************************************************************************)
(* Theorems about the MTGS ring, for every ring, vsync packet, limit and    *)
(* number of packets that the assumptions of MTGS allow.                    *)
(*                                                                         *)
(* The inductive invariant says where the packets are (`RingInv`), who owes *)
(* whom a post (`SignalInv`) and, from these two, how many frames are       *)
(* queued (`FrameInv`).  `WakeInv` is one more when VU1 has no thread.      *)
(***************************************************************************)
EXTENDS MTGS, FiniteSetTheorems, SequenceTheorems, TLAPS

One(b) == IF b THEN 1 ELSE 0

\* How far slot p is behind slot r, going round the ring.
Off(r, p) == IF r <= p THEN p - r ELSE p - r + RingBufferSize
Used == Off(m_ReadPos, m_WritePos)

\* The GS has taken a packet out of the ring but not yet moved m_ReadPos past it.
Reading == gsPc \in {"vsync", "advance"}
FirstInRing == Len(executed) + 1 - One(Reading)

Where(n) == Off(m_ReadPos, sent[n].pos)
Behind(n) == Where(n) + sent[n].size

\* Packets are executed by number, and none before it is published.
Numbered ==
  /\ \A i \in 1 .. Len(executed) : executed[i] = i
  /\ Len(executed) <= committed
  /\ Len(sent) = committed + One(eePc = "commit")
  /\ gsPc # "wild"
  /\ Reading => Len(executed) > 0 /\ gsOp.size = sent[Len(executed)].size
  /\ gsPc = "exec" => m_ReadPos # m_WritePos

\* The packets in the ring follow one another from m_ReadPos to m_WritePos.
Placed ==
  /\ \A n \in FirstInRing .. committed : Behind(n) <= Used
  /\ \A m, n \in FirstInRing .. committed : m < n => Behind(m) <= Where(n)
  /\ \A n \in FirstInRing .. committed - 1 : Where(n + 1) = Behind(n)
  /\ IF FirstInRing <= committed
       THEN sent[FirstInRing].pos = m_ReadPos /\ Behind(committed) = Used
       ELSE m_ReadPos = m_WritePos

\* The room GenericStall found is still there, and the packet in it is whole.
Room ==
  /\ eePc \in {"write", "commit"} => Used + eeOp.size < RingBufferSize
  /\ eePc = "commit" =>
       /\ sent[Len(sent)] = [cmd |-> eeOp.cmd, size |-> eeOp.size, pos |-> m_WritePos]
       /\ PacketIntact(Len(sent), m_WritePos)

RingInv == Numbered /\ Placed /\ Room /\ RingIntact

\* Each request of the EE for a post is open, or answered and not yet taken; once it
\* is answered, the amount asked for is used up.
SignalInv ==
  /\ m_sem_OnRingReset + One(m_SignalRingEnable) = One(eePc \in {"stallEvent", "stallWait"})
  /\ m_sem_Vsync + One(m_VsyncSignalListener) = One(eePc \in {"vsyncPost", "vsyncWait"})
  /\ (eePc = "recheck" \/ m_sem_OnRingReset > 0) => m_SignalRingPosition <= 0

\* A vsync is published, but not yet counted.
Uncounted ==
  /\ eeOp.cmd = "VSYNC"
  /\ eePc \in {"tally", "tallyTest", "tallyEvent", "vsyncTest", "vsyncEvent", "frame"}

\* What follows is PostVsyncStart's alone.
VsyncPcs == {"vsyncTest", "vsyncEvent", "frame", "listen", "vsyncPost", "vsyncWait"}

\* The EE has still to be let through, and the GS is about to answer.
Unanswered == eePc = "listen" \/ m_VsyncSignalListener
Answering == gsPc \in {"vsync", "empty", "emptyVsync", "finish"}

FrameInv ==
  /\ m_QueuedFrameCount + One(Uncounted) = QueuedVsyncs
  /\ m_QueuedFrameCount + One(Answering)
       <= VsyncQueueSize + 1 + finishes + One(Unanswered)
  /\ eePc \in VsyncPcs => eeOp.cmd = "VSYNC"
  /\ eePc = "tallyMore" => eeOp.cmd # "VSYNC"

\* The packets are numbered 1 .. MaxPackets: ResetGS has room for its second one.
Sending == {"stall", "enable", "stallEvent", "stallWait", "recheck", "spinEvent", "spin", "write"}
Bounded ==
  /\ Len(sent) <= MaxPackets
  /\ eePc \in Sending => Len(sent) + One(eeOp.cmd = "RESET") < MaxPackets
  /\ eePc \in {"commit", "tally"} /\ eeOp.cmd = "RESET" => Len(sent) < MaxPackets

IInv == TypeOK /\ RingInv /\ SignalInv /\ FrameInv /\ Bounded

-----------------------------------------------------------------------------
(* Without a VU1 thread *)

\* A vsync is published whose SetEvent is still to come.
Unposted ==
  /\ eeOp.cmd = "VSYNC"
  /\ \/ eePc \in {"tally", "tallyEvent", "vsyncEvent"}
     \/ eePc \in {"tallyTest", "vsyncTest"} /\ m_CopyDataTally # 0

\* The GS will look at the ring again before it sleeps.
Working == gsPc \in {"check", "exec"} \/ (gsPc \in {"advance", "signal"} /\ gsOp.cmd # "VSYNC")

\* What the EE waits for, having posted for it.
Asked ==
  \/ eePc \in {"spin", "waitGS"} /\ m_ReadPos # m_WritePos
  \/ eePc = "stallWait" /\ m_SignalRingEnable /\ gsPc # "empty"
  \/ eePc = "vsyncWait" /\ m_VsyncSignalListener /\ gsPc \notin {"empty", "emptyVsync"}

WakeInv ==
  /\ vuPc = "idle"
  /\ m_sem_event + One(Working) >= QueuedVsyncs - One(Unposted)
  /\ Asked => m_sem_event + One(Working) >= QueuedVsyncs + 1

-----------------------------------------------------------------------------
(* Going round the ring *)

\* Distances are positions of the ring; only a slot itself is at distance 0.
LEMMA OffType ==
  ASSUME NEW r \in Slot, NEW p \in Slot
  PROVE  Off(r, p) \in 0 .. RingBufferSize - 1 /\ (Off(r, p) = 0 <=> r = p)
BY MTGSAssumption DEF Slot, Off

\* The remainder of a sum or a difference of two positions.
LEMMA Around ==
  ASSUME NEW a \in Int, -RingBufferSize <= a, a < 2 * RingBufferSize
  PROVE  a % RingBufferSize = IF a < 0 THEN a + RingBufferSize
                              ELSE IF a < RingBufferSize THEN a ELSE a - RingBufferSize
<1>0. RingBufferSize \in Nat /\ RingBufferSize > 0
  BY MTGSAssumption
<1>1. CASE a < 0
  BY <1>0, <1>1
<1>2. CASE 0 <= a /\ a < RingBufferSize
  BY <1>0, <1>2
<1>3. CASE RingBufferSize <= a
  BY <1>0, <1>3
<1> QED
  BY <1>0, <1>1, <1>2, <1>3

\* Walking on from a slot without coming round to r.
LEMMA OffStep ==
  ASSUME NEW r \in Slot, NEW p \in Slot, NEW k \in Nat, Off(r, p) + k < RingBufferSize
  PROVE  /\ (p + k) % RingBufferSize \in Slot
         /\ Off(r, (p + k) % RingBufferSize) = Off(r, p) + k
<1>0. RingBufferSize \in Nat /\ RingBufferSize >= 2
  BY MTGSAssumption
<1>1. r \in Nat /\ p \in Nat /\ r < RingBufferSize /\ p < RingBufferSize
  BY <1>0 DEF Slot
<1>2. k < RingBufferSize
  BY <1>0, <1>1 DEF Off
<1>3. (p + k) % RingBufferSize = IF p + k < RingBufferSize THEN p + k ELSE p + k - RingBufferSize
  BY <1>0, <1>1, <1>2, Around
<1> QED
  BY <1>0, <1>1, <1>2, <1>3 DEF Off, Slot

\* Moving r on brings it closer to what is behind it.
LEMMA OffAdvance ==
  ASSUME NEW r \in Slot, NEW p \in Slot, NEW k \in Nat, k <= Off(r, p)
  PROVE  /\ (r + k) % RingBufferSize \in Slot
         /\ Off((r + k) % RingBufferSize, p) = Off(r, p) - k
<1>0. RingBufferSize \in Nat /\ RingBufferSize >= 2
  BY MTGSAssumption
<1>1. r \in Nat /\ p \in Nat /\ r < RingBufferSize /\ p < RingBufferSize
  BY <1>0 DEF Slot
<1>2. k < RingBufferSize
  BY <1>0, <1>1 DEF Off
<1>3. (r + k) % RingBufferSize = IF r + k < RingBufferSize THEN r + k ELSE r + k - RingBufferSize
  BY <1>0, <1>1, <1>2, Around
<1> QED
  BY <1>0, <1>1, <1>2, <1>3 DEF Off, Slot

\* EEWrite's k(s) is the distance from the write position.
LEMMA OffDiff ==
  ASSUME NEW w \in Slot, NEW s \in Slot
  PROVE  (s - w) % RingBufferSize = Off(w, s)
<1>0. RingBufferSize \in Nat /\ RingBufferSize >= 2
  BY MTGSAssumption
<1>1. w \in Nat /\ s \in Nat /\ w < RingBufferSize /\ s < RingBufferSize
  BY <1>0 DEF Slot
<1> QED
  BY <1>0, <1>1, Around DEF Off

\* A slot between r and w is far behind w.
LEMMA OffBefore ==
  ASSUME NEW r \in Slot, NEW w \in Slot, NEW s \in Slot, Off(r, s) < Off(r, w)
  PROVE  Off(w, s) = Off(r, s) - Off(r, w) + RingBufferSize
BY MTGSAssumption DEF Off, Slot

\* GenericStall's room is what the packets in the ring leave.
LEMMA RoomLeft ==
  ASSUME TypeOK
  PROVE  FreeRoom = RingBufferSize - Used /\ Used \in 0 .. RingBufferSize - 1
<1>1. m_ReadPos \in Slot /\ m_WritePos \in Slot /\ RingBufferSize \in Nat
  BY MTGSAssumption DEF TypeOK
<1>2. Used \in 0 .. RingBufferSize - 1
  BY <1>1, OffType DEF Used
<1>3. m_ReadPos \in Nat /\ m_WritePos \in Nat
  BY <1>1 DEF Slot
<1>4. FreeRoom = RingBufferSize - Used
  BY <1>1, <1>3 DEF FreeRoom, Used, Off
<1> QED
  BY <1>2, <1>4

-----------------------------------------------------------------------------
(* Where the packets are *)

\* The numbers of packets, with their types.
LEMMA RingFacts ==
  ASSUME TypeOK, RingInv
  PROVE  /\ Len(sent) \in Nat /\ Len(executed) \in Nat /\ committed \in Nat
         /\ FirstInRing \in Nat \ {0} /\ FirstInRing <= committed + 1
         /\ committed <= Len(sent) /\ Len(executed) <= committed
         /\ FirstInRing \in {Len(executed), Len(executed) + 1}
<1>1. Len(sent) \in Nat /\ Len(executed) \in Nat /\ committed \in 0 .. Len(sent)
  BY LenProperties DEF TypeOK
<1>2. Len(executed) <= committed /\ (Reading => Len(executed) > 0)
  BY DEF RingInv, Numbered
<1>3. PICK x \in Nat, c \in Nat, l \in Nat :
        x = Len(executed) /\ c = committed /\ l = Len(sent) /\ c <= l
  <2>1. PICK l \in Nat : l = Len(sent)
    BY <1>1
  <2>2. committed \in 0 .. l
    BY <1>1, <2>1
  <2>3. committed \in Nat /\ committed <= l
    BY <2>2
  <2> QED
    BY <1>1, <2>1, <2>3
<1>4. FirstInRing = IF Reading THEN x ELSE x + 1
  BY <1>3 DEF FirstInRing, One
<1>5. x <= c /\ (Reading => x > 0)
  BY <1>2, <1>3
<1> QED
  BY <1>3, <1>4, <1>5

\* A packet's fields.
LEMMA PacketType ==
  ASSUME TypeOK, NEW n \in 1 .. Len(sent)
  PROVE  sent[n].pos \in Slot /\ sent[n].size \in Nat \ {0} /\ sent[n].cmd \in Cmds
<1>1. sent[n] \in [cmd : Cmds, size : Nat \ {0}, pos : Slot]
  BY ElementOfSeq DEF TypeOK
<1> QED
  BY <1>1

\* A packet's place, as numbers.
LEMMA PlaceType ==
  ASSUME TypeOK, NEW n \in 1 .. Len(sent)
  PROVE  Where(n) \in Nat /\ Behind(n) \in Nat /\ Behind(n) = Where(n) + sent[n].size
         /\ Where(n) < Behind(n)
<1>1. sent[n].pos \in Slot /\ sent[n].size \in Nat \ {0} /\ m_ReadPos \in Slot
  BY PacketType DEF TypeOK
<1>2. Where(n) \in 0 .. RingBufferSize - 1
  BY <1>1, OffType DEF Where
<1>3. PICK z \in Nat, w \in Nat : z = sent[n].size /\ z > 0 /\ w = Where(n)
  BY <1>1, <1>2, MTGSAssumption
<1> QED
  BY <1>3 DEF Behind

\* A step that moves no position and publishes, executes and writes nothing.
LEMMA RingSame ==
  ASSUME TypeOK, RingInv, UNCHANGED <<ringvars, sent, committed, executed>>,
         eePc' = "commit" <=> eePc = "commit",
         eePc' = "commit" => eeOp' = eeOp,
         eePc' = "write" => Used + eeOp'.size < RingBufferSize,
         Reading' = Reading, Reading => gsOp' = gsOp,
         gsPc' # "wild", gsPc' = "exec" => m_ReadPos # m_WritePos
  PROVE  RingInv'
<1> USE DEF ringvars
<1>1. Used' = Used /\ FirstInRing' = FirstInRing
      /\ (\A n : Where(n)' = Where(n) /\ Behind(n)' = Behind(n))
  BY DEF Used, FirstInRing, Where, Behind, One
<1>2. Numbered'
  BY DEF RingInv, Numbered, One
<1>3. Placed'
  BY <1>1 DEF RingInv, Placed
<1>4. Room'
  BY <1>1 DEF RingInv, Room, PacketIntact
<1>5. RingIntact'
  BY DEF RingInv, RingIntact, PacketIntact
<1> QED
  BY <1>2, <1>3, <1>4, <1>5 DEF RingInv

\* The first packet in the ring is the one that the GS reads next.
LEMMA ExecuteReads ==
  ASSUME TypeOK, RingInv, GSExecute
  PROVE  LET n == Len(executed) + 1 IN
         /\ n \in 1 .. committed /\ n \in 1 .. Len(sent)
         /\ gsOp' = [cmd |-> sent[n].cmd, size |-> sent[n].size]
         /\ executed' = Append(executed, n)
         /\ gsPc' = IF sent[n].cmd = "VSYNC" THEN "vsync" ELSE "advance"
         /\ m_QueuedFrameCount' = IF sent[n].cmd = "VSYNC" THEN m_QueuedFrameCount - 1
                                                           ELSE m_QueuedFrameCount
<1> DEFINE n == Len(executed) + 1
<1>0. gsPc = "exec" /\ ~Reading /\ m_ReadPos # m_WritePos
  BY DEF GSExecute, Reading, RingInv, Numbered
<1>1. FirstInRing = n /\ n \in Nat /\ n > 0
  BY <1>0, RingFacts DEF FirstInRing, One
<1>2. n <= committed /\ sent[n].pos = m_ReadPos
  BY <1>0, <1>1 DEF RingInv, Placed
<1>3. n \in 1 .. committed /\ n \in 1 .. Len(sent)
  BY <1>1, <1>2, RingFacts
<1>4. PacketIntact(n, m_ReadPos)
  <2>1. n \in Len(executed) + 1 .. committed
    BY <1>1, <1>2, RingFacts
  <2> QED
    BY <1>2, <2>1 DEF RingInv, RingIntact
<1>5. RingBuffer[m_ReadPos] = Word(n, 0)
  <2>1. 0 \in 0 .. sent[n].size - 1
    BY <1>3, PacketType
  <2>2. (m_ReadPos + 0) % RingBufferSize = m_ReadPos
    <3>1. m_ReadPos \in Nat /\ m_ReadPos < RingBufferSize /\ RingBufferSize \in Nat
      BY MTGSAssumption DEF TypeOK, Slot
    <3> QED
      BY <3>1, Around
  <2> QED
    BY <1>4, <2>1, <2>2 DEF PacketIntact
<1>6. RingBuffer[m_ReadPos].seq = n /\ RingBuffer[m_ReadPos].off = 0 /\ n # 0
  BY <1>1, <1>5 DEF Word
<1>7. /\ gsOp' = [cmd |-> sent[n].cmd, size |-> sent[n].size]
      /\ executed' = Append(executed, IF PacketIntact(n, m_ReadPos) THEN n ELSE 0)
      /\ IF sent[n].cmd = "VSYNC"
           THEN gsPc' = "vsync" /\ m_QueuedFrameCount' = m_QueuedFrameCount - 1
           ELSE gsPc' = "advance" /\ UNCHANGED m_QueuedFrameCount
  BY <1>6 DEF GSExecute
<1> QED
  BY <1>3, <1>4, <1>7

\* The GS takes a packet: it stays where it is until m_ReadPos moves.
LEMMA ExecuteRing ==
  ASSUME TypeOK, RingInv, GSExecute
  PROVE  RingInv'
<1> USE DEF ringvars, ee
<1> DEFINE n == Len(executed) + 1
<1>0. n \in 1 .. committed /\ n \in 1 .. Len(sent) /\ Len(executed) \in Nat /\ committed \in Nat
  BY ExecuteReads, RingFacts
<1>1. /\ UNCHANGED <<RingBuffer, m_ReadPos, m_WritePos, sent, committed, eePc, eeOp>>
      /\ gsPc' \in {"vsync", "advance"} /\ gsOp' = [cmd |-> sent[n].cmd, size |-> sent[n].size]
      /\ executed' = Append(executed, n) /\ gsPc = "exec"
  <2>1. UNCHANGED <<RingBuffer, m_ReadPos, m_WritePos, sent, committed, eePc, eeOp>> /\ gsPc = "exec"
    BY DEF GSExecute
  <2> QED
    BY <2>1, ExecuteReads
<1>2. Len(executed') = n /\ executed \in Seq(Nat) /\ \A i \in 1 .. n : executed'[i] = i
  <2>1. executed \in Seq(Nat) /\ n \in Nat
    BY <1>0 DEF TypeOK
  <2>2. \A i \in 1 .. Len(executed) : executed[i] = i
    BY DEF RingInv, Numbered
  <2> QED
    BY <1>0, <1>1, <2>1, <2>2, AppendProperties
<1>3. FirstInRing' = FirstInRing /\ FirstInRing = n /\ Reading' /\ ~Reading
  BY <1>0, <1>1, <1>2 DEF FirstInRing, One, Reading
<1>4. Used' = Used /\ (\A m : Where(m)' = Where(m) /\ Behind(m)' = Behind(m))
  BY <1>1 DEF Used, Where, Behind
<1>5. Numbered'
  <2>1. gsOp'.size = sent'[Len(executed')].size /\ Len(executed') > 0 /\ Len(executed') <= committed'
    BY <1>0, <1>1, <1>2
  <2> QED
    BY <1>1, <1>2, <2>1 DEF RingInv, Numbered, Reading
<1>6. Placed'
  BY <1>1, <1>3, <1>4 DEF RingInv, Placed
<1>7. Room'
  BY <1>1, <1>4 DEF RingInv, Room, PacketIntact
<1>8. RingIntact'
  <2>1. \A m \in Len(executed') + 1 .. committed : m \in Len(executed) + 1 .. committed
    BY <1>0, <1>2
  <2> QED
    BY <1>1, <2>1 DEF RingInv, RingIntact, PacketIntact
<1> QED
  BY <1>5, <1>6, <1>7, <1>8 DEF RingInv

\* The GS moves past the packet it has taken: every other packet comes closer.
LEMMA AdvanceRing ==
  ASSUME TypeOK, RingInv, GSAdvance
  PROVE  RingInv'
<1> USE DEF ringvars, ee, hist
<1> DEFINE n == Len(executed)
<1>0. /\ Numbered /\ Placed /\ Room /\ RingIntact
      /\ n \in Nat /\ committed \in Nat /\ n <= committed /\ committed <= Len(sent)
      /\ m_ReadPos \in Slot /\ m_WritePos \in Slot
  BY RingFacts DEF RingInv, TypeOK
<1>1. /\ UNCHANGED <<RingBuffer, m_WritePos, sent, committed, executed, eePc, eeOp, gsOp>>
      /\ gsPc = "advance" /\ gsPc' = "signal"
      /\ m_ReadPos' = (m_ReadPos + gsOp.size) % RingBufferSize
  BY DEF GSAdvance, GSGoto
<1>2. FirstInRing = n /\ FirstInRing' = n + 1 /\ n > 0 /\ gsOp.size = sent[n].size
  BY <1>0, <1>1 DEF FirstInRing, Reading, One, Numbered
<1>3. n \in 1 .. Len(sent)
  BY <1>0, <1>2
<1>4. PICK z \in Nat : z = sent[n].size /\ z > 0
  BY <1>3, PacketType
<1>5. sent[n].pos = m_ReadPos /\ Where(n) = 0 /\ Behind(n) = z
  <2>1. sent[n].pos = m_ReadPos
    BY <1>0, <1>2 DEF Placed
  <2>2. Where(n) = 0
    BY <1>0, <2>1, OffType DEF Where
  <2> QED
    BY <1>4, <2>1, <2>2 DEF Behind
<1>6. z <= Used
  <2>1. n \in FirstInRing .. committed
    BY <1>0, <1>2
  <2> QED
    BY <1>0, <1>5, <2>1 DEF Placed
<1>7. Used' = Used - z /\ m_ReadPos' \in Slot
  BY <1>0, <1>1, <1>2, <1>4, <1>6, OffAdvance DEF Used
<1>8. ASSUME NEW m \in n + 1 .. committed
      PROVE  Where(m)' = Where(m) - z /\ Behind(m)' = Behind(m) - z
             /\ Where(m) \in Nat /\ Behind(m) \in Nat
  <2>1. m \in 1 .. Len(sent) /\ m \in FirstInRing .. committed /\ n \in FirstInRing .. committed /\ n < m
    BY <1>0, <1>2
  <2>2. z <= Where(m)
    BY <1>0, <1>5, <2>1 DEF Placed
  <2>3. Where(m)' = Where(m) - z
    BY <1>0, <1>1, <1>2, <1>4, <2>1, <2>2, OffAdvance, PacketType DEF Where
  <2>4. PICK w \in Nat, b \in Nat, y \in Nat : w = Where(m) /\ y = sent[m].size /\ b = w + y /\ b = Behind(m)
    BY <2>1, PlaceType, PacketType
  <2>5. Behind(m)' = (w - z) + y
    BY <1>1, <2>3, <2>4 DEF Behind
  <2> QED
    BY <2>3, <2>4, <2>5
<1>9. Numbered'
  BY <1>0, <1>1, <1>2 DEF Numbered, Reading, One
<1>10. Placed'
  <2>0. Used \in Nat
    BY RoomLeft, MTGSAssumption
  <2>1. ASSUME NEW m \in n + 1 .. committed PROVE Behind(m)' <= Used'
    <3>1. m \in FirstInRing .. committed
      BY <1>0, <1>2
    <3>2. Behind(m) <= Used
      BY <1>0, <3>1 DEF Placed
    <3> QED
      BY <1>7, <1>8, <2>0, <3>2
  <2>2. ASSUME NEW l \in n + 1 .. committed, NEW m \in n + 1 .. committed, l < m
        PROVE  Behind(l)' <= Where(m)'
    <3>1. m \in FirstInRing .. committed /\ l \in FirstInRing .. committed
      BY <1>0, <1>2
    <3>2. Behind(l) <= Where(m)
      BY <1>0, <2>2, <3>1 DEF Placed
    <3> QED
      BY <1>8, <3>2
  <2>3. ASSUME NEW m \in n + 1 .. committed - 1 PROVE Where(m + 1)' = Behind(m)'
    <3>1. m \in FirstInRing .. committed - 1 /\ m \in n + 1 .. committed /\ m + 1 \in n + 1 .. committed
      BY <1>0, <1>2
    <3>2. Where(m + 1) = Behind(m)
      BY <1>0, <3>1 DEF Placed
    <3> QED
      BY <1>8, <3>1, <3>2
  <2>4. CASE n + 1 <= committed
    <3>1. n + 1 \in n + 1 .. committed /\ committed \in n + 1 .. committed /\ n \in FirstInRing .. committed - 1
      BY <1>0, <1>2, <2>4
    <3>2. Where(n + 1) = z
      <4>1. Where(n + 1) = Behind(n)
        BY <1>0, <3>1 DEF Placed
      <4> QED
        BY <1>5, <4>1
    <3>3. Where(n + 1)' = 0
      <4>1. PICK m \in n + 1 .. committed : m = n + 1
        BY <3>1
      <4>2. Where(m)' = Where(m) - z
        BY <1>8
      <4>3. Where(n + 1)' = Where(m)'
        BY <1>1, <4>1 DEF Where
      <4> QED
        BY <1>4, <3>2, <4>1, <4>2, <4>3
    <3>4. sent[n + 1].pos \in Slot
      BY <1>0, <3>1, PacketType
    <3>5. sent[n + 1].pos = m_ReadPos'
      BY <1>1, <1>7, <3>3, <3>4, OffType DEF Where
    <3>6. Behind(committed) = Used
      BY <1>0, <1>2 DEF Placed
    <3>7. Behind(committed)' = Used'
      <4>1. Behind(committed)' = Behind(committed) - z
        BY <1>1, <1>8, <3>1
      <4> QED
        BY <1>7, <3>6, <4>1
    <3> QED
      BY <1>1, <1>2, <2>1, <2>2, <2>3, <2>4, <3>5, <3>7 DEF Placed
  <2>5. CASE ~(n + 1 <= committed)
    <3>1. n = committed
      BY <1>0, <2>5
    <3>2. Behind(committed) = Used
      BY <1>0, <1>2 DEF Placed
    <3>3. Used' = 0
      BY <1>4, <1>5, <1>7, <3>1, <3>2
    <3>4. m_ReadPos' = m_WritePos'
      BY <1>0, <1>1, <1>7, <3>3, OffType DEF Used
    <3> QED
      BY <1>1, <1>2, <2>1, <2>2, <2>3, <2>5, <3>4 DEF Placed
  <2> QED
    BY <2>4, <2>5
<1>11. Room'
  <2>1. ASSUME eePc \in {"write", "commit"} PROVE Used' + eeOp.size < RingBufferSize
    <3>1. Used + eeOp.size < RingBufferSize /\ eeOp.size \in Nat /\ Used \in Nat /\ RingBufferSize \in Nat
      BY <1>0, <2>1, RoomLeft, MTGSAssumption DEF Room, TypeOK, Op
    <3> QED
      BY <1>4, <1>7, <3>1
  <2> QED
    BY <1>0, <1>1, <2>1 DEF Room, PacketIntact
<1>12. RingIntact'
  BY <1>0, <1>1 DEF RingIntact, PacketIntact
<1> QED
  BY <1>9, <1>10, <1>11, <1>12 DEF RingInv

\* A packet is written into the room behind m_WritePos: the others stay whole.
LEMMA WriteRing ==
  ASSUME TypeOK, RingInv, EEWrite
  PROVE  RingInv'
<1> DEFINE n == Len(sent) + 1
           z == eeOp.size
<1>0. /\ Numbered /\ Placed /\ Room /\ RingIntact
      /\ Len(sent) \in Nat /\ committed \in Nat /\ Len(executed) \in Nat /\ FirstInRing \in Nat \ {0}
      /\ m_ReadPos \in Slot /\ m_WritePos \in Slot /\ z \in Nat \ {0} /\ RingBufferSize \in Nat
      /\ Used \in 0 .. RingBufferSize - 1
  BY RingFacts, RoomLeft, MTGSAssumption DEF RingInv, TypeOK, Op
<1>1. /\ UNCHANGED <<m_ReadPos, m_WritePos, committed, executed, eeOp, gsPc, gsOp>>
      /\ eePc = "write" /\ eePc' = "commit"
      /\ sent' = Append(sent, [cmd |-> eeOp.cmd, size |-> z, pos |-> m_WritePos])
      /\ RingBuffer' = [s \in Slot |-> IF (s - m_WritePos) % RingBufferSize < z
                                         THEN Word(n, (s - m_WritePos) % RingBufferSize)
                                         ELSE RingBuffer[s]]
  BY DEF EEWrite, EEGoto, gs
<1>2. Used + z < RingBufferSize /\ Len(sent) = committed
  BY <1>0, <1>1 DEF Room, Numbered, One
<1>3. /\ Len(sent') = n /\ sent'[n] = [cmd |-> eeOp.cmd, size |-> z, pos |-> m_WritePos]
      /\ \A m \in 1 .. Len(sent) : sent'[m] = sent[m]
  <2>1. [cmd |-> eeOp.cmd, size |-> z, pos |-> m_WritePos] \in [cmd : Cmds, size : Nat \ {0}, pos : Slot]
    BY <1>0 DEF TypeOK, Op
  <2>2. sent \in Seq([cmd : Cmds, size : Nat \ {0}, pos : Slot])
    BY DEF TypeOK
  <2> QED
    BY <1>0, <1>1, <2>1, <2>2, AppendProperties
<1>4. \A s \in Slot : RingBuffer'[s] = IF Off(m_WritePos, s) < z THEN Word(n, Off(m_WritePos, s))
                                                                ELSE RingBuffer[s]
  BY <1>0, <1>1, OffDiff
<1>5. /\ Used' = Used /\ FirstInRing' = FirstInRing
      /\ \A m \in FirstInRing .. committed : Where(m)' = Where(m) /\ Behind(m)' = Behind(m)
      /\ \A m \in FirstInRing .. committed : sent'[m] = sent[m]
  <2>1. Used' = Used /\ FirstInRing' = FirstInRing
    BY <1>1 DEF Used, FirstInRing, Reading, One
  <2>2. \A m \in FirstInRing .. committed : m \in 1 .. Len(sent)
    BY <1>0, <1>2
  <2> QED
    BY <1>1, <1>3, <2>1, <2>2 DEF Where, Behind
<1>6. Numbered'
  <2>1. Reading => sent'[Len(executed)] = sent[Len(executed)]
    <3>1. Reading => Len(executed) \in 1 .. Len(sent)
      BY <1>0, RingFacts DEF Numbered
    <3> QED
      BY <1>3, <3>1
  <2>2. Len(sent') = committed' + One(eePc' = "commit")
    BY <1>1, <1>2, <1>3 DEF One
  <2>3. Reading' = Reading
    BY <1>1 DEF Reading
  <2> QED
    BY <1>0, <1>1, <2>1, <2>2, <2>3 DEF Numbered
<1>7. Placed'
  <2>1. FirstInRing <= committed =>
          FirstInRing \in FirstInRing .. committed /\ committed \in FirstInRing .. committed
    BY <1>0
  <2>2. \A m \in FirstInRing .. committed - 1 :
          m \in FirstInRing .. committed /\ m + 1 \in FirstInRing .. committed
    BY <1>0
  <2>3. /\ \A m \in FirstInRing .. committed : Behind(m)' <= Used'
        /\ \A l, m \in FirstInRing .. committed : l < m => Behind(l)' <= Where(m)'
        /\ \A m \in FirstInRing .. committed - 1 : Where(m + 1)' = Behind(m)'
    BY <1>0, <1>5, <2>2 DEF Placed
  <2>4. CASE FirstInRing <= committed
    <3>1. sent'[FirstInRing].pos = m_ReadPos' /\ Behind(committed)' = Used'
      BY <1>0, <1>1, <1>5, <2>1, <2>4 DEF Placed
    <3> QED
      BY <1>1, <1>5, <2>3, <2>4, <3>1 DEF Placed
  <2>5. CASE ~(FirstInRing <= committed)
    <3>1. m_ReadPos' = m_WritePos'
      BY <1>0, <1>1, <2>5 DEF Placed
    <3> QED
      BY <1>1, <1>5, <2>3, <2>5, <3>1 DEF Placed
  <2> QED
    BY <2>4, <2>5
<1>8. Room'
  <2>1. ASSUME NEW k \in 0 .. z - 1
        PROVE  RingBuffer'[(m_WritePos + k) % RingBufferSize] = Word(n, k)
    <3>1. k \in Nat /\ 0 + k < RingBufferSize /\ Off(m_WritePos, m_WritePos) = 0 /\ k < z
      BY <1>0, <1>2, OffType
    <3>2. /\ (m_WritePos + k) % RingBufferSize \in Slot
          /\ Off(m_WritePos, (m_WritePos + k) % RingBufferSize) = k
      BY <1>0, <3>1, OffStep
    <3> QED
      BY <1>4, <3>1, <3>2
  <2>2. PacketIntact(Len(sent), m_WritePos)'
    <3>1. Len(sent)' = n /\ sent'[n].size = z /\ m_WritePos' = m_WritePos
      BY <1>1, <1>3
    <3>2. \A k \in 0 .. sent'[n].size - 1 :
            RingBuffer'[(m_WritePos + k) % RingBufferSize] = Word(n, k)
      BY <2>1, <3>1
    <3> HIDE DEF n
    <3> QED
      BY <3>1, <3>2 DEF PacketIntact
  <2> QED
    BY <1>1, <1>2, <1>3, <1>5, <2>2 DEF Room
<1>9. RingIntact'
  <2> SUFFICES ASSUME NEW m \in Len(executed) + 1 .. committed, NEW k \in 0 .. sent'[m].size - 1
               PROVE  RingBuffer'[(sent'[m].pos + k) % RingBufferSize] = Word(m, k)
    BY <1>1 DEF RingIntact, PacketIntact
  <2>1. m \in FirstInRing .. committed /\ m \in 1 .. Len(sent)
    BY <1>0, RingFacts
  <2>2. sent'[m] = sent[m] /\ sent[m].pos \in Slot
    BY <1>5, <2>1, PacketType
  <2>3. PICK y \in Nat, w \in Nat, u \in Nat :
          y = sent[m].size /\ w = Where(m) /\ u = Used /\ w + y = Behind(m) /\ w + y <= u
          /\ u + z < RingBufferSize
    <3>1. sent[m].size \in Nat /\ Where(m) \in Nat /\ Used \in Nat /\ Behind(m) \in Nat
      BY <1>0, <2>1, PacketType, PlaceType
    <3>2. Behind(m) <= Used /\ Behind(m) = Where(m) + sent[m].size
      BY <1>0, <2>1, PlaceType DEF Placed
    <3> QED
      BY <1>2, <3>1, <3>2
  <2>4. k \in Nat /\ k < y
    BY <2>2, <2>3
  <2> DEFINE t == (sent[m].pos + k) % RingBufferSize
  <2>5. t \in Slot /\ Off(m_ReadPos, t) = w + k
    <3>1. Off(m_ReadPos, sent[m].pos) + k < RingBufferSize
      BY <1>0, <2>3, <2>4, SMTT(60) DEF Where
    <3> QED
      BY <1>0, <2>2, <2>3, <2>4, <3>1, OffStep, SMTT(60) DEF Where
  <2>6. Off(m_WritePos, t) = w + k - u + RingBufferSize
    <3> HIDE DEF t
    <3>1. Off(m_ReadPos, m_WritePos) = u
      BY <2>3 DEF Used
    <3>2. w + k < u
      BY <2>3, <2>4
    <3>3. Off(m_ReadPos, t) < Off(m_ReadPos, m_WritePos)
      BY <2>5, <3>1, <3>2
    <3>4. Off(m_WritePos, t) = Off(m_ReadPos, t) - Off(m_ReadPos, m_WritePos) + RingBufferSize
      BY <1>0, <2>5, <3>3, OffBefore
    <3> QED
      BY <2>5, <3>1, <3>4
  <2>7. ~(w + k - u + RingBufferSize < z)
    BY <1>0, <2>3, <2>4, SMTT(60)
  <2>8. RingBuffer'[t] = RingBuffer[t]
    BY <1>4, <2>5, <2>6, <2>7
  <2>9. RingBuffer[t] = Word(m, k)
    BY <1>0, <2>2 DEF RingIntact, PacketIntact
  <2> QED
    BY <2>2, <2>8, <2>9
<1> QED
  BY <1>6, <1>7, <1>8, <1>9 DEF RingInv

\* The packet is published: it is the last one in the ring.
LEMMA CommitRing ==
  ASSUME TypeOK, RingInv, EECommit
  PROVE  RingInv'
<1> DEFINE c == committed + 1
           z == eeOp.size
<1>0. /\ Numbered /\ Placed /\ Room /\ RingIntact
      /\ Len(sent) \in Nat /\ committed \in Nat /\ Len(executed) \in Nat /\ FirstInRing \in Nat \ {0}
      /\ FirstInRing <= c /\ Len(executed) <= committed
      /\ m_ReadPos \in Slot /\ m_WritePos \in Slot /\ z \in Nat \ {0} /\ RingBufferSize \in Nat
      /\ Used \in 0 .. RingBufferSize - 1
  BY RingFacts, RoomLeft, MTGSAssumption DEF RingInv, TypeOK, Op
<1>1. /\ UNCHANGED <<RingBuffer, m_ReadPos, sent, executed, eeOp, gsPc, gsOp>>
      /\ eePc = "commit" /\ eePc' = "tally"
      /\ m_WritePos' = (m_WritePos + z) % RingBufferSize
      /\ committed' = Len(sent)
  BY DEF EECommit, EEGoto, gs
<1>2. /\ Used + z < RingBufferSize /\ Len(sent) = c
      /\ sent[c] = [cmd |-> eeOp.cmd, size |-> z, pos |-> m_WritePos]
      /\ PacketIntact(c, m_WritePos)
  BY <1>0, <1>1 DEF Room, Numbered, One
<1>3. Used' = Used + z
  BY <1>0, <1>1, <1>2, OffStep DEF Used
<1>4. /\ FirstInRing' = FirstInRing /\ Where(c) = Used /\ Behind(c) = Used + z
      /\ \A m : Where(m)' = Where(m) /\ Behind(m)' = Behind(m)
  <2>1. FirstInRing' = FirstInRing
    BY <1>1 DEF FirstInRing, Reading, One
  <2>2. sent[c].pos = m_WritePos /\ sent[c].size = z
    BY <1>2
  <2>3. Where(c) = Used /\ Behind(c) = Used + z
    <3> HIDE DEF c, z
    <3> QED
      BY <2>2 DEF Where, Behind, Used
  <2>4. \A m : Where(m)' = Where(m) /\ Behind(m)' = Behind(m)
    BY <1>1 DEF Where, Behind
  <2> QED
    BY <2>1, <2>3, <2>4
<1>5. Numbered'
  <2>1. /\ Len(executed') <= committed' /\ Len(sent') = committed' + One(eePc' = "commit")
        /\ \A i \in 1 .. Len(executed') : executed'[i] = i
    BY <1>0, <1>1, <1>2 DEF Numbered, One
  <2>2. /\ gsPc' # "wild" /\ (gsPc' = "exec" => m_ReadPos # m_WritePos)
        /\ Reading' = Reading /\ sent' = sent
        /\ (Reading => Len(executed) > 0 /\ gsOp.size = sent[Len(executed)].size)
    BY <1>0, <1>1 DEF Numbered, Reading
  <2>3. m_ReadPos = m_ReadPos' /\ (gsPc' = "exec" => m_ReadPos' # m_WritePos')
    <3>1. m_ReadPos # m_WritePos => Used # 0
      BY <1>0, OffType DEF Used
    <3>2. m_ReadPos # m_WritePos => Used' # 0
      BY <1>0, <1>3
    <3>3. m_WritePos' \in Slot /\ m_ReadPos' = m_ReadPos
      BY <1>0, <1>1, <1>2, OffStep DEF Used
    <3>4. m_ReadPos # m_WritePos => m_ReadPos' # m_WritePos'
      BY <1>0, <3>2, <3>3, OffType DEF Used
    <3> QED
      BY <2>2, <3>3, <3>4
  <2> QED
    BY <1>1, <2>1, <2>2, <2>3 DEF Numbered
<1>6. Placed'
  <2>0. \A m \in FirstInRing .. c : m = c \/ m \in FirstInRing .. committed
    BY <1>0
  <2>5. \A m \in FirstInRing .. committed : Behind(m) <= Used /\ Behind(m) \in Nat
    <3>1. \A m \in FirstInRing .. committed : m \in 1 .. Len(sent)
      BY <1>0, <1>2
    <3> QED
      BY <1>0, <3>1, PlaceType DEF Placed
  <2>1. ASSUME NEW m \in FirstInRing .. c PROVE Behind(m) <= Used + z
    BY <1>0, <1>4, <2>0, <2>5
  <2>2. ASSUME NEW l \in FirstInRing .. c, NEW m \in FirstInRing .. c, l < m
        PROVE  Behind(l) <= Where(m)
    <3>1. l \in FirstInRing .. committed
      BY <1>0, <2>2
    <3> QED
      BY <1>0, <1>4, <2>0, <2>2, <2>5, <3>1 DEF Placed
  <2>3. ASSUME NEW m \in FirstInRing .. c - 1 PROVE Where(m + 1) = Behind(m)
    <3>1. CASE m = committed
      BY <1>0, <1>4, <3>1 DEF Placed
    <3>2. CASE m # committed
      <4>1. m \in FirstInRing .. committed - 1
        BY <1>0, <3>2
      <4> QED
        BY <1>0, <4>1 DEF Placed
    <3> QED
      BY <3>1, <3>2
  <2>4. sent[FirstInRing].pos = m_ReadPos
    <3>1. CASE FirstInRing = c
      <4>1. m_ReadPos = m_WritePos
        BY <1>0, <3>1 DEF Placed
      <4> QED
        BY <1>2, <3>1, <4>1
    <3>2. CASE FirstInRing # c
      <4>1. FirstInRing <= committed
        BY <1>0, <3>2
      <4> QED
        BY <1>0, <4>1 DEF Placed
    <3> QED
      BY <3>1, <3>2
  <2> QED
    BY <1>0, <1>1, <1>2, <1>3, <1>4, <2>1, <2>2, <2>3, <2>4 DEF Placed
<1>7. Room'
  BY <1>1 DEF Room
<1>8. RingIntact'
  <2>1. ASSUME NEW m \in Len(executed) + 1 .. c PROVE PacketIntact(m, sent[m].pos)
    <3>1. CASE m = c
      BY <1>2, <3>1
    <3>2. CASE m # c
      <4>1. m \in Len(executed) + 1 .. committed
        BY <1>0, <3>2
      <4> QED
        BY <1>0, <4>1 DEF RingIntact
    <3> QED
      BY <3>1, <3>2
  <2> QED
    BY <1>1, <1>2, <2>1 DEF RingIntact, PacketIntact
<1> QED
  BY <1>5, <1>6, <1>7, <1>8 DEF RingInv

\* A step other than the four below leaves the packets alone and asks only what
\* RingSame asks.
LEMMA RingStep ==
  ASSUME TypeOK, RingInv, [Next]_vars
  PROVE  RingInv'
<1> USE DEF ringvars, ee, gs, vu, hist, EEGoto, GSGoto, Reading
<1>0. FreeRoom > eeOp.size => Used + eeOp.size < RingBufferSize
  <2>1. eeOp.size \in Nat /\ RingBufferSize \in Nat /\ Used \in Nat
    BY RoomLeft, MTGSAssumption DEF TypeOK, Op
  <2> QED
    BY <2>1, RoomLeft
<1>00. /\ eePc = "write" => Used + eeOp.size < RingBufferSize
       /\ gsPc # "wild" /\ (gsPc = "exec" => m_ReadPos # m_WritePos)
  BY DEF RingInv, Room, Numbered
<1>1. CASE EESend
  BY <1>0, <1>00, <1>1, RingSame DEF EESend
<1>2. CASE EEResetGS
  BY <1>0, <1>00, <1>2, RingSame DEF EEResetGS
<1>3. CASE EECallWaitGS
  BY <1>0, <1>00, <1>3, RingSame DEF EECallWaitGS
<1>4. CASE EEGenericStall
  BY <1>0, <1>00, <1>4, RingSame DEF EEGenericStall
<1>5. CASE EEStallEnable
  BY <1>0, <1>00, <1>5, RingSame DEF EEStallEnable
<1>6. CASE EEStallEvent
  BY <1>0, <1>00, <1>6, RingSame DEF EEStallEvent
<1>7. CASE EEStallWait
  BY <1>0, <1>00, <1>7, RingSame DEF EEStallWait
<1>8. CASE EEStallRecheck
  BY <1>0, <1>00, <1>8, RingSame DEF EEStallRecheck
<1>9. CASE EESpinEvent
  BY <1>0, <1>00, <1>9, RingSame DEF EESpinEvent
<1>10. CASE EESpin
  BY <1>0, <1>00, <1>10, RingSame DEF EESpin
<1>11. CASE EETally
  BY <1>0, <1>00, <1>11, RingSame DEF EETally
<1>38. CASE EETallyMore
  BY <1>0, <1>00, <1>38, RingSame DEF EETallyMore
<1>39. CASE EETallyTest
  BY <1>0, <1>00, <1>39, RingSame DEF EETallyTest
<1>12. CASE EETallyEvent
  BY <1>0, <1>00, <1>12, RingSame DEF EETallyEvent
<1>13. CASE EEVsyncTest
  BY <1>0, <1>00, <1>13, RingSame DEF EEVsyncTest
<1>14. CASE EEVsyncEvent
  BY <1>0, <1>00, <1>14, RingSame DEF EEVsyncEvent
<1>15. CASE EEQueueFrame
  BY <1>0, <1>00, <1>15, RingSame DEF EEQueueFrame
<1>16. CASE EEVsyncListen
  BY <1>0, <1>00, <1>16, RingSame DEF EEVsyncListen
<1>17. CASE EEVsyncPost
  BY <1>0, <1>00, <1>17, RingSame DEF EEVsyncPost
<1>18. CASE EEVsyncWait
  BY <1>0, <1>00, <1>18, RingSame DEF EEVsyncWait
<1>19. CASE EEWaitEvent
  BY <1>0, <1>00, <1>19, RingSame DEF EEWaitEvent
<1>20. CASE EEWaitGS
  BY <1>0, <1>00, <1>20, RingSame DEF EEWaitGS
<1>21. CASE GSEnter
  BY <1>0, <1>00, <1>21, RingSame DEF GSEnter
<1>22. CASE GSWake
  BY <1>0, <1>00, <1>22, RingSame DEF GSWake
<1>23. CASE GSCheck
  BY <1>0, <1>00, <1>23, RingSame DEF GSCheck
<1>24. CASE GSVsync
  BY <1>0, <1>00, <1>24, RingSame DEF GSVsync
<1>25. CASE GSSignal
  BY <1>0, <1>00, <1>25, RingSame DEF GSSignal
<1>26. CASE GSReturn
  BY <1>0, <1>00, <1>26, RingSame DEF GSReturn
<1>27. CASE GSEmpty
  BY <1>0, <1>00, <1>27, RingSame DEF GSEmpty
<1>28. CASE GSEmptyVsync
  BY <1>0, <1>00, <1>28, RingSame DEF GSEmptyVsync
<1>29. CASE GSFinishVsync
  BY <1>0, <1>00, <1>29, RingSame DEF GSFinishVsync
<1>30. CASE GSFinishTask
  BY <1>0, <1>00, <1>30, RingSame DEF GSFinishTask
<1>31. CASE VUSetEventPost
  BY <1>0, <1>00, <1>31, RingSame DEF VUSetEventPost
<1>32. CASE VUSetEventClear
  BY <1>0, <1>00, <1>32, RingSame DEF VUSetEventClear
<1>33. CASE EEWrite
  BY <1>33, WriteRing
<1>34. CASE EECommit
  BY <1>34, CommitRing
<1>35. CASE GSExecute
  BY <1>35, ExecuteRing
<1>36. CASE GSAdvance
  BY <1>36, AdvanceRing
<1>37. CASE UNCHANGED vars
  BY <1>0, <1>00, <1>37, RingSame DEF vars
<1> QED
  BY <1>1, <1>2, <1>3, <1>4, <1>5, <1>6, <1>7, <1>8, <1>9, <1>10, <1>11, <1>12, <1>13, <1>14, <1>15, <1>16, <1>17, <1>18, <1>19, <1>20, <1>21, <1>22, <1>23, <1>24, <1>25, <1>26, <1>27, <1>28, <1>29, <1>30, <1>31, <1>32, <1>33, <1>34, <1>35, <1>36, <1>37, <1>38, <1>39
     DEF Next, EECall, EEStep, GSStep, VUStep

-----------------------------------------------------------------------------
(* Types *)

\* Every step keeps its variables in their sets; what the GS takes is a packet.
LEMMA TypeStep ==
  ASSUME TypeOK, RingInv, [Next]_vars
  PROVE  TypeOK'
<1> USE MTGSAssumption
        DEF ringvars, signals, sems, ee, gs, vu, hist, EEGoto, GSGoto, EEPcs, GSPcs
<1>0. TypeOK
  OBVIOUS
<1>41. AnswerListener => m_VsyncSignalListener' \in BOOLEAN /\ m_sem_Vsync' \in Nat
  <2>1. m_sem_Vsync \in Nat /\ m_sem_Vsync + 1 \in Nat
    BY DEF TypeOK
  <2> QED
    BY <2>1, Zenon DEF AnswerListener
<1>42. AnswerRingSignal => /\ m_SignalRingEnable' \in BOOLEAN /\ m_sem_OnRingReset' \in Nat
                           /\ m_SignalRingPosition' \in Int
                           /\ UNCHANGED <<m_QueuedFrameCount, m_VsyncSignalListener, m_CopyDataTally,
                                          m_sem_event, m_sem_Vsync>>
  <2>1. m_sem_OnRingReset \in Nat /\ m_sem_OnRingReset + 1 \in Nat /\ m_SignalRingPosition \in Int /\ 0 \in Int
    BY DEF TypeOK
  <2> QED
    BY <2>1, Zenon DEF AnswerRingSignal
<1>43. /\ Simple("SIMPLE") \in Op /\ Simple("RESET") \in Op /\ Simple("FRAMESKIP") \in Op
       /\ GSPacket \in Op /\ Vsync \in Op
  BY DEF Simple, GSPacket, Vsync, Op, Cmds
<1>1. CASE EESend
  <2>1. eeOp' \in Op /\ eePc' = "stall"
    BY <1>1, <1>43, Zenon DEF EESend
  <2>2. UNCHANGED <<ringvars, signals, sems, gs, vu, hist, finishes>>
    BY <1>1, Zenon DEF EESend
  <2> QED
    BY <1>0, <2>1, <2>2 DEF TypeOK
<1>2. CASE EEResetGS
  <2>1. /\ eeOp' = Simple("RESET") /\ eePc' = "stall" /\ m_ReadPos' = m_WritePos
        /\ m_QueuedFrameCount' = 0 /\ m_VsyncSignalListener' = FALSE
    BY <1>2, Zenon DEF EEResetGS
  <2>2. UNCHANGED <<RingBuffer, m_WritePos, m_SignalRingEnable, m_SignalRingPosition,
                    m_CopyDataTally, sems, gs, vu, hist, finishes>>
    BY <1>2, Zenon DEF EEResetGS
  <2>3. eeOp' \in Op /\ m_ReadPos' \in Slot /\ m_QueuedFrameCount' \in Int
    BY <1>43, <2>1 DEF TypeOK
  <2> QED
    BY <1>0, <2>1, <2>2, <2>3 DEF TypeOK
<1>3. CASE EECallWaitGS
  BY <1>0, <1>3 DEF TypeOK, EECallWaitGS
<1>4. CASE EEGenericStall
  <2>1. SomeDone(eeOp.size) \in Int
    <3>1. FreeRoom \in Int /\ eeOp.size \in Nat
      BY RoomLeft DEF TypeOK, Op
    <3> QED
      BY <3>1 DEF SomeDone
  <2>2. m_SignalRingPosition' \in Int /\ eePc' \in EEPcs
    BY <1>4, <2>1 DEF EEGenericStall, TypeOK
  <2> QED
    BY <1>4, <2>2 DEF EEGenericStall, TypeOK
<1>5. CASE EEStallEnable
  BY <1>0, <1>5 DEF TypeOK, EEStallEnable
<1>6. CASE EEStallEvent
  BY <1>0, <1>6 DEF TypeOK, EEStallEvent, EESetEvent
<1>7. CASE EEStallWait
  BY <1>0, <1>7 DEF TypeOK, EEStallWait
<1>8. CASE EEStallRecheck
  BY <1>0, <1>8 DEF TypeOK, EEStallRecheck
<1>9. CASE EESpinEvent
  BY <1>0, <1>9 DEF TypeOK, EESpinEvent, EESetEvent
<1>10. CASE EESpin
  BY <1>0, <1>10 DEF TypeOK, EESpin
<1>11. CASE EETally
  <2>1. m_CopyDataTally' \in Nat
    <3>1. m_CopyDataTally \in Nat
      BY DEF TypeOK
    <3> QED
      BY <1>11, <3>1 DEF EETally
  <2>2. eePc' \in EEPcs /\ eeOp' \in {eeOp, Simple("FRAMESKIP")}
    BY <1>11 DEF EETally
  <2>3. eeOp' \in Op
    BY <1>43, <2>2 DEF TypeOK
  <2> QED
    BY <1>0, <1>11, <2>1, <2>2, <2>3 DEF TypeOK, EETally
<1>38. CASE EETallyMore
  <2>1. m_CopyDataTally' \in Nat
    <3>1. m_CopyDataTally \in Nat
      BY DEF TypeOK
    <3> QED
      BY <1>38, <3>1, MTGSAssumption DEF EETallyMore
  <2> QED
    BY <1>0, <1>38, <2>1 DEF TypeOK, EETallyMore
<1>39. CASE EETallyTest
  BY <1>0, <1>39 DEF TypeOK, EETallyTest
<1>12. CASE EETallyEvent
  BY <1>0, <1>12 DEF TypeOK, EETallyEvent, EESetEvent
<1>13. CASE EEVsyncTest
  BY <1>0, <1>13 DEF TypeOK, EEVsyncTest
<1>14. CASE EEVsyncEvent
  BY <1>0, <1>14 DEF TypeOK, EEVsyncEvent, EESetEvent
<1>15. CASE EEQueueFrame
  BY <1>0, <1>15 DEF TypeOK, EEQueueFrame
<1>16. CASE EEVsyncListen
  BY <1>0, <1>16 DEF TypeOK, EEVsyncListen
<1>17. CASE EEVsyncPost
  BY <1>0, <1>17 DEF TypeOK, EEVsyncPost
<1>18. CASE EEVsyncWait
  BY <1>0, <1>18 DEF TypeOK, EEVsyncWait
<1>19. CASE EEWaitEvent
  BY <1>0, <1>19 DEF TypeOK, EEWaitEvent, EESetEvent
<1>20. CASE EEWaitGS
  BY <1>0, <1>20 DEF TypeOK, EEWaitGS
<1>21. CASE GSEnter
  BY <1>0, <1>21 DEF TypeOK, GSEnter
<1>22. CASE GSWake
  BY <1>0, <1>22 DEF TypeOK, GSWake
<1>23. CASE GSCheck
  BY <1>0, <1>23 DEF TypeOK, GSCheck
<1>24. CASE GSVsync
  <2>1. AnswerListener
    BY <1>24 DEF GSVsync
  <2> QED
    BY <1>0, <1>41, <1>24, <2>1 DEF TypeOK, GSVsync
<1>25. CASE GSSignal
  <2>1. m_SignalRingPosition - gsOp.size \in Int /\ m_SignalRingPosition \in Int
        /\ m_sem_OnRingReset \in Nat /\ m_sem_OnRingReset + 1 \in Nat
    BY DEF TypeOK, Op
  <2>2. m_SignalRingPosition' \in {m_SignalRingPosition - gsOp.size, m_SignalRingPosition}
        /\ gsPc' \in {"check", "return"} /\ gsOp' = gsOp
    BY <1>25, Zenon DEF GSSignal
  <2>3. /\ m_SignalRingEnable' \in {FALSE, m_SignalRingEnable}
        /\ m_sem_OnRingReset' \in {m_sem_OnRingReset, m_sem_OnRingReset + 1}
    BY <1>25, Zenon DEF GSSignal
  <2>4. m_SignalRingEnable' \in BOOLEAN
    BY <2>3, Zenon DEF TypeOK
  <2>5. m_SignalRingPosition' \in Int /\ m_sem_OnRingReset' \in Nat
    BY <2>1, <2>2, <2>3
  <2> QED
    BY <1>0, <1>25, <2>2, <2>4, <2>5 DEF TypeOK, GSSignal
<1>26. CASE GSReturn
  <2>1. AnswerRingSignal
    BY <1>26 DEF GSReturn
  <2> QED
    BY <1>0, <1>42, <1>26, <2>1 DEF TypeOK, GSReturn
<1>27. CASE GSEmpty
  <2>1. AnswerRingSignal
    BY <1>27 DEF GSEmpty
  <2> QED
    BY <1>0, <1>42, <1>27, <2>1 DEF TypeOK, GSEmpty
<1>28. CASE GSEmptyVsync
  <2>1. AnswerListener
    BY <1>28 DEF GSEmptyVsync
  <2> QED
    BY <1>0, <1>41, <1>28, <2>1 DEF TypeOK, GSEmptyVsync
<1>29. CASE GSFinishVsync
  <2>1. AnswerListener
    BY <1>29 DEF GSFinishVsync
  <2> QED
    BY <1>0, <1>41, <1>29, <2>1 DEF TypeOK, GSFinishVsync
<1>30. CASE GSFinishTask
  <2>1. AnswerRingSignal
    BY <1>30 DEF GSFinishTask
  <2> QED
    BY <1>0, <1>42, <1>30, <2>1 DEF TypeOK, GSFinishTask
<1>31. CASE VUSetEventPost
  BY <1>0, <1>31 DEF TypeOK, VUSetEventPost
<1>32. CASE VUSetEventClear
  BY <1>0, <1>32 DEF TypeOK, VUSetEventClear
<1>33. CASE EEWrite
  <2> DEFINE k(s) == (s - m_WritePos) % RingBufferSize
  <2>1. m_WritePos \in Slot /\ Len(sent) \in Nat
    BY LenProperties DEF TypeOK
  <2>2. \A s \in Slot : k(s) \in Nat
    <3>1. \A s \in Slot : k(s) = Off(m_WritePos, s) /\ Off(m_WritePos, s) \in Nat
      BY <2>1, OffDiff, OffType
    <3> QED
      BY <3>1
  <2>3. RingBuffer' = [s \in Slot |-> IF k(s) < eeOp.size THEN Word(Len(sent) + 1, k(s)) ELSE RingBuffer[s]]
    BY <1>33 DEF EEWrite
  <2>4. RingBuffer' \in [Slot -> [seq : Nat, off : Nat]]
    <3> HIDE DEF k
    <3>1. \A s \in Slot : Word(Len(sent) + 1, k(s)) \in [seq : Nat, off : Nat]
      BY <2>1, <2>2 DEF Word
    <3>2. \A s \in Slot : RingBuffer[s] \in [seq : Nat, off : Nat]
      BY DEF TypeOK
    <3> QED
      BY <2>3, <3>1, <3>2
  <2>5. sent' \in Seq([cmd : Cmds, size : Nat \ {0}, pos : Slot]) /\ Len(sent') = Len(sent) + 1
    <3>1. [cmd |-> eeOp.cmd, size |-> eeOp.size, pos |-> m_WritePos] \in [cmd : Cmds, size : Nat \ {0}, pos : Slot]
      BY <2>1 DEF TypeOK, Op
    <3>2. sent' = Append(sent, [cmd |-> eeOp.cmd, size |-> eeOp.size, pos |-> m_WritePos])
      BY <1>33 DEF EEWrite
    <3> QED
      BY <3>1, <3>2, AppendProperties DEF TypeOK
  <2>6. committed' \in 0 .. Len(sent')
    <3>1. committed' = committed /\ committed \in 0 .. Len(sent)
      BY <1>33 DEF EEWrite, TypeOK
    <3> QED
      BY <2>1, <2>5, <3>1
  <2> QED
    BY <1>33, <2>4, <2>5, <2>6 DEF EEWrite, TypeOK
<1>34. CASE EECommit
  <2>1. (m_WritePos + eeOp.size) % RingBufferSize \in Slot
    BY <1>34, RoomLeft, OffStep DEF EECommit, RingInv, Room, TypeOK, Op, Used
  <2>2. committed' \in 0 .. Len(sent)
    BY <1>34, LenProperties DEF EECommit, TypeOK
  <2> QED
    BY <1>34, <2>1, <2>2 DEF EECommit, TypeOK
<1>35. CASE GSExecute
  <2> DEFINE m == Len(executed) + 1
  <2>1. /\ m \in 1 .. Len(sent) /\ executed' = Append(executed, m)
        /\ gsOp' = [cmd |-> sent[m].cmd, size |-> sent[m].size]
        /\ gsPc' \in {"vsync", "advance"}
        /\ m_QueuedFrameCount' \in {m_QueuedFrameCount, m_QueuedFrameCount - 1}
    BY <1>35, ExecuteReads
  <2>2. executed' \in Seq(Nat)
    <3>1. m \in Nat /\ executed \in Seq(Nat)
      BY LenProperties DEF TypeOK
    <3> QED
      BY <2>1, <3>1, AppendProperties
  <2>3. gsOp' \in Op
    <3>1. sent[m].size \in Nat \ {0} /\ sent[m].cmd \in Cmds
      BY <2>1, PacketType
    <3> QED
      BY <2>1, <3>1 DEF Op
  <2>4. m_QueuedFrameCount' \in Int
    BY <2>1 DEF TypeOK
  <2> QED
    BY <1>35, <2>1, <2>2, <2>3, <2>4 DEF GSExecute, TypeOK
<1>36. CASE GSAdvance
  <2>1. /\ gsPc = "advance" /\ gsPc' = "signal"
        /\ m_ReadPos' = (m_ReadPos + gsOp.size) % RingBufferSize
    BY <1>36 DEF GSAdvance
  <2>2. m_ReadPos' \in Slot
    <3>1. m_ReadPos \in Nat /\ m_ReadPos < RingBufferSize /\ gsOp.size \in Nat /\ RingBufferSize \in Nat
      BY DEF TypeOK, Op, Slot
    <3> QED
      BY <2>1, <3>1 DEF Slot
  <2> QED
    BY <1>36, <2>1, <2>2 DEF GSAdvance, TypeOK
<1>37. CASE UNCHANGED vars
  BY <1>0, <1>37 DEF TypeOK, vars
<1> QED
  BY <1>1, <1>2, <1>3, <1>4, <1>5, <1>6, <1>7, <1>8, <1>9, <1>10, <1>11, <1>12, <1>13, <1>14, <1>15, <1>16, <1>17, <1>18, <1>19, <1>20, <1>21, <1>22, <1>23, <1>24, <1>25, <1>26, <1>27, <1>28, <1>29, <1>30, <1>31, <1>32, <1>33, <1>34, <1>35, <1>36, <1>37, <1>38, <1>39
     DEF Next, EECall, EEStep, GSStep, VUStep

-----------------------------------------------------------------------------
(* Who owes whom a post *)

\* A request is open, or answered, or there is none.
LEMMA OneForm ==
  ASSUME NEW x \in Nat, NEW open \in BOOLEAN, NEW asked \in BOOLEAN
  PROVE  x + One(open) = One(asked) <=>
           \/ asked /\ open /\ x = 0
           \/ asked /\ ~open /\ x = 1
           \/ ~asked /\ ~open /\ x = 0
BY DEF One

\* SignalInv without the arithmetic.
RingAsked == eePc \in {"stallEvent", "stallWait"}
VsyncAsked == eePc \in {"vsyncPost", "vsyncWait"}
SignalCases ==
  /\ \/ RingAsked /\ m_SignalRingEnable /\ m_sem_OnRingReset = 0
     \/ RingAsked /\ ~m_SignalRingEnable /\ m_sem_OnRingReset = 1
     \/ ~RingAsked /\ ~m_SignalRingEnable /\ m_sem_OnRingReset = 0
  /\ \/ VsyncAsked /\ m_VsyncSignalListener /\ m_sem_Vsync = 0
     \/ VsyncAsked /\ ~m_VsyncSignalListener /\ m_sem_Vsync = 1
     \/ ~VsyncAsked /\ ~m_VsyncSignalListener /\ m_sem_Vsync = 0
  /\ (eePc = "recheck" \/ m_sem_OnRingReset = 1) => m_SignalRingPosition <= 0

\* Both forms say the same.
LEMMA SignalForm ==
  ASSUME TypeOK
  PROVE  SignalInv <=> SignalCases
<1>1. /\ m_sem_OnRingReset \in Nat /\ m_sem_Vsync \in Nat
      /\ m_SignalRingEnable \in BOOLEAN /\ m_VsyncSignalListener \in BOOLEAN
      /\ RingAsked \in BOOLEAN /\ VsyncAsked \in BOOLEAN
  BY DEF TypeOK, RingAsked, VsyncAsked
<1>2. m_sem_OnRingReset + One(m_SignalRingEnable) = One(RingAsked) <=>
           \/ RingAsked /\ m_SignalRingEnable /\ m_sem_OnRingReset = 0
           \/ RingAsked /\ ~m_SignalRingEnable /\ m_sem_OnRingReset = 1
           \/ ~RingAsked /\ ~m_SignalRingEnable /\ m_sem_OnRingReset = 0
  BY <1>1, OneForm, Zenon
<1>3. m_sem_Vsync + One(m_VsyncSignalListener) = One(VsyncAsked) <=>
           \/ VsyncAsked /\ m_VsyncSignalListener /\ m_sem_Vsync = 0
           \/ VsyncAsked /\ ~m_VsyncSignalListener /\ m_sem_Vsync = 1
           \/ ~VsyncAsked /\ ~m_VsyncSignalListener /\ m_sem_Vsync = 0
  BY <1>1, OneForm, Zenon
<1>4. SignalCases => (m_sem_OnRingReset > 0 <=> m_sem_OnRingReset = 1)
  BY <1>1 DEF SignalCases
<1>5. SignalInv => (m_sem_OnRingReset > 0 <=> m_sem_OnRingReset = 1)
  <2>1. SignalInv => m_sem_OnRingReset = 0 \/ m_sem_OnRingReset = 1
    BY <1>2, Zenon DEF SignalInv, RingAsked
  <2> QED
    BY <1>1, <2>1
<1> QED
  BY <1>2, <1>3, <1>4, <1>5, Zenon DEF SignalInv, SignalCases, RingAsked, VsyncAsked

\* Every step keeps SignalInv.
LEMMA SignalStep ==
  ASSUME TypeOK, TypeOK', SignalInv, [Next]_vars
  PROVE  SignalInv'
<1> USE DEF signals, sems, ee, EEGoto, RingAsked, VsyncAsked
<1>0. SignalCases
  BY SignalForm
<1> SUFFICES SignalCases'
  <2>1. SignalInv' <=> SignalCases'
    BY SignalForm, PTL
  <2> QED
    BY <2>1
<1>1. CASE EESend
  BY <1>0, <1>1 DEF SignalCases, EESend
<1>2. CASE EEResetGS
  BY <1>0, <1>2 DEF SignalCases, EEResetGS
<1>3. CASE EECallWaitGS
  BY <1>0, <1>3 DEF SignalCases, EECallWaitGS
<1>4. CASE EEGenericStall
  BY <1>0, <1>4 DEF SignalCases, EEGenericStall
<1>5. CASE EEStallEnable
  BY <1>0, <1>5 DEF SignalCases, EEStallEnable
<1>6. CASE EEStallEvent
  BY <1>0, <1>6 DEF SignalCases, EEStallEvent, EESetEvent
<1>7. CASE EEStallWait
  BY <1>0, <1>7 DEF SignalCases, EEStallWait
<1>8. CASE EEStallRecheck
  BY <1>0, <1>8 DEF SignalCases, EEStallRecheck
<1>9. CASE EESpinEvent
  BY <1>0, <1>9 DEF SignalCases, EESpinEvent, EESetEvent
<1>10. CASE EESpin
  BY <1>0, <1>10 DEF SignalCases, EESpin
<1>11. CASE EEWrite
  BY <1>0, <1>11 DEF SignalCases, EEWrite
<1>12. CASE EECommit
  BY <1>0, <1>12 DEF SignalCases, EECommit
<1>13. CASE EETally
  BY <1>0, <1>13 DEF SignalCases, EETally
<1>38. CASE EETallyMore
  BY <1>0, <1>38 DEF SignalCases, EETallyMore
<1>39. CASE EETallyTest
  BY <1>0, <1>39 DEF SignalCases, EETallyTest
<1>14. CASE EETallyEvent
  BY <1>0, <1>14 DEF SignalCases, EETallyEvent, EESetEvent
<1>15. CASE EEVsyncTest
  BY <1>0, <1>15 DEF SignalCases, EEVsyncTest
<1>16. CASE EEVsyncEvent
  BY <1>0, <1>16 DEF SignalCases, EEVsyncEvent, EESetEvent
<1>17. CASE EEQueueFrame
  BY <1>0, <1>17 DEF SignalCases, EEQueueFrame
<1>18. CASE EEVsyncListen
  BY <1>0, <1>18 DEF SignalCases, EEVsyncListen
<1>19. CASE EEVsyncPost
  BY <1>0, <1>19 DEF SignalCases, EEVsyncPost
<1>20. CASE EEVsyncWait
  BY <1>0, <1>20 DEF SignalCases, EEVsyncWait
<1>21. CASE EEWaitEvent
  BY <1>0, <1>21 DEF SignalCases, EEWaitEvent, EESetEvent
<1>22. CASE EEWaitGS
  BY <1>0, <1>22 DEF SignalCases, EEWaitGS
<1>23. CASE GSEnter
  BY <1>0, <1>23 DEF SignalCases, GSEnter
<1>24. CASE GSWake
  BY <1>0, <1>24 DEF SignalCases, GSWake
<1>25. CASE GSCheck
  BY <1>0, <1>25 DEF SignalCases, GSCheck
<1>26. CASE GSExecute
  BY <1>0, <1>26 DEF SignalCases, GSExecute
<1>27. CASE GSVsync
  BY <1>0, <1>27 DEF SignalCases, GSVsync, AnswerListener
<1>28. CASE GSAdvance
  BY <1>0, <1>28 DEF SignalCases, GSAdvance
<1>29. CASE GSSignal
  <2>1. m_SignalRingPosition \in Int /\ gsOp.size \in Nat
    BY DEF TypeOK, Op
  <2>2. m_SignalRingPosition <= 0 => m_SignalRingPosition - gsOp.size <= 0
    BY <2>1
  <2>3. CASE m_SignalRingEnable /\ m_SignalRingPosition <= 0
    BY <1>0, <1>29, <2>2, <2>3 DEF SignalCases, GSSignal
  <2>4. CASE m_SignalRingEnable /\ ~(m_SignalRingPosition <= 0)
    BY <1>0, <1>29, <2>4 DEF SignalCases, GSSignal
  <2>5. CASE ~m_SignalRingEnable
    BY <1>0, <1>29, <2>5 DEF SignalCases, GSSignal
  <2> QED
    BY <2>3, <2>4, <2>5
<1>30. CASE GSReturn
  BY <1>0, <1>30 DEF SignalCases, GSReturn, AnswerRingSignal
<1>31. CASE GSEmpty
  BY <1>0, <1>31 DEF SignalCases, GSEmpty, AnswerRingSignal
<1>32. CASE GSEmptyVsync
  BY <1>0, <1>32 DEF SignalCases, GSEmptyVsync, AnswerListener
<1>33. CASE GSFinishVsync
  BY <1>0, <1>33 DEF SignalCases, GSFinishVsync, AnswerListener
<1>34. CASE GSFinishTask
  BY <1>0, <1>34 DEF SignalCases, GSFinishTask, AnswerRingSignal
<1>35. CASE VUSetEventPost
  BY <1>0, <1>35 DEF SignalCases, VUSetEventPost
<1>36. CASE VUSetEventClear
  BY <1>0, <1>36 DEF SignalCases, VUSetEventClear
<1>37. CASE UNCHANGED vars
  BY <1>0, <1>37 DEF SignalCases, vars
<1> QED
  BY <1>1, <1>2, <1>3, <1>4, <1>5, <1>6, <1>7, <1>8, <1>9, <1>10, <1>11, <1>12, <1>13, <1>14, <1>15, <1>16, <1>17, <1>18, <1>19, <1>20, <1>21, <1>22, <1>23, <1>24, <1>25, <1>26, <1>27, <1>28, <1>29, <1>30, <1>31, <1>32, <1>33, <1>34, <1>35, <1>36, <1>37, <1>38, <1>39
     DEF Next, EECall, EEStep, GSStep, VUStep

-----------------------------------------------------------------------------
(* How many frames are queued *)

Pending == {n \in Len(executed) + 1 .. committed : sent[n].cmd = "VSYNC"}

\* The vsyncs in the ring can be counted; an empty ring has none.
LEMMA VsyncsType ==
  ASSUME TypeOK, RingInv
  PROVE  /\ QueuedVsyncs = Cardinality(Pending) /\ IsFiniteSet(Pending) /\ QueuedVsyncs \in Nat
         /\ Len(executed) = committed => QueuedVsyncs = 0
<1>1. Len(executed) + 1 \in Nat /\ committed \in Nat /\ Len(executed) \in Nat
  BY RingFacts
<1>2. IsFiniteSet(Len(executed) + 1 .. committed)
  BY <1>1, FS_Interval
<1>3. IsFiniteSet(Pending)
  <2>1. Pending \subseteq Len(executed) + 1 .. committed
    BY DEF Pending
  <2> QED
    BY <1>2, <2>1, FS_Subset
<1>4. QueuedVsyncs = Cardinality(Pending)
  BY DEF QueuedVsyncs, Pending
<1>5. Cardinality(Pending) \in Nat
  BY <1>3, FS_CardinalityType
<1>6. ASSUME Len(executed) = committed PROVE Cardinality(Pending) = 0
  <2>1. Len(executed) + 1 .. committed = {}
    BY <1>1, <1>6
  <2>2. Pending = {}
    BY <2>1 DEF Pending
  <2> QED
    BY <2>2, FS_EmptySet
<1> QED
  BY <1>3, <1>4, <1>5, <1>6

\* The GS finds nothing to read exactly when every published packet is executed
\* and passed.
LEMMA EmptyRing ==
  ASSUME TypeOK, RingInv, m_ReadPos = m_WritePos
  PROVE  ~Reading /\ Len(executed) = committed /\ QueuedVsyncs = 0
<1>1. /\ FirstInRing \in Nat \ {0} /\ committed \in Nat /\ committed <= Len(sent) /\ Len(sent) \in Nat
      /\ Len(executed) \in Nat /\ Len(executed) <= committed
  BY RingFacts
<1>2. Used = 0
  BY OffType DEF Used, TypeOK
<1>3. ~(FirstInRing <= committed)
  <2> SUFFICES ASSUME FirstInRing <= committed PROVE FALSE
    OBVIOUS
  <2>1. committed \in 1 .. Len(sent)
    BY <1>1
  <2>2. Behind(committed) > 0
    BY <2>1, PlaceType
  <2>3. Behind(committed) = Used
    BY DEF RingInv, Placed
  <2> QED
    BY <1>2, <2>2, <2>3
<1>4. ~Reading /\ Len(executed) = committed
  <2>1. FirstInRing = IF Reading THEN Len(executed) ELSE Len(executed) + 1
    BY <1>1 DEF FirstInRing, One
  <2> QED
    BY <1>1, <1>3, <2>1
<1> QED
  BY <1>4, VsyncsType

\* A packet that is written but not published does not count.
LEMMA WriteVsyncs ==
  ASSUME TypeOK, RingInv, EEWrite
  PROVE  QueuedVsyncs' = QueuedVsyncs
<1> DEFINE packet == [cmd |-> eeOp.cmd, size |-> eeOp.size, pos |-> m_WritePos]
<1>1. executed' = executed /\ committed' = committed /\ sent' = Append(sent, packet)
  BY DEF EEWrite
<1>2. /\ sent \in Seq([cmd : Cmds, size : Nat \ {0}, pos : Slot])
      /\ packet \in [cmd : Cmds, size : Nat \ {0}, pos : Slot]
  BY DEF TypeOK, Op
<1>3. \A m \in 1 .. Len(sent) : sent'[m] = sent[m]
  <2> HIDE DEF packet
  <2> QED
    BY <1>1, <1>2, AppendProperties
<1>4. \A m \in Len(executed) + 1 .. committed : m \in 1 .. Len(sent)
  BY RingFacts
<1>5. Pending' = Pending
  BY <1>1, <1>3, <1>4 DEF Pending
<1> QED
  BY <1>5 DEF QueuedVsyncs, Pending

\* Publishing a vsync queues one more.
LEMMA CommitVsyncs ==
  ASSUME TypeOK, RingInv, EECommit
  PROVE  QueuedVsyncs' = QueuedVsyncs + One(eeOp.cmd = "VSYNC")
<1> DEFINE c == committed + 1
<1>1. /\ executed' = executed /\ sent' = sent /\ committed' = Len(sent) /\ eePc = "commit"
      /\ Len(executed) \in Nat /\ committed \in Nat /\ Len(executed) <= committed
  BY RingFacts DEF EECommit
<1>2. Len(sent) = c /\ sent[c].cmd = eeOp.cmd
  BY <1>1, RingFacts DEF RingInv, Room, Numbered, One
<1>3. \A m : m \in Len(executed) + 1 .. c <=> m \in Len(executed) + 1 .. committed \/ m = c
  BY <1>1
<1>4. c \notin Pending /\ IsFiniteSet(Pending) /\ QueuedVsyncs = Cardinality(Pending)
      /\ QueuedVsyncs \in Nat
  BY <1>1, VsyncsType DEF Pending
<1>5. QueuedVsyncs' = Cardinality(Pending')
  BY DEF QueuedVsyncs, Pending
<1>6. Pending' = {m \in Len(executed) + 1 .. c : sent[m].cmd = "VSYNC"}
  BY <1>1, <1>2 DEF Pending
<1> HIDE DEF c
<1>7. CASE eeOp.cmd = "VSYNC"
  <2>1. Pending' = Pending \cup {c}
    BY <1>2, <1>3, <1>6, <1>7 DEF Pending
  <2>2. Cardinality(Pending') = Cardinality(Pending) + 1
    BY <1>4, <2>1, FS_AddElement
  <2> QED
    BY <1>4, <1>5, <1>7, <2>2 DEF One
<1>8. CASE eeOp.cmd # "VSYNC"
  <2>1. Pending' = Pending
    BY <1>2, <1>3, <1>6, <1>8 DEF Pending
  <2> QED
    BY <1>4, <1>5, <1>8, <2>1 DEF One
<1> QED
  BY <1>7, <1>8

\* The GS takes a vsync out of the queue.
LEMMA ExecuteVsyncs ==
  ASSUME TypeOK, RingInv, GSExecute
  PROVE  QueuedVsyncs' = QueuedVsyncs - One(sent[Len(executed) + 1].cmd = "VSYNC")
<1> DEFINE n == Len(executed) + 1
<1>1. /\ n \in 1 .. committed /\ executed' = Append(executed, n) /\ committed \in Nat
      /\ Len(executed) \in Nat /\ executed \in Seq(Nat) /\ n \in Nat
  <2>1. n \in 1 .. committed /\ executed' = Append(executed, n)
    BY ExecuteReads
  <2>2. committed \in Nat /\ Len(executed) \in Nat
    BY RingFacts
  <2>3. executed \in Seq(Nat)
    BY DEF TypeOK
  <2> QED
    BY <2>1, <2>2, <2>3
<1>2. Len(executed') = n /\ sent' = sent /\ committed' = committed
  BY <1>1, AppendProperties DEF GSExecute
<1>3. \A m : m \in n .. committed <=> m \in n + 1 .. committed \/ m = n
  BY <1>1
<1>4. IsFiniteSet(Pending) /\ QueuedVsyncs = Cardinality(Pending) /\ QueuedVsyncs \in Nat
  BY VsyncsType
<1>5. QueuedVsyncs' = Cardinality(Pending')
  BY DEF QueuedVsyncs, Pending
<1>6. Pending' = {m \in n + 1 .. committed : sent[m].cmd = "VSYNC"}
  BY <1>2 DEF Pending
<1>7. Pending = {m \in n .. committed : sent[m].cmd = "VSYNC"} /\ n \notin n + 1 .. committed
  BY <1>1 DEF Pending
<1> HIDE DEF n
<1>8. CASE sent[n].cmd = "VSYNC"
  <2>1. Pending' = Pending \ {n} /\ n \in Pending
    BY <1>3, <1>6, <1>7, <1>8
  <2>2. Cardinality(Pending') = Cardinality(Pending) - 1
    BY <1>4, <2>1, FS_RemoveElement
  <2>3. QueuedVsyncs' = QueuedVsyncs - 1
    BY <1>4, <1>5, <2>2
  <2> QED
    BY <1>8, <2>3 DEF One, n
<1>9. CASE sent[n].cmd # "VSYNC"
  <2>1. Pending' = Pending
    BY <1>3, <1>6, <1>7, <1>9
  <2>2. QueuedVsyncs' = QueuedVsyncs /\ QueuedVsyncs \in Int
    BY <1>4, <1>5, <2>1
  <2> QED
    BY <1>9, <2>2 DEF One, n
<1> QED
  BY <1>8, <1>9

\* A step that takes, publishes and counts nothing.
LEMMA VsyncsSame ==
  ASSUME UNCHANGED <<sent, committed, executed>>
  PROVE  QueuedVsyncs' = QueuedVsyncs
BY DEF QueuedVsyncs

\* The counts of FrameInv as numbers.
LEMMA FrameForm ==
  ASSUME TypeOK
  PROVE  /\ m_QueuedFrameCount \in Int /\ finishes \in Nat /\ VsyncQueueSize \in Nat
         /\ One(Uncounted) = (IF Uncounted THEN 1 ELSE 0)
         /\ One(Answering) = (IF Answering THEN 1 ELSE 0)
         /\ One(Unanswered) = (IF Unanswered THEN 1 ELSE 0)
BY MTGSAssumption DEF TypeOK, One

\* Every step keeps FrameInv.
LEMMA FrameStep ==
  ASSUME TypeOK, TypeOK', RingInv, SignalInv, FrameInv, [Next]_vars
  PROVE  FrameInv'
<1> USE DEF ringvars, signals, sems, ee, gs, vu, hist, EEGoto, GSGoto, VsyncPcs
<1>0. PICK C \in Int, f \in Nat, V \in Nat, Q \in Nat :
        /\ C = m_QueuedFrameCount /\ f = finishes /\ V = VsyncQueueSize /\ Q = QueuedVsyncs
        /\ C + One(Uncounted) = Q
        /\ C + One(Answering) <= V + 1 + f + One(Unanswered)
        /\ eePc \in VsyncPcs => eeOp.cmd = "VSYNC"
        /\ eePc = "tallyMore" => eeOp.cmd # "VSYNC"
  BY FrameForm, VsyncsType DEF FrameInv
\* A step that counts nothing: only who answers, or is to be answered, changes.
<1>01. ASSUME UNCHANGED <<sent, committed, executed, m_QueuedFrameCount>>, finishes' >= f, finishes' \in Nat,
              Uncounted' <=> Uncounted, Answering' => Answering \/ finishes' > f,
              Unanswered => Unanswered' \/ (Answering /\ ~Answering'),
              eePc' \in VsyncPcs => eeOp'.cmd = "VSYNC",
              eePc' = "tallyMore" => eeOp'.cmd # "VSYNC"
       PROVE  FrameInv'
  <2>1. QueuedVsyncs' = Q /\ m_QueuedFrameCount' = C
    BY <1>0, <1>01, VsyncsSame
  <2>2. C + One(Uncounted') = Q
    BY <1>0, <1>01 DEF One
  <2>3. C + One(Answering') <= V + 1 + finishes' + One(Unanswered')
    <3>1. PICK g \in Nat : g = finishes' /\ g >= f /\ (Answering' => Answering \/ g > f)
      BY <1>01
    <3>2. PICK a \in {0, 1}, b \in {0, 1}, x \in {0, 1}, y \in {0, 1} :
            /\ a = One(Answering) /\ x = One(Answering') /\ b = One(Unanswered) /\ y = One(Unanswered')
      BY DEF One
    <3>3. (x <= a \/ g > f) /\ (b <= y \/ (a = 1 /\ x = 0))
      BY <1>01, <3>1, <3>2 DEF One
    <3>4. C + a <= V + 1 + f + b
      BY <1>0, <3>2
    <3>5. C + x <= V + 1 + g + y
      <4>1. C \in Int /\ f \in Nat /\ V \in Nat /\ g >= f
        BY <1>0, <3>1
      <4> QED
        BY <3>3, <3>4, <4>1
    <3> QED
      BY <3>1, <3>2, <3>5
  <2> QED
    BY <1>0, <1>01, <2>1, <2>2, <2>3 DEF FrameInv
<1>02. finishes' \in Nat
  BY DEF TypeOK
<1>1. CASE EESend
  BY <1>0, <1>01, <1>02, <1>1 DEF Uncounted, Answering, Unanswered, EESend
<1>2. CASE EEResetGS
  <2>1. /\ m_ReadPos = m_WritePos /\ eePc = "idle" /\ eePc' = "stall" /\ m_QueuedFrameCount' = 0
        /\ UNCHANGED <<sent, committed, executed, finishes, gsPc>>
    BY <1>2 DEF EEResetGS
  <2>2. QueuedVsyncs' = 0
    BY <2>1, EmptyRing, VsyncsSame
  <2>3. 0 + One(Uncounted') = 0
    BY <2>1 DEF One, Uncounted
  <2>4. 0 + One(Answering') <= V + 1 + finishes' + One(Unanswered')
    <3>1. One(Answering') \in {0, 1} /\ One(Unanswered') \in {0, 1}
      BY DEF One
    <3>2. PICK a \in {0, 1}, b \in {0, 1}, g \in Nat :
            a = One(Answering') /\ b = One(Unanswered') /\ g = finishes'
      BY <1>02, <3>1
    <3> QED
      BY <1>0, <3>2
  <2> QED
    BY <1>0, <2>1, <2>2, <2>3, <2>4 DEF FrameInv
<1>3. CASE EECallWaitGS
  BY <1>0, <1>01, <1>02, <1>3 DEF Uncounted, Answering, Unanswered, EECallWaitGS
<1>4. CASE EEGenericStall
  BY <1>0, <1>01, <1>02, <1>4 DEF Uncounted, Answering, Unanswered, EEGenericStall
<1>5. CASE EEStallEnable
  BY <1>0, <1>01, <1>02, <1>5 DEF Uncounted, Answering, Unanswered, EEStallEnable
<1>6. CASE EEStallEvent
  BY <1>0, <1>01, <1>02, <1>6 DEF Uncounted, Answering, Unanswered, EEStallEvent, EESetEvent
<1>7. CASE EEStallWait
  BY <1>0, <1>01, <1>02, <1>7 DEF Uncounted, Answering, Unanswered, EEStallWait
<1>8. CASE EEStallRecheck
  BY <1>0, <1>01, <1>02, <1>8 DEF Uncounted, Answering, Unanswered, EEStallRecheck
<1>9. CASE EESpinEvent
  BY <1>0, <1>01, <1>02, <1>9 DEF Uncounted, Answering, Unanswered, EESpinEvent, EESetEvent
<1>10. CASE EESpin
  BY <1>0, <1>01, <1>02, <1>10 DEF Uncounted, Answering, Unanswered, EESpin
<1>11. CASE EEWrite
  <2>1. /\ UNCHANGED <<m_QueuedFrameCount, finishes, m_VsyncSignalListener, gsPc, eeOp>>
        /\ eePc = "write" /\ eePc' = "commit"
    BY <1>11 DEF EEWrite
  <2>2. /\ Uncounted' <=> Uncounted
        /\ Answering' <=> Answering
        /\ Unanswered' <=> Unanswered
    BY <2>1 DEF Uncounted, Answering, Unanswered
  <2>3. QueuedVsyncs' = Q
    BY <1>0, <1>11, WriteVsyncs
  <2>4. C + One(Uncounted') = Q /\ C + One(Answering') <= V + 1 + f + One(Unanswered')
    BY <1>0, <2>2 DEF One
  <2> QED
    BY <1>0, <2>1, <2>3, <2>4 DEF FrameInv
<1>12. CASE EECommit
  <2>1. /\ UNCHANGED <<m_QueuedFrameCount, finishes, m_VsyncSignalListener, gsPc, eeOp>>
        /\ eePc = "commit" /\ eePc' = "tally"
    BY <1>12 DEF EECommit
  <2>2. /\ ~Uncounted /\ (Uncounted' <=> eeOp.cmd = "VSYNC")
        /\ Answering' <=> Answering
        /\ Unanswered' <=> Unanswered
    BY <2>1 DEF Uncounted, Answering, Unanswered
  <2>3. QueuedVsyncs' = Q + One(eeOp.cmd = "VSYNC")
    BY <1>0, <1>12, CommitVsyncs
  <2>4. C + One(Uncounted') = Q + One(eeOp.cmd = "VSYNC")
        /\ C + One(Answering') <= V + 1 + f + One(Unanswered')
    BY <1>0, <2>2 DEF One
  <2> QED
    BY <1>0, <2>1, <2>3, <2>4 DEF FrameInv
<1>13. CASE EETally
  <2>1. /\ UNCHANGED <<sent, committed, executed, m_QueuedFrameCount, finishes, m_VsyncSignalListener, gsPc>>
        /\ eePc = "tally"
    BY <1>13 DEF EETally
  <2>2. CASE eeOp.cmd = "VSYNC"
    <3>1. eePc' = "tallyTest" /\ eeOp' = eeOp
      BY <1>13, <2>2 DEF EETally
    <3> QED
      BY <1>0, <1>01, <1>02, <2>1, <2>2, <3>1 DEF Uncounted, Answering, Unanswered
  <2>3. CASE eeOp.cmd # "VSYNC"
    <3>1. eePc' \in {"stall", "tallyMore", "tallyEvent", "idle"} /\ eeOp'.cmd # "VSYNC"
      BY <1>13, <2>3 DEF EETally, Simple
    <3> QED
      BY <1>0, <1>01, <1>02, <2>1, <2>3, <3>1 DEF Uncounted, Answering, Unanswered
  <2> QED
    BY <2>2, <2>3
<1>38. CASE EETallyMore
  BY <1>0, <1>01, <1>02, <1>38 DEF Uncounted, Answering, Unanswered, EETallyMore
<1>39. CASE EETallyTest
  BY <1>0, <1>01, <1>02, <1>39 DEF Uncounted, Answering, Unanswered, EETallyTest
<1>14. CASE EETallyEvent
  BY <1>0, <1>01, <1>02, <1>14 DEF Uncounted, Answering, Unanswered, EETallyEvent, EESetEvent
<1>15. CASE EEVsyncTest
  BY <1>0, <1>01, <1>02, <1>15 DEF Uncounted, Answering, Unanswered, EEVsyncTest
<1>16. CASE EEVsyncEvent
  BY <1>0, <1>01, <1>02, <1>16 DEF Uncounted, Answering, Unanswered, EEVsyncEvent, EESetEvent
<1>17. CASE EEQueueFrame
  <2>1. /\ UNCHANGED <<sent, committed, executed, finishes, m_VsyncSignalListener, gsPc, eeOp>>
        /\ eePc = "frame" /\ m_QueuedFrameCount' = m_QueuedFrameCount + 1
        /\ eePc' = IF m_QueuedFrameCount < VsyncQueueSize THEN "idle" ELSE "listen"
    BY <1>17 DEF EEQueueFrame
  <2>2. ~m_VsyncSignalListener
    BY <2>1, SignalForm DEF SignalCases, VsyncAsked
  <2>3. /\ Uncounted /\ ~Uncounted' /\ ~Unanswered
        /\ Answering' <=> Answering
        /\ Unanswered' <=> ~(C < V)
    BY <1>0, <2>1, <2>2 DEF Uncounted, Answering, Unanswered
  <2>4. QueuedVsyncs' = Q
    BY <1>0, <2>1, VsyncsSame
  <2>5. C + 1 + One(Uncounted') = Q /\ C + 1 + One(Answering') <= V + 1 + f + One(Unanswered')
    BY <1>0, <2>3 DEF One
  <2> QED
    BY <1>0, <2>1, <2>4, <2>5 DEF FrameInv
<1>18. CASE EEVsyncListen
  BY <1>0, <1>01, <1>02, <1>18 DEF Uncounted, Answering, Unanswered, EEVsyncListen
<1>19. CASE EEVsyncPost
  BY <1>0, <1>01, <1>02, <1>19 DEF Uncounted, Answering, Unanswered, EEVsyncPost
<1>20. CASE EEVsyncWait
  BY <1>0, <1>01, <1>02, <1>20 DEF Uncounted, Answering, Unanswered, EEVsyncWait
<1>21. CASE EEWaitEvent
  BY <1>0, <1>01, <1>02, <1>21 DEF Uncounted, Answering, Unanswered, EEWaitEvent, EESetEvent
<1>22. CASE EEWaitGS
  BY <1>0, <1>01, <1>02, <1>22 DEF Uncounted, Answering, Unanswered, EEWaitGS
<1>23. CASE GSEnter
  BY <1>0, <1>01, <1>02, <1>23 DEF Uncounted, Answering, Unanswered, GSEnter
<1>24. CASE GSWake
  BY <1>0, <1>01, <1>02, <1>24 DEF Uncounted, Answering, Unanswered, GSWake
<1>25. CASE GSCheck
  <2>1. /\ UNCHANGED <<sent, committed, executed, finishes, m_QueuedFrameCount, m_VsyncSignalListener, eePc, eeOp>>
        /\ gsPc = "check" /\ gsPc' = IF m_ReadPos # m_WritePos THEN "exec" ELSE "empty"
    BY <1>25 DEF GSCheck
  <2>2. (Uncounted' <=> Uncounted) /\ (Unanswered' <=> Unanswered) /\ (eePc' = eePc /\ eeOp' = eeOp)
    BY <2>1 DEF Uncounted, Unanswered
  <2>3. CASE m_ReadPos # m_WritePos
    <3>1. ~Answering'
      BY <2>1, <2>3 DEF Answering
    <3> QED
      BY <1>0, <1>01, <1>02, <2>1, <2>2, <3>1
  <2>4. CASE m_ReadPos = m_WritePos
    <3>1. Q = 0 /\ QueuedVsyncs' = Q
      BY <1>0, <2>1, <2>4, EmptyRing, VsyncsSame
    <3>2. C + One(Uncounted') = Q /\ C + One(Answering') <= V + 1 + f + One(Unanswered')
      BY <1>0, <2>2, <3>1 DEF One
    <3> QED
      BY <1>0, <2>1, <3>1, <3>2 DEF FrameInv
  <2> QED
    BY <2>3, <2>4
<1>26. CASE GSExecute
  <2> DEFINE m == Len(executed) + 1
  <2>1. /\ UNCHANGED <<finishes, m_VsyncSignalListener, eePc, eeOp>> /\ gsPc = "exec"
        /\ gsPc' = IF sent[m].cmd = "VSYNC" THEN "vsync" ELSE "advance"
        /\ m_QueuedFrameCount' = IF sent[m].cmd = "VSYNC" THEN C - 1 ELSE C
    <3>1. UNCHANGED <<finishes, m_VsyncSignalListener, eePc, eeOp>> /\ gsPc = "exec"
      BY <1>26 DEF GSExecute
    <3> QED
      BY <1>0, <1>26, <3>1, ExecuteReads
  <2>2. QueuedVsyncs' = Q - One(sent[m].cmd = "VSYNC")
    BY <1>0, <1>26, ExecuteVsyncs
  <2> HIDE DEF m
  <2>3. /\ Uncounted' <=> Uncounted
        /\ ~Answering /\ (Answering' <=> sent[m].cmd = "VSYNC")
        /\ Unanswered' <=> Unanswered
    BY <2>1 DEF Uncounted, Answering, Unanswered
  <2>4. /\ m_QueuedFrameCount' + One(Uncounted') = Q - One(sent[m].cmd = "VSYNC")
        /\ m_QueuedFrameCount' + One(Answering') <= V + 1 + f + One(Unanswered')
    BY <1>0, <2>1, <2>3 DEF One
  <2> QED
    BY <1>0, <2>1, <2>2, <2>4 DEF FrameInv
<1>27. CASE GSVsync
  BY <1>0, <1>01, <1>02, <1>27 DEF Uncounted, Answering, Unanswered, GSVsync, AnswerListener
<1>28. CASE GSAdvance
  BY <1>0, <1>01, <1>02, <1>28 DEF Uncounted, Answering, Unanswered, GSAdvance
<1>29. CASE GSSignal
  BY <1>0, <1>01, <1>02, <1>29 DEF Uncounted, Answering, Unanswered, GSSignal
<1>30. CASE GSReturn
  BY <1>0, <1>01, <1>02, <1>30 DEF Uncounted, Answering, Unanswered, GSReturn, AnswerRingSignal
<1>31. CASE GSEmpty
  BY <1>0, <1>01, <1>02, <1>31 DEF Uncounted, Answering, Unanswered, GSEmpty, AnswerRingSignal
<1>32. CASE GSEmptyVsync
  BY <1>0, <1>01, <1>02, <1>32 DEF Uncounted, Answering, Unanswered, GSEmptyVsync, AnswerListener
<1>33. CASE GSFinishVsync
  BY <1>0, <1>01, <1>02, <1>33 DEF Uncounted, Answering, Unanswered, GSFinishVsync, AnswerListener
<1>34. CASE GSFinishTask
  BY <1>0, <1>01, <1>02, <1>34 DEF Uncounted, Answering, Unanswered, GSFinishTask, AnswerRingSignal
<1>35. CASE VUSetEventPost
  BY <1>0, <1>01, <1>02, <1>35 DEF Uncounted, Answering, Unanswered, VUSetEventPost
<1>36. CASE VUSetEventClear
  BY <1>0, <1>01, <1>02, <1>36 DEF Uncounted, Answering, Unanswered, VUSetEventClear
<1>37. CASE UNCHANGED vars
  BY <1>0, <1>01, <1>02, <1>37 DEF Uncounted, Answering, Unanswered, vars
<1> QED
  BY <1>1, <1>2, <1>3, <1>4, <1>5, <1>6, <1>7, <1>8, <1>9, <1>10, <1>11, <1>12, <1>13, <1>14, <1>15, <1>16, <1>17, <1>18, <1>19, <1>20, <1>21, <1>22, <1>23, <1>24, <1>25, <1>26, <1>27, <1>28, <1>29, <1>30, <1>31, <1>32, <1>33, <1>34, <1>35, <1>36, <1>37, <1>38, <1>39
     DEF Next, EECall, EEStep, GSStep, VUStep

\* Every step keeps the number of packets in bounds.
LEMMA BoundStep ==
  ASSUME TypeOK, Bounded, [Next]_vars
  PROVE  Bounded'
<1> USE DEF ee, gs, vu, hist, EEGoto, GSGoto, Sending
<1>0. PICK l \in Nat, x \in {0, 1}, M \in Nat :
        /\ l = Len(sent) /\ M = MaxPackets /\ x = One(eeOp.cmd = "RESET") /\ l <= M
        /\ x = 0 <=> eeOp.cmd # "RESET"
        /\ eePc \in Sending => l + x < M
        /\ eePc \in {"commit", "tally"} /\ eeOp.cmd = "RESET" => l < M
  <2>1. Len(sent) \in Nat /\ MaxPackets \in Nat
    BY MTGSAssumption, LenProperties DEF TypeOK
  <2>2. One(eeOp.cmd = "RESET") \in {0, 1} /\ (One(eeOp.cmd = "RESET") = 0 <=> eeOp.cmd # "RESET")
    BY DEF One
  <2> QED
    BY <2>1, <2>2 DEF Bounded
\* Nothing is written, and the EE goes on with the same packet.
<1>01. ASSUME sent' = sent, eeOp' = eeOp, eePc' \in Sending => eePc \in Sending,
              eePc' \in {"commit", "tally"} => eePc \in {"commit", "tally"}
       PROVE  Bounded'
  BY <1>01 DEF Bounded
<1>1. CASE EESend
  <2>1. sent' = sent /\ eePc' = "stall" /\ l < M /\ eeOp'.cmd # "RESET"
    BY <1>0, <1>1 DEF EESend, Simple, GSPacket, Vsync
  <2>2. l + One(eeOp'.cmd = "RESET") < M
    BY <1>0, <2>1 DEF One
  <2> QED
    BY <1>0, <2>1, <2>2 DEF Bounded
<1>2. CASE EEResetGS
  <2>1. sent' = sent /\ eePc' = "stall" /\ l + 1 < M /\ eeOp'.cmd = "RESET"
    BY <1>0, <1>2 DEF EEResetGS, Simple
  <2>2. l + One(eeOp'.cmd = "RESET") < M
    BY <1>0, <2>1 DEF One
  <2> QED
    BY <1>0, <2>1, <2>2 DEF Bounded
<1>3. CASE EECallWaitGS
  BY <1>01, <1>3 DEF EECallWaitGS
<1>4. CASE EEGenericStall
  BY <1>01, <1>4 DEF EEGenericStall
<1>5. CASE EEStallEnable
  BY <1>01, <1>5 DEF EEStallEnable
<1>6. CASE EEStallEvent
  BY <1>01, <1>6 DEF EEStallEvent
<1>7. CASE EEStallWait
  BY <1>01, <1>7 DEF EEStallWait
<1>8. CASE EEStallRecheck
  BY <1>01, <1>8 DEF EEStallRecheck
<1>9. CASE EESpinEvent
  BY <1>01, <1>9 DEF EESpinEvent
<1>10. CASE EESpin
  BY <1>01, <1>10 DEF EESpin
<1>11. CASE EEWrite
  <2>1. /\ eeOp' = eeOp /\ eePc = "write" /\ eePc' = "commit"
        /\ sent' = Append(sent, [cmd |-> eeOp.cmd, size |-> eeOp.size, pos |-> m_WritePos])
    BY <1>11 DEF EEWrite
  <2>2. Len(sent') = l + 1
    BY <1>0, <2>1, AppendProperties DEF TypeOK, Op
  <2>3. l + x < M /\ (eeOp.cmd = "RESET" => x = 1)
    BY <1>0, <2>1
  <2>4. l + 1 <= M /\ (eeOp.cmd = "RESET" => l + 1 < M)
    BY <1>0, <2>3
  <2> QED
    BY <1>0, <2>1, <2>2, <2>4 DEF Bounded
<1>12. CASE EECommit
  BY <1>01, <1>12 DEF EECommit
<1>13. CASE EETally
  <2>1. sent' = sent /\ eePc = "tally"
    BY <1>13 DEF EETally
  <2>2. CASE eeOp.cmd = "RESET"
    <3>1. eePc' = "stall" /\ eeOp'.cmd = "FRAMESKIP"
      BY <1>13, <2>2 DEF EETally, Simple
    <3>2. l < M
      BY <1>0, <2>1, <2>2
    <3>3. l + One(eeOp'.cmd = "RESET") < M
      BY <1>0, <3>1, <3>2 DEF One
    <3> QED
      BY <1>0, <2>1, <3>1, <3>3 DEF Bounded
  <2>3. CASE eeOp.cmd # "RESET"
    <3>1. eePc' \in {"tallyTest", "tallyMore", "tallyEvent", "idle"} /\ eeOp' = eeOp
      BY <1>13, <2>3 DEF EETally
    <3> QED
      BY <1>0, <1>01, <2>1, <3>1
  <2> QED
    BY <2>2, <2>3
<1>38. CASE EETallyMore
  BY <1>01, <1>38 DEF EETallyMore
<1>39. CASE EETallyTest
  BY <1>01, <1>39 DEF EETallyTest
<1>14. CASE EETallyEvent
  BY <1>01, <1>14 DEF EETallyEvent
<1>15. CASE EEVsyncTest
  BY <1>01, <1>15 DEF EEVsyncTest
<1>16. CASE EEVsyncEvent
  BY <1>01, <1>16 DEF EEVsyncEvent
<1>17. CASE EEQueueFrame
  BY <1>01, <1>17 DEF EEQueueFrame
<1>18. CASE EEVsyncListen
  BY <1>01, <1>18 DEF EEVsyncListen
<1>19. CASE EEVsyncPost
  BY <1>01, <1>19 DEF EEVsyncPost
<1>20. CASE EEVsyncWait
  BY <1>01, <1>20 DEF EEVsyncWait
<1>21. CASE EEWaitEvent
  BY <1>01, <1>21 DEF EEWaitEvent
<1>22. CASE EEWaitGS
  BY <1>01, <1>22 DEF EEWaitGS
<1>23. CASE GSEnter
  BY <1>01, <1>23 DEF GSEnter
<1>24. CASE GSWake
  BY <1>01, <1>24 DEF GSWake
<1>25. CASE GSCheck
  BY <1>01, <1>25 DEF GSCheck
<1>26. CASE GSExecute
  BY <1>01, <1>26 DEF GSExecute
<1>27. CASE GSVsync
  BY <1>01, <1>27 DEF GSVsync
<1>28. CASE GSAdvance
  BY <1>01, <1>28 DEF GSAdvance
<1>29. CASE GSSignal
  BY <1>01, <1>29 DEF GSSignal
<1>30. CASE GSReturn
  BY <1>01, <1>30 DEF GSReturn
<1>31. CASE GSEmpty
  BY <1>01, <1>31 DEF GSEmpty
<1>32. CASE GSEmptyVsync
  BY <1>01, <1>32 DEF GSEmptyVsync
<1>33. CASE GSFinishVsync
  BY <1>01, <1>33 DEF GSFinishVsync
<1>34. CASE GSFinishTask
  BY <1>01, <1>34 DEF GSFinishTask
<1>35. CASE VUSetEventPost
  BY <1>01, <1>35 DEF VUSetEventPost
<1>36. CASE VUSetEventClear
  BY <1>01, <1>36 DEF VUSetEventClear
<1>37. CASE UNCHANGED vars
  BY <1>01, <1>37 DEF vars
<1> QED
  BY <1>1, <1>2, <1>3, <1>4, <1>5, <1>6, <1>7, <1>8, <1>9, <1>10, <1>11, <1>12, <1>13, <1>14, <1>15, <1>16, <1>17, <1>18, <1>19, <1>20, <1>21, <1>22, <1>23, <1>24, <1>25, <1>26, <1>27, <1>28, <1>29, <1>30, <1>31, <1>32, <1>33, <1>34, <1>35, <1>36, <1>37, <1>38, <1>39
     DEF Next, EECall, EEStep, GSStep, VUStep

-----------------------------------------------------------------------------
(* Wake-ups, without a VU1 thread *)

\* Every step keeps WakeInv.
LEMMA WakeStep ==
  ASSUME THREAD_VU1 = FALSE, TypeOK, TypeOK', RingInv, WakeInv, [Next]_vars
  PROVE  WakeInv'
<1> USE DEF ringvars, signals, sems, ee, gs, vu, hist, EEGoto, GSGoto
<1>0. PICK E \in Nat, W \in {0, 1}, Q \in Nat, U \in {0, 1} :
        /\ E = m_sem_event /\ W = One(Working) /\ Q = QueuedVsyncs /\ U = One(Unposted)
        /\ W = 0 <=> ~Working
        /\ U = 0 <=> ~Unposted
        /\ vuPc = "idle"
        /\ E + W >= Q - U
        /\ Asked => E + W >= Q + 1
  <2>1. m_sem_event \in Nat /\ QueuedVsyncs \in Nat
    BY VsyncsType DEF TypeOK
  <2>2. /\ One(Working) \in {0, 1} /\ (One(Working) = 0 <=> ~Working)
        /\ One(Unposted) \in {0, 1} /\ (One(Unposted) = 0 <=> ~Unposted)
    BY DEF One
  <2> QED
    BY <2>1, <2>2 DEF WakeInv
<1>03. E \in Nat /\ Q \in Nat /\ W \in {0, 1} /\ U \in {0, 1} /\ E + W >= Q - U
  BY <1>0
\* A step that posts nothing and takes no vsync: the GS works on, and the EE waits
\* for nothing new.
<1>01. ASSUME UNCHANGED <<sent, committed, executed, m_sem_event, vuPc>>,
              Working => Working', Unposted => Unposted', Asked' => Asked
       PROVE  WakeInv'
  <2>1. QueuedVsyncs' = Q /\ m_sem_event' = E
    BY <1>0, <1>01, VsyncsSame
  <2>2. PICK w \in {0, 1}, u \in {0, 1} : w = One(Working') /\ u = One(Unposted') /\ W <= w /\ U <= u
    <3>1. One(Working') \in {0, 1} /\ W <= One(Working')
      BY <1>0, <1>01 DEF One
    <3>2. One(Unposted') \in {0, 1} /\ U <= One(Unposted')
      BY <1>0, <1>01 DEF One
    <3> QED
      BY <3>1, <3>2
  <2>3. E + w >= Q - u /\ (Asked' => E + w >= Q + 1)
    <3>1. Asked' => E + W >= Q + 1
      BY <1>0, <1>01
    <3> QED
      BY <1>03, <2>2, <3>1
  <2> QED
    BY <1>0, <1>01, <2>1, <2>2, <2>3 DEF WakeInv
\* A post by the EE: whatever it was for, one vsync more is paid for, or the wait is.
<1>02. ASSUME UNCHANGED <<sent, committed, executed, vuPc, gsPc, gsOp>>, m_sem_event' = m_sem_event + 1,
              ~Unposted \/ ~Asked'
       PROVE  WakeInv'
  <2>1. QueuedVsyncs' = Q /\ m_sem_event' = E + 1
    BY <1>0, <1>02, VsyncsSame
  <2>2. PICK u \in {0, 1} : u = One(Unposted')
    BY DEF One
  <2>3. One(Working') = W
    BY <1>0, <1>02 DEF Working
  <2>4. E + 1 + W >= Q - u /\ (Asked' => E + 1 + W >= Q + 1)
    BY <1>0, <1>02
  <2> QED
    BY <1>0, <1>02, <2>1, <2>2, <2>3, <2>4 DEF WakeInv
<1> USE DEF Working, Unposted, Asked
<1>1. CASE EESend
  BY <1>0, <1>01, <1>1 DEF EESend
<1>2. CASE EEResetGS
  BY <1>0, <1>01, <1>2 DEF EEResetGS
<1>3. CASE EECallWaitGS
  BY <1>0, <1>01, <1>3 DEF EECallWaitGS
<1>4. CASE EEGenericStall
  BY <1>0, <1>01, <1>4 DEF EEGenericStall
<1>5. CASE EEStallEnable
  BY <1>0, <1>01, <1>5 DEF EEStallEnable
<1>6. CASE EEStallEvent
  BY <1>0, <1>02, <1>6 DEF EEStallEvent, EESetEvent
<1>7. CASE EEStallWait
  BY <1>0, <1>01, <1>7 DEF EEStallWait
<1>8. CASE EEStallRecheck
  BY <1>0, <1>01, <1>8 DEF EEStallRecheck
<1>9. CASE EESpinEvent
  BY <1>0, <1>02, <1>9 DEF EESpinEvent, EESetEvent
<1>10. CASE EESpin
  BY <1>0, <1>01, <1>10 DEF EESpin
<1>11. CASE EEWrite
  <2>1. /\ UNCHANGED <<m_sem_event, vuPc, gsPc, gsOp, eeOp>> /\ eePc = "write" /\ eePc' = "commit"
    BY <1>11 DEF EEWrite
  <2>2. QueuedVsyncs' = Q
    BY <1>0, <1>11, WriteVsyncs
  <2>3. One(Working') = W /\ One(Unposted') = U /\ ~Asked'
    BY <1>0, <2>1 DEF One
  <2> QED
    BY <1>0, <2>1, <2>2, <2>3 DEF WakeInv
<1>12. CASE EECommit
  <2>1. /\ UNCHANGED <<m_sem_event, vuPc, gsPc, gsOp, eeOp>> /\ eePc = "commit" /\ eePc' = "tally"
    BY <1>12 DEF EECommit
  <2>2. QueuedVsyncs' = Q + One(eeOp.cmd = "VSYNC")
    BY <1>0, <1>12, CommitVsyncs
  <2>3. /\ One(Working') = W /\ U = 0 /\ ~Asked'
        /\ One(Unposted') = One(eeOp.cmd = "VSYNC")
    BY <1>0, <2>1 DEF One
  <2>4. PICK u \in {0, 1} : u = One(eeOp.cmd = "VSYNC")
    <3>1. One(eeOp.cmd = "VSYNC") \in {0, 1}
      BY DEF One
    <3> QED
      BY <3>1
  <2>5. E + W >= Q + u - u
    <3>1. U = 0
      BY <2>3
    <3> QED
      BY <1>03, <2>4, <3>1
  <2>6. /\ QueuedVsyncs' = Q + u /\ One(Unposted') = u /\ One(Working') = W /\ ~Asked'
        /\ m_sem_event' = E /\ vuPc' = "idle"
    BY <1>0, <2>1, <2>2, <2>3, <2>4
  <2> HIDE DEF Working, Unposted, Asked
  <2> QED
    BY <2>5, <2>6 DEF WakeInv
<1>13. CASE EETally
  <2>1. UNCHANGED <<sent, committed, executed, m_sem_event, vuPc, gsPc, gsOp>> /\ eePc = "tally"
    BY <1>13 DEF EETally
  <2>2. CASE eeOp.cmd = "VSYNC"
    <3>1. eePc' = "tallyTest" /\ eeOp' = eeOp /\ m_CopyDataTally' = m_CopyDataTally + (VsyncSize - 1)
      BY <1>13, <2>2 DEF EETally
    <3>2. m_CopyDataTally' # 0
      BY <3>1, MTGSAssumption DEF TypeOK
    <3> QED
      BY <1>01, <2>1, <2>2, <3>1, <3>2
  <2>3. CASE eeOp.cmd # "VSYNC"
    <3>1. eePc' \in {"tallyEvent", "idle", "stall"} \/ (eePc' = "tallyMore" /\ eeOp' = eeOp)
      BY <1>13, <2>3 DEF EETally
    <3> QED
      BY <1>01, <2>1, <2>3, <3>1
  <2> QED
    BY <2>2, <2>3
<1>38. CASE EETallyMore
  BY <1>0, <1>01, <1>38 DEF EETallyMore
<1>39. CASE EETallyTest
  BY <1>0, <1>01, <1>39 DEF EETallyTest
<1>14. CASE EETallyEvent
  BY <1>0, <1>02, <1>14 DEF EETallyEvent, EESetEvent
<1>15. CASE EEVsyncTest
  BY <1>0, <1>01, <1>15 DEF EEVsyncTest
<1>16. CASE EEVsyncEvent
  BY <1>0, <1>02, <1>16 DEF EEVsyncEvent, EESetEvent
<1>17. CASE EEQueueFrame
  BY <1>0, <1>01, <1>17 DEF EEQueueFrame
<1>18. CASE EEVsyncListen
  BY <1>0, <1>01, <1>18 DEF EEVsyncListen
<1>19. CASE EEVsyncPost
  BY <1>0, <1>02, <1>19 DEF EEVsyncPost
<1>20. CASE EEVsyncWait
  BY <1>0, <1>01, <1>20 DEF EEVsyncWait
<1>21. CASE EEWaitEvent
  BY <1>0, <1>02, <1>21 DEF EEWaitEvent, EESetEvent
<1>22. CASE EEWaitGS
  BY <1>0, <1>01, <1>22 DEF EEWaitGS
<1>23. CASE GSEnter
  BY <1>0, <1>01, <1>23 DEF GSEnter
<1>24. CASE GSWake
  <2>1. /\ UNCHANGED <<sent, committed, executed, vuPc, eePc, eeOp, m_CopyDataTally, m_ReadPos, m_WritePos,
                       m_SignalRingEnable, m_VsyncSignalListener>>
        /\ gsPc = "sleep" /\ gsPc' = "check" /\ m_sem_event' = m_sem_event - 1
    BY <1>24 DEF GSWake
  <2>2. QueuedVsyncs' = Q /\ m_sem_event' = E - 1
    BY <1>0, <2>1, VsyncsSame
  <2>3. ~Working /\ Working' /\ (Unposted' <=> Unposted) /\ (Asked' => Asked)
    BY <2>1
  <2>5. W = 0 /\ One(Working') = 1 /\ One(Unposted') = U
    <3> HIDE DEF Working, Unposted, Asked
    <3> QED
      BY <1>0, <2>3 DEF One
  <2>4. E - 1 + 1 >= Q - U /\ (Asked' => E - 1 + 1 >= Q + 1)
    <3> HIDE DEF Working, Unposted, Asked
    <3>1. Asked' => E + W >= Q + 1
      BY <1>0, <2>3
    <3> QED
      BY <1>03, <2>5, <3>1
  <2> QED
    BY <1>0, <2>1, <2>2, <2>4, <2>5 DEF WakeInv
<1>25. CASE GSCheck
  <2>1. /\ UNCHANGED <<sent, committed, executed, vuPc, eePc, eeOp, m_CopyDataTally, m_ReadPos, m_WritePos,
                       m_SignalRingEnable, m_VsyncSignalListener, m_sem_event>>
        /\ gsPc = "check" /\ gsPc' = IF m_ReadPos # m_WritePos THEN "exec" ELSE "empty"
    BY <1>25 DEF GSCheck
  <2>2. CASE m_ReadPos # m_WritePos
    BY <1>01, <2>1, <2>2
  <2>3. CASE m_ReadPos = m_WritePos
    <3>1. Q = 0 /\ QueuedVsyncs' = Q /\ m_sem_event' = E
      BY <1>0, <2>1, <2>3, EmptyRing, VsyncsSame
    <3>2. ~Asked' /\ ~Working' /\ (Unposted' <=> Unposted)
      BY <2>1, <2>3
    <3>3. One(Working') = 0 /\ One(Unposted') = U
      <4> HIDE DEF Working, Unposted, Asked
      <4> QED
        BY <1>0, <3>2 DEF One
    <3>4. E + 0 >= Q - U
      BY <1>03, <3>1
    <3> HIDE DEF Working, Unposted, Asked
    <3> QED
      BY <1>0, <2>1, <3>1, <3>2, <3>3, <3>4 DEF WakeInv
  <2> QED
    BY <2>2, <2>3
<1>26. CASE GSExecute
  <2> DEFINE m == Len(executed) + 1
  <2>1. /\ UNCHANGED <<vuPc, eePc, eeOp, m_CopyDataTally, m_ReadPos, m_WritePos,
                       m_SignalRingEnable, m_VsyncSignalListener, m_sem_event>>
        /\ gsPc = "exec"
    BY <1>26 DEF GSExecute
  <2>2. /\ gsPc' = IF sent[m].cmd = "VSYNC" THEN "vsync" ELSE "advance"
        /\ gsOp'.cmd = sent[m].cmd
    BY <1>26, ExecuteReads
  <2>3. QueuedVsyncs' = Q - One(sent[m].cmd = "VSYNC")
    BY <1>0, <1>26, ExecuteVsyncs
  <2> HIDE DEF m
  <2>4. PICK v \in {0, 1} : v = One(sent[m].cmd = "VSYNC") /\ (v = 1 <=> sent[m].cmd = "VSYNC")
    <3>1. One(sent[m].cmd = "VSYNC") \in {0, 1} /\ (One(sent[m].cmd = "VSYNC") = 1 <=> sent[m].cmd = "VSYNC")
      BY DEF One
    <3> QED
      BY <3>1
  <2>7. Working /\ (Working' <=> sent[m].cmd # "VSYNC") /\ (Unposted' <=> Unposted) /\ (Asked' => Asked)
    BY <2>1, <2>2
  <2> HIDE DEF Working, Unposted, Asked
  <2>5. W = 1 /\ One(Working') = 1 - v /\ One(Unposted') = U
    <3>1. W = 1 /\ One(Unposted') = U
      BY <1>0, <2>7 DEF One
    <3>2. One(Working') = 1 - v
      BY <2>4, <2>7 DEF One
    <3> QED
      BY <3>1, <3>2
  <2>6. E + (1 - v) >= Q - v - U /\ (Asked' => E + (1 - v) >= Q - v + 1)
    <3>1. Asked' => E + W >= Q + 1
      BY <1>0, <2>7
    <3> QED
      BY <1>03, <2>4, <2>5, <3>1
  <2> QED
    BY <1>0, <2>1, <2>3, <2>4, <2>5, <2>6 DEF WakeInv
<1>27. CASE GSVsync
  BY <1>0, <1>01, <1>27 DEF GSVsync, AnswerListener
<1>28. CASE GSAdvance
  <2>1. /\ UNCHANGED <<sent, committed, executed, vuPc, eePc, eeOp, gsOp, m_CopyDataTally, m_WritePos,
                       m_SignalRingEnable, m_VsyncSignalListener, m_sem_event>>
        /\ gsPc = "advance" /\ gsPc' = "signal"
    BY <1>28 DEF GSAdvance
  <2>2. m_ReadPos # m_WritePos
    BY <2>1, EmptyRing DEF Reading
  <2> QED
    BY <1>01, <2>1, <2>2
<1>29. CASE GSSignal
  BY <1>0, <1>01, <1>29 DEF GSSignal
<1>30. CASE GSReturn
  BY <1>0, <1>01, <1>30 DEF GSReturn, AnswerRingSignal
<1>31. CASE GSEmpty
  BY <1>0, <1>01, <1>31 DEF GSEmpty, AnswerRingSignal
<1>32. CASE GSEmptyVsync
  BY <1>0, <1>01, <1>32 DEF GSEmptyVsync, AnswerListener
<1>33. CASE GSFinishVsync
  BY <1>0, <1>01, <1>33 DEF GSFinishVsync, AnswerListener
<1>34. CASE GSFinishTask
  BY <1>0, <1>01, <1>34 DEF GSFinishTask, AnswerRingSignal
<1>35. CASE VUSetEventPost
  BY <1>0, <1>01, <1>35 DEF VUSetEventPost
<1>36. CASE VUSetEventClear
  BY <1>0, <1>01, <1>36 DEF VUSetEventClear
<1>37. CASE UNCHANGED vars
  BY <1>0, <1>01, <1>37 DEF vars
<1> QED
  BY <1>1, <1>2, <1>3, <1>4, <1>5, <1>6, <1>7, <1>8, <1>9, <1>10, <1>11, <1>12, <1>13, <1>14, <1>15, <1>16, <1>17, <1>18, <1>19, <1>20, <1>21, <1>22, <1>23, <1>24, <1>25, <1>26, <1>27, <1>28, <1>29, <1>30, <1>31, <1>32, <1>33, <1>34, <1>35, <1>36, <1>37, <1>38, <1>39
     DEF Next, EECall, EEStep, GSStep, VUStep

-----------------------------------------------------------------------------
(* The invariant *)

LEMMA InitInv ==
  ASSUME Init
  PROVE  IInv /\ WakeInv
<1> USE MTGSAssumption DEF Init
<1>1. TypeOK
  <2>1. RingBufferSize \in Nat /\ 0 \in Slot
    BY DEF Slot
  <2>2. RingBuffer \in [Slot -> [seq : Nat, off : Nat]]
    BY DEF Word
  <2>3. eeOp \in Op /\ gsOp \in Op
    BY DEF Simple, Op, Cmds
  <2>4. /\ sent \in Seq([cmd : Cmds, size : Nat \ {0}, pos : Slot]) /\ executed \in Seq(Nat)
        /\ Len(sent) = 0 /\ committed \in 0 .. Len(sent)
    BY EmptySeq
  <2> QED
    BY <2>1, <2>2, <2>3, <2>4 DEF TypeOK, EEPcs, GSPcs
<1>2. Len(sent) = 0 /\ Len(executed) = 0 /\ committed = 0
  BY EmptySeq
<1>3. FirstInRing = 1 /\ ~Reading
  BY <1>2 DEF FirstInRing, Reading, One
<1>4. RingInv
  <2>1. Numbered
    BY <1>2, <1>3 DEF Numbered, One
  <2>2. Placed
    BY <1>2, <1>3 DEF Placed
  <2>3. Room /\ RingIntact
    BY <1>2 DEF Room, RingIntact
  <2> QED
    BY <2>1, <2>2, <2>3 DEF RingInv
<1>5. SignalInv
  BY DEF SignalInv, One
<1>6. QueuedVsyncs = 0
  BY <1>1, <1>2, <1>4, VsyncsType
<1>7. FrameInv
  BY <1>6 DEF FrameInv, VsyncPcs, Uncounted, Answering, Unanswered, One
<1>8. Bounded
  BY <1>2 DEF Bounded, Sending
<1>9. WakeInv
  BY <1>6 DEF WakeInv, Working, Unposted, Asked, One
<1> QED
  BY <1>1, <1>4, <1>5, <1>7, <1>8, <1>9 DEF IInv

LEMMA NextInv ==
  ASSUME IInv, [Next]_vars
  PROVE  IInv'
<1>1. TypeOK'
  BY TypeStep DEF IInv
<1> QED
  BY <1>1, RingStep, SignalStep, FrameStep, BoundStep DEF IInv

\* The inductive invariant of the ring.  The GS never meets a slot that is no tag
\* (Numbered), which would make its switch undefined.
THEOREM Invariance == Spec => []IInv
<1>1. Init => IInv
  BY InitInv
<1>2. IInv /\ [Next]_vars => IInv'
  BY NextInv
<1> QED
  BY <1>1, <1>2, PTL DEF Spec

\* Every variable keeps its type: m_ReadPos and m_WritePos stay in the ring, and no
\* semaphore or tally goes below zero.
THEOREM TypeCorrect == Spec => []TypeOK
<1>1. IInv => TypeOK
  BY DEF IInv
<1> QED
  BY <1>1, Invariance, PTL

\* A published packet that the GS has not processed is in the ring slot for slot
\* (GenericStall never lets the EE overtake m_ReadPos).
THEOREM RingStaysIntact == Spec => []RingIntact
<1>1. IInv => RingIntact
  BY DEF IInv, RingInv
<1> QED
  BY <1>1, Invariance, PTL

\* The dev assertions of GenericStall hold, and no post of m_sem_OnRingReset or
\* m_sem_Vsync is left over for a later wait.
THEOREM SignalsArePaired == Spec => []SignalsPaired
<1>1. IInv => SignalsPaired
  <2> SUFFICES ASSUME IInv PROVE SignalsPaired
    OBVIOUS
  <2>1. SignalCases
    BY SignalForm DEF IInv
  <2>2. SignalInv
    BY DEF IInv
  <2>3. eePc = "enable" => ~m_SignalRingEnable
    BY <2>1 DEF SignalCases, RingAsked
  <2>4. eePc = "recheck" => m_SignalRingPosition <= 0
    BY <2>2 DEF SignalInv
  <2> QED
    BY <2>2, <2>3, <2>4 DEF SignalsPaired, SignalInv, One
<1> QED
  BY <1>1, Invariance, PTL

\* PostVsyncStart returns with at most VsyncQueueSize + 1 frames queued, and one more
\* for each FinishTaskInThread, and m_QueuedFrameCount does not drift: it is the
\* number of vsyncs in the ring, or one less while one is published and not counted.
THEOREM VsyncQueueIsBounded == Spec => []VsyncQueueBounded
<1>1. IInv => VsyncQueueBounded
  <2> SUFFICES ASSUME IInv PROVE VsyncQueueBounded
    OBVIOUS
  <2>1. PICK a \in {0, 1}, u \in {0, 1}, c \in {0, 1}, p \in {0, 1} :
          /\ a = One(Answering) /\ u = One(Unanswered)
          /\ c = One(Uncounted) /\ p = One(PostingVsync)
    <3>1. /\ One(Answering) \in {0, 1} /\ One(Unanswered) \in {0, 1}
          /\ One(Uncounted) \in {0, 1} /\ One(PostingVsync) \in {0, 1}
      BY DEF One
    <3> QED
      BY <3>1
  <2>2. PICK C \in Int, V \in Nat, f \in Nat, Q \in Nat :
          /\ C = m_QueuedFrameCount /\ V = VsyncQueueSize /\ f = finishes /\ Q = QueuedVsyncs
          /\ C + c = Q /\ C + a <= V + 1 + f + u
    BY <2>1, FrameForm, VsyncsType DEF IInv, FrameInv
  \* Who is not counted or not answered is in PostVsyncStart, and never both.
  <2>3. Uncounted => PostingVsync
    BY DEF Uncounted, PostingVsync
  <2>4. Unanswered => PostingVsync /\ ~Uncounted
    <3>1. Unanswered => eePc \in {"listen", "vsyncPost", "vsyncWait"}
      BY SignalForm DEF IInv, SignalCases, Unanswered, VsyncAsked
    <3>2. eePc \in VsyncPcs => eeOp.cmd = "VSYNC"
      BY DEF IInv, FrameInv
    <3> QED
      BY <3>1, <3>2 DEF VsyncPcs, PostingVsync, Uncounted
  <2>5. (c = 1 => p = 1) /\ (u = 1 => p = 1 /\ c = 0)
    BY <2>1, <2>3, <2>4 DEF One
  <2>6. Q <= V + 1 + f + p /\ C \in {Q - 1, Q}
    BY <2>1, <2>2, <2>5
  <2>7. p = IF PostingVsync THEN 1 ELSE 0
    BY <2>1 DEF One
  <2> QED
    BY <2>2, <2>6, <2>7 DEF VsyncQueueBounded
<1> QED
  BY <1>1, Invariance, PTL

\* Without a VU1 thread, a blocked EE has posted enough for the GS to get through
\* every queued vsync and to the end of the ring (PostVsyncStart's SetEvent).
THEOREM WakeUpsDoSuffice ==
  ASSUME THREAD_VU1 = FALSE
  PROVE  Spec => []WakeUpsSuffice
<1>1. Init => IInv /\ WakeInv
  BY InitInv
<1>2. IInv /\ WakeInv /\ [Next]_vars => (IInv /\ WakeInv)'
  <2> SUFFICES ASSUME IInv, WakeInv, [Next]_vars PROVE IInv' /\ WakeInv'
    OBVIOUS
  <2>1. IInv'
    BY NextInv
  <2> QED
    BY <2>1, WakeStep DEF IInv
<1>3. IInv /\ WakeInv => WakeUpsSuffice
  <2> SUFFICES ASSUME IInv, WakeInv, EEBlocked
               PROVE  m_sem_event + One(GSAwake) >= QueuedVsyncs + 1
    BY DEF WakeUpsSuffice, One
  <2>1. PICK E \in Nat, Q \in Nat, W \in {0, 1}, U \in {0, 1}, G \in {0, 1} :
          /\ E = m_sem_event /\ Q = QueuedVsyncs /\ W = One(Working) /\ U = One(Unposted)
          /\ G = One(GSAwake)
    <3>1. m_sem_event \in Nat /\ QueuedVsyncs \in Nat
      BY VsyncsType DEF IInv, TypeOK
    <3>2. One(Working) \in {0, 1} /\ One(Unposted) \in {0, 1} /\ One(GSAwake) \in {0, 1}
      BY DEF One
    <3> QED
      BY <3>1, <3>2
  <2>2. E + W >= Q - U /\ (Asked => E + W >= Q + 1)
    BY <2>1 DEF WakeInv
  <2>3. U = 0
    <3>1. ~Unposted
      BY DEF EEBlocked, Unposted
    <3> QED
      BY <2>1, <3>1 DEF One
  <2>4. W <= G
    <3>1. Working => GSAwake
      BY DEF Working, GSAwake
    <3> QED
      BY <2>1, <3>1 DEF One
  <2>5. Asked \/ (G = 1 /\ W = 0)
    <3>1. SignalCases
      BY SignalForm DEF IInv
    <3>2. eePc = "stallWait" /\ m_sem_OnRingReset = 0 => m_SignalRingEnable
      BY <3>1 DEF SignalCases, RingAsked
    <3>3. eePc = "vsyncWait" /\ m_sem_Vsync = 0 => m_VsyncSignalListener
      BY <3>1 DEF SignalCases, VsyncAsked
    <3>4. Asked \/ gsPc \in {"empty", "emptyVsync"}
      BY <3>2, <3>3 DEF EEBlocked, Asked
    <3>5. gsPc \in {"empty", "emptyVsync"} => GSAwake /\ ~Working
      BY DEF GSAwake, Working
    <3>6. GSAwake /\ ~Working => G = 1 /\ W = 0
      BY <2>1 DEF One
    <3> QED
      BY <3>4, <3>5, <3>6
  <2>6. E + G >= Q + 1
    <3>1. CASE Asked
      <4>1. E + W >= Q + 1
        BY <2>2, <3>1
      <4> QED
        BY <2>4, <4>1
    <3>2. CASE G = 1 /\ W = 0
      BY <2>2, <2>3, <3>2
    <3> QED
      BY <2>5, <3>1, <3>2
  <2> QED
    BY <2>1, <2>6
<1> QED
  BY <1>1, <1>2, <1>3, PTL DEF Spec

-----------------------------------------------------------------------------
(* The ring implements the FIFO *)

\* Publishing a packet puts it, the switch on its tag gets it; no other step does either.
LEMMA StepImplementsFIFO ==
  ASSUME IInv, [Next]_vars
  PROVE  [FIFO!Next]_<<[i \in 1 .. committed |-> i], executed>>
<1> DEFINE p == [i \in 1 .. committed |-> i]
<1>0. TypeOK /\ RingInv /\ Bounded /\ Len(executed) \in Nat /\ committed \in Nat
      /\ Len(executed) <= committed
  BY RingFacts DEF IInv
<1>1. CASE EECommit
  <2> DEFINE c == committed + 1
  <2>1. committed' = c /\ executed' = executed /\ c <= MaxPackets
    BY <1>0, <1>1 DEF EECommit, RingInv, Numbered, One, Bounded
  <2>2. c \in 1 .. MaxPackets
    BY <1>0, <2>1, MTGSAssumption
  <2>3. [i \in 1 .. c |-> i] = Append(p, c)
    <3>1. Len(p) = committed /\ DOMAIN p = 1 .. committed /\ p \in Seq(Nat)
      BY <1>0
    <3>2. Append(p, c) = [i \in 1 .. Len(p) + 1 |-> IF i = Len(p) + 1 THEN c ELSE p[i]]
      BY <1>0, <3>1
    <3>3. \A i \in 1 .. c : (IF i = c THEN c ELSE p[i]) = i
      BY <1>0
    <3> QED
      BY <1>0, <3>1, <3>2, <3>3
  <2>4. p' = Append(p, c)
    BY <2>1, <2>3
  <2> QED
    BY <2>1, <2>2, <2>4 DEF FIFO!Next, FIFO!Put
<1>2. CASE GSExecute
  <2> DEFINE n == Len(executed) + 1
  <2>1. n \in 1 .. committed /\ executed' = Append(executed, n) /\ committed' = committed
    BY <1>0, <1>2, ExecuteReads DEF GSExecute
  <2>2. Len(p) = committed /\ p[n] = n /\ Len(executed) < committed
    BY <1>0, <2>1
  <2>3. p' = p
    BY <2>1
  <2> QED
    BY <2>1, <2>2, <2>3 DEF FIFO!Next, FIFO!Get
<1>3. CASE ~EECommit /\ ~GSExecute
  <2>1. UNCHANGED <<committed, executed>>
    BY <1>3
    DEF Next, EECall, EEStep, GSStep, VUStep, vars, hist, EESend, EEResetGS, EECallWaitGS,
        EEGenericStall, EEStallEnable, EEStallEvent, EEStallWait, EEStallRecheck, EESpinEvent,
        EESpin, EEWrite, EETally, EETallyMore, EETallyTest, EETallyEvent, EEVsyncTest, EEVsyncEvent, EEQueueFrame,
        EEVsyncListen, EEVsyncPost, EEVsyncWait, EEWaitEvent, EEWaitGS, GSEnter, GSWake, GSCheck,
        GSVsync, GSAdvance, GSSignal, GSReturn, GSEmpty, GSEmptyVsync, GSFinishVsync,
        GSFinishTask, VUSetEventPost, VUSetEventClear
  <2> QED
    BY <2>1
<1> QED
  BY <1>1, <1>2, <1>3

\* The GS gets the EE's packets in order, each once, none overwritten.
THEOREM RingImplementsFIFO == Spec => ImplementsFIFO
<1>1. Init => FIFO!Init
  BY DEF Init, FIFO!Init
<1>2. IInv /\ [Next]_vars => [FIFO!Next]_<<[i \in 1 .. committed |-> i], executed>>
  BY StepImplementsFIFO
<1> QED
  BY <1>1, <1>2, Invariance, PTL DEF Spec, ImplementsFIFO, FIFO!Spec
=============================================================================
