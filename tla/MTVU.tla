-------------------------------- MODULE MTVU --------------------------------
(***************************************************************************)
(* The ring between the EE thread and the VU1 thread (pcsx2/MTVU.cpp).      *)
(*                                                                         *)
(* Three threads take part.  The EE writes packets into a ring of words and *)
(* publishes them by storing m_ato_write_pos; VU_Thread::ExecuteRingBuffer  *)
(* reads and executes them and publishes m_ato_read_pos; the MTGS thread,   *)
(* when it meets an MTVU packet in its own ring, kicks VU1 and waits for    *)
(* semaXGkick.  A packet does not wrap: when it does not fit before the end *)
(* of the ring the EE writes an MTVU_NULL_PACKET and starts again at 0.     *)
(*                                                                         *)
(* A ring word records which packet wrote it (seq, from 1) and which word   *)
(* of the packet it is (off, 0 for the tag): all that is needed to tell an  *)
(* intact packet from an overwritten one.                                   *)
(***************************************************************************)
EXTENDS Integers, Sequences

CONSTANTS
  buffer_size,      \* words in the ring
  _4kb,             \* the safety net that WaitOnSize keeps in front of the reader
  Kinds,            \* the packets the EE sends: records [tag, size], size in words
  MaxPackets,       \* bound: packets sent in a behaviour
  MaxPosts          \* bound: value of semaEvent at which a KickStart is held back

Tags == {"VU_EXECUTE", "VU_WRITE", "VIF_WRITE", "VIF_UNPACK"}

ASSUME RingAssumption ==
  /\ buffer_size \in Nat \ {0}
  /\ _4kb \in Nat
  /\ MaxPackets \in Nat
  /\ MaxPosts \in Nat \ {0}

\* Every packet is shorter than the ring (ReserveSpace asserts it) and no longer
\* than the safety net: VIF1 and the EE's own writes send 1024 data words at most
\* against 4096.  The two 4099-word packets of mtvuFreeze are longer, but they are
\* sent to a ring that Reset has just emptied, far from its end.
ASSUME KindsAssumption ==
  /\ Kinds # {}
  /\ \A k \in Kinds : /\ k \in [tag : Tags, size : Nat \ {0}]
                      /\ k.size < buffer_size
                      /\ k.size <= _4kb

VARIABLES
  buffer,           \* the ring's words
  m_write_pos,      \* EE: where it writes next
  m_ato_write_pos,  \* EE publishes: how far VU1 may read
  m_read_pos,       \* VU1: where it reads next
  m_ato_read_pos,   \* VU1 publishes: how far it has consumed
  isBusy,           \* VU1 holds mtxBusy, as far as KickStart knows
  mtxBusy,          \* owner of the mutex: "none" or "vu" (the EE only passes through)
  semaEvent,        \* wakes VU1
  semaXGkick,       \* one post per VU program executed, for MTGS
  gsQueue,          \* MTVU packets in the MTGS ring, not yet processed
  eePc, eeOp, eeRet,\* EE: step, packet being sent, step after KickStart
  vuPc, vuTag,      \* VU1: step, packet whose tag it has read (0: the null packet)
  gsPc,             \* MTGS: step
  \* History variables: no step of the code reads them.
  sent,             \* the packets written, with their place: [tag, size, pos, lap]
  committed,        \* how many of them are published
  executed,         \* what VU1 executed: a seq, or 0 for a packet with foreign words
  wlap, rlap,       \* how often the writer and (as published) the reader went back to 0
  nullPos,          \* where the last null packet was written
  lapped            \* the writer went back to 0 while m_ato_read_pos was still 0

ring  == <<buffer, m_write_pos, m_ato_write_pos, m_read_pos, m_ato_read_pos>>
sync  == <<isBusy, mtxBusy, semaEvent, semaXGkick, gsQueue>>
ee    == <<eePc, eeOp, eeRet>>
vu    == <<vuPc, vuTag>>
hist  == <<sent, committed, executed, wlap, rlap, nullPos, lapped>>
vars  == <<ring, sync, ee, vu, gsPc, hist>>

Addr == 0 .. buffer_size - 1
Word(n, k)       == [seq |-> n, off |-> k]
MTVU_NULL_PACKET == Word(0, 0)
Blank            == Word(0, 1)   \* a word no packet has written yet

Init ==
  /\ buffer = [a \in Addr |-> Blank]
  /\ m_write_pos = 0 /\ m_ato_write_pos = 0
  /\ m_read_pos = 0 /\ m_ato_read_pos = 0
  /\ isBusy = FALSE /\ mtxBusy = "none"
  /\ semaEvent = 0 /\ semaXGkick = 0 /\ gsQueue = 0
  /\ eePc = "idle" /\ eeOp = (CHOOSE k \in Kinds : TRUE) /\ eeRet = "idle"
  /\ vuPc = "sleep" /\ vuTag = 0
  /\ gsPc = "ring"
  /\ sent = << >> /\ committed = 0 /\ executed = << >>
  /\ wlap = 0 /\ rlap = 0 /\ nullPos = 0 /\ lapped = FALSE

-----------------------------------------------------------------------------
(* The EE thread *)

EEGoto(pc) == eePc' = pc /\ UNCHANGED <<eeOp, eeRet>>

\* Enter KickStart, which returns to step `ret`.
EECallKick(ret) == eePc' = "kickBusy" /\ eeRet' = ret /\ UNCHANGED eeOp

\* ExecuteVU, VifUnpack, WriteMicroMem, WriteDataMem, WriteCol and WriteRow
\* begin with ReserveSpace(size of their packet).
EESend ==
  /\ eePc = "idle"
  /\ Len(sent) < MaxPackets
  /\ \E k \in Kinds : eeOp' = k
  /\ eePc' = "reserve"
  /\ UNCHANGED <<ring, sync, eeRet, vu, gsPc, hist>>

\* Mutant: the packet may end on the last word, leaving none for a null packet.
EEReserveSpace_OffByOne ==
  /\ eePc = "reserve"
  /\ EEGoto(IF m_write_pos + eeOp.size > buffer_size THEN "waitNull" ELSE "waitSize")
  /\ UNCHANGED <<ring, sync, vu, gsPc, hist>>

EEReserveSpace ==
  /\ eePc = "reserve"
  /\ EEGoto(IF m_write_pos + eeOp.size > buffer_size - 1 THEN "waitNull" ELSE "waitSize")
  /\ UNCHANGED <<ring, sync, vu, gsPc, hist>>

\* Mutant: the packet's size is forgotten.
Room_AnyFront(size) ==
  \/ m_ato_read_pos <= m_write_pos
  \/ m_ato_read_pos > m_write_pos + 1

\* Mutant: no safety net, and the packet may end exactly at the reader.
Room_NoGap(size) ==
  \/ m_ato_read_pos <= m_write_pos
  \/ m_ato_read_pos >= m_write_pos + size

\* The two ways out of WaitOnSize's loop.
Room(size) ==
  \/ m_ato_read_pos <= m_write_pos
  \/ m_ato_read_pos > m_write_pos + size + _4kb

\* WaitOnSize(1), before the null packet.
EEWaitNull ==
  /\ eePc = "waitNull"
  /\ IF Room(1) THEN EEGoto("wrap") ELSE EECallKick("waitNull")
  /\ UNCHANGED <<ring, sync, vu, gsPc, hist>>

\* Mutant: back to 0 without a null packet.
EEWrap_NoNull ==
  /\ eePc = "wrap"
  /\ m_write_pos' = 0
  /\ m_ato_write_pos' = 0
  /\ wlap' = wlap + 1
  /\ nullPos' = m_write_pos
  /\ lapped' = (lapped \/ m_ato_read_pos = 0)
  /\ EEGoto("waitSize")
  /\ UNCHANGED <<buffer, m_read_pos, m_ato_read_pos, sync, vu, gsPc, sent, committed,
                 executed, rlap>>

\* Write(MTVU_NULL_PACKET); m_write_pos = 0; CommitWritePos().
EEWrap ==
  /\ eePc = "wrap"
  /\ buffer' = [buffer EXCEPT ![m_write_pos] = MTVU_NULL_PACKET]
  /\ m_write_pos' = 0
  /\ m_ato_write_pos' = 0
  /\ wlap' = wlap + 1
  /\ nullPos' = m_write_pos
  /\ lapped' = (lapped \/ m_ato_read_pos = 0)
  /\ EEGoto("waitSize")
  /\ UNCHANGED <<m_read_pos, m_ato_read_pos, sync, vu, gsPc, sent, committed, executed, rlap>>

\* Mutant: the packet is written without waiting for room.
EEWaitOnSize_NoWait ==
  /\ eePc = "waitSize"
  /\ EEGoto("write")
  /\ UNCHANGED <<ring, sync, vu, gsPc, hist>>

\* Mutant: WaitOnSize yields without kicking VU1.
EEWaitOnSize_NoKick ==
  /\ eePc = "waitSize"
  /\ Room(eeOp.size)
  /\ EEGoto("write")
  /\ UNCHANGED <<ring, sync, vu, gsPc, hist>>

EEWaitOnSize ==
  /\ eePc = "waitSize"
  /\ IF Room(eeOp.size) THEN EEGoto("write") ELSE EECallKick("waitSize")
  /\ UNCHANGED <<ring, sync, vu, gsPc, hist>>

\* The Write and WriteRegs calls of one packet.  Nothing is published yet, but
\* VU1 may be reading other words of the ring at the same time.
EEWrite ==
  LET n == Len(sent) + 1 IN
  /\ eePc = "write"
  /\ buffer' = [a \in Addr |-> IF a \in m_write_pos .. m_write_pos + eeOp.size - 1
                                 THEN Word(n, a - m_write_pos) ELSE buffer[a]]
  /\ m_write_pos' = m_write_pos + eeOp.size
  /\ sent' = Append(sent, [tag |-> eeOp.tag, size |-> eeOp.size,
                           pos |-> m_write_pos, lap |-> wlap])
  /\ EEGoto("commit")
  /\ UNCHANGED <<m_ato_write_pos, m_read_pos, m_ato_read_pos, sync, vu, gsPc,
                 committed, executed, wlap, rlap, nullPos, lapped>>

\* CommitWritePos.  ExecuteVU goes on to hand MTGS the packet the program will
\* produce; WriteCol and WriteRow return without a kick.
EECommitWritePos ==
  /\ eePc = "commit"
  /\ m_ato_write_pos' = m_write_pos
  /\ committed' = Len(sent)
  /\ CASE eeOp.tag = "VU_EXECUTE" -> EEGoto("transfer")
       [] eeOp.tag = "VIF_WRITE"  -> EEGoto("idle")
       [] OTHER                   -> EECallKick("idle")
  /\ UNCHANGED <<buffer, m_write_pos, m_read_pos, m_ato_read_pos, sync, vu, gsPc,
                 sent, executed, wlap, rlap, nullPos, lapped>>

\* gifUnit.TransferGSPacketData(GIF_TRANS_MTVU): a packet in the MTGS ring.
EETransfer ==
  /\ eePc = "transfer"
  /\ gsQueue' = gsQueue + 1
  /\ EECallKick("idle")
  /\ UNCHANGED <<ring, isBusy, mtxBusy, semaEvent, semaXGkick, vu, gsPc, hist>>

\* KickStart(): two reads of VU1's state, one after the other.
EEKickBusy ==
  /\ eePc = "kickBusy"
  /\ EEGoto(IF isBusy THEN eeRet ELSE "kickPos")
  /\ UNCHANGED <<ring, sync, vu, gsPc, hist>>

EEKickPos ==
  /\ eePc = "kickPos"
  /\ IF m_ato_read_pos # m_ato_write_pos
       THEN semaEvent < MaxPosts /\ semaEvent' = semaEvent + 1
       ELSE UNCHANGED semaEvent
  /\ EEGoto(eeRet)
  /\ UNCHANGED <<ring, isBusy, mtxBusy, semaXGkick, gsQueue, vu, gsPc, hist>>

\* WaitVU's loop: IsDone, KickStart, then wait for mtxBusy.
EECallWaitVU ==
  /\ eePc = "idle"
  /\ EEGoto("waitVU")
  /\ UNCHANGED <<ring, sync, vu, gsPc, hist>>

IsDone == m_ato_read_pos = m_ato_write_pos

\* Mutant: WaitVU's loop does not kick VU1.
EEWaitVU_NoKick ==
  /\ eePc = "waitVU"
  /\ EEGoto(IF IsDone THEN "idle" ELSE "waitLock")
  /\ UNCHANGED <<ring, sync, vu, gsPc, hist>>

EEWaitVU ==
  /\ eePc = "waitVU"
  /\ IF IsDone THEN EEGoto("idle") ELSE EECallKick("waitLock")
  /\ UNCHANGED <<ring, sync, vu, gsPc, hist>>

EEWaitLock ==
  /\ eePc = "waitLock"
  /\ mtxBusy = "none"
  /\ EEGoto("waitVU")
  /\ UNCHANGED <<ring, sync, vu, gsPc, hist>>

\* Reset(), called with the ring done (DecommitAll calls WaitVU first, mtvuFreeze
\* asserts IsDone), under mtxBusy.
EEReset ==
  /\ eePc = "idle"
  /\ IsDone
  /\ mtxBusy = "none"
  /\ isBusy' = FALSE
  /\ m_write_pos' = 0 /\ m_ato_write_pos' = 0
  /\ m_read_pos' = 0 /\ m_ato_read_pos' = 0
  /\ rlap' = wlap
  /\ UNCHANGED <<buffer, mtxBusy, semaEvent, semaXGkick, gsQueue, ee, vu, gsPc,
                 sent, committed, executed, wlap, nullPos, lapped>>

-----------------------------------------------------------------------------
(* The VU1 thread: ExecuteRingBuffer *)

VUGoto(pc) == vuPc' = pc /\ UNCHANGED vuTag

VUWait ==
  /\ vuPc = "sleep"
  /\ semaEvent > 0
  /\ semaEvent' = semaEvent - 1
  /\ VUGoto("lock")
  /\ UNCHANGED <<ring, isBusy, mtxBusy, semaXGkick, gsQueue, ee, gsPc, hist>>

\* ScopedLockBool: take the mutex, then set isBusy.
VULock ==
  /\ vuPc = "lock"
  /\ mtxBusy = "none"
  /\ mtxBusy' = "vu"
  /\ VUGoto("setBusy")
  /\ UNCHANGED <<ring, isBusy, semaEvent, semaXGkick, gsQueue, ee, gsPc, hist>>

VUSetBusy ==
  /\ vuPc = "setBusy"
  /\ isBusy' = TRUE
  /\ VUGoto("check")
  /\ UNCHANGED <<ring, mtxBusy, semaEvent, semaXGkick, gsQueue, ee, gsPc, hist>>

VUCheck ==
  /\ vuPc = "check"
  /\ VUGoto(IF m_ato_read_pos # m_ato_write_pos THEN "tag" ELSE "clearBusy")
  /\ UNCHANGED <<ring, sync, ee, gsPc, hist>>

\* Mutant: the packet's space is given back when its tag has been read.
VUReadTag_EarlyCommit ==
  LET w == buffer[m_read_pos] IN
  /\ vuPc = "tag"
  /\ \/ /\ w = MTVU_NULL_PACKET
        /\ m_read_pos' = 0
        /\ vuTag' = 0
        /\ vuPc' = "commit"
     \/ /\ w.seq # 0 /\ w.off = 0
        /\ m_read_pos' = m_read_pos + 1
        /\ vuTag' = w.seq
        /\ vuPc' = "body"
     \/ /\ w.off # 0
        /\ VUGoto("wild")
        /\ UNCHANGED m_read_pos
  /\ m_ato_read_pos' = m_read_pos'
  /\ UNCHANGED <<buffer, m_write_pos, m_ato_write_pos, sync, ee, gsPc, hist>>

\* Read() of the tag.  The null packet only moves the reader to 0; a word that
\* is no tag makes the switch undefined (jNO_DEFAULT): "wild".
VUReadTag ==
  LET w == buffer[m_read_pos] IN
  /\ vuPc = "tag"
  /\ \/ /\ w = MTVU_NULL_PACKET
        /\ m_read_pos' = 0
        /\ vuTag' = 0
        /\ vuPc' = "commit"
     \/ /\ w.seq # 0 /\ w.off = 0
        /\ m_read_pos' = m_read_pos + 1
        /\ vuTag' = w.seq
        /\ vuPc' = "body"
     \/ /\ w.off # 0
        /\ VUGoto("wild")
        /\ UNCHANGED m_read_pos
  /\ UNCHANGED <<buffer, m_write_pos, m_ato_write_pos, m_ato_read_pos, sync, ee, gsPc, hist>>

\* The words of packet n from its second one on, read from address a.
BodyIntact(n, a) ==
  \A k \in 1 .. sent[n].size - 1 : buffer[a + k - 1] = Word(n, k)

\* The rest of the packet and its effect; a VU program ends with a post of
\* semaXGkick.
VUExecute ==
  /\ vuPc = "body"
  /\ m_read_pos' = m_read_pos + sent[vuTag].size - 1
  /\ executed' = Append(executed, IF BodyIntact(vuTag, m_read_pos) THEN vuTag ELSE 0)
  /\ semaXGkick' = IF sent[vuTag].tag = "VU_EXECUTE" THEN semaXGkick + 1 ELSE semaXGkick
  /\ VUGoto("commit")
  /\ UNCHANGED <<buffer, m_write_pos, m_ato_write_pos, m_ato_read_pos, isBusy, mtxBusy,
                 semaEvent, gsQueue, ee, gsPc, sent, committed, wlap, rlap, nullPos, lapped>>

VUCommitReadPos ==
  /\ vuPc = "commit"
  /\ m_ato_read_pos' = m_read_pos
  /\ rlap' = IF vuTag = 0 THEN rlap + 1 ELSE rlap
  /\ VUGoto("check")
  /\ UNCHANGED <<buffer, m_write_pos, m_ato_write_pos, m_read_pos, sync, ee, gsPc,
                 sent, committed, executed, wlap, nullPos, lapped>>

\* ~ScopedLockBool: clear isBusy, then release the mutex.
VUClearBusy ==
  /\ vuPc = "clearBusy"
  /\ isBusy' = FALSE
  /\ VUGoto("unlock")
  /\ UNCHANGED <<ring, mtxBusy, semaEvent, semaXGkick, gsQueue, ee, gsPc, hist>>

VUUnlock ==
  /\ vuPc = "unlock"
  /\ mtxBusy' = "none"
  /\ VUGoto("sleep")
  /\ UNCHANGED <<ring, isBusy, semaEvent, semaXGkick, gsQueue, ee, gsPc, hist>>

-----------------------------------------------------------------------------
(* The MTGS thread at a GS_RINGTYPE_MTVU_GSPACKET *)

\* Mutant: MTGS calls KickStart(false).
GSCount_NoForce ==
  /\ gsPc = "ring"
  /\ gsQueue > 0
  /\ gsPc' = "busy"
  /\ UNCHANGED <<ring, sync, ee, vu, hist>>

\* KickStart(true): kick when semaEvent.Count() is 0, else as KickStart(false).
GSCount ==
  /\ gsPc = "ring"
  /\ gsQueue > 0
  /\ gsPc' = IF semaEvent = 0 THEN "post" ELSE "busy"
  /\ UNCHANGED <<ring, sync, ee, vu, hist>>

GSKickBusy ==
  /\ gsPc = "busy"
  /\ gsPc' = IF isBusy THEN "xgkick" ELSE "pos"
  /\ UNCHANGED <<ring, sync, ee, vu, hist>>

GSKickPos ==
  /\ gsPc = "pos"
  /\ gsPc' = IF m_ato_read_pos # m_ato_write_pos THEN "post" ELSE "xgkick"
  /\ UNCHANGED <<ring, sync, ee, vu, hist>>

GSPost ==
  /\ gsPc = "post"
  /\ semaEvent < MaxPosts
  /\ semaEvent' = semaEvent + 1
  /\ gsPc' = "xgkick"
  /\ UNCHANGED <<ring, isBusy, mtxBusy, semaXGkick, gsQueue, ee, vu, hist>>

GSWaitXGkick ==
  /\ gsPc = "xgkick"
  /\ semaXGkick > 0
  /\ semaXGkick' = semaXGkick - 1
  /\ gsQueue' = gsQueue - 1
  /\ gsPc' = "ring"
  /\ UNCHANGED <<ring, isBusy, mtxBusy, semaEvent, ee, vu, hist>>

-----------------------------------------------------------------------------
EECall == EESend \/ EECallWaitVU \/ EEReset
EEStep == \/ EEReserveSpace \/ EEWaitNull \/ EEWrap \/ EEWaitOnSize \/ EEWrite
          \/ EECommitWritePos \/ EETransfer \/ EEKickBusy \/ EEKickPos
          \/ EEWaitVU \/ EEWaitLock
VUStep == \/ VUWait \/ VULock \/ VUSetBusy \/ VUCheck \/ VUReadTag \/ VUExecute
          \/ VUCommitReadPos \/ VUClearBusy \/ VUUnlock
GSStep == GSCount \/ GSKickBusy \/ GSKickPos \/ GSPost \/ GSWaitXGkick

Next == EECall \/ EEStep \/ VUStep \/ GSStep

Spec == Init /\ [][Next]_vars

\* Each thread keeps running while it is not blocked; what the EE asks for
\* next is up to the emulated program.
FairSpec == Spec /\ WF_vars(EEStep) /\ WF_vars(VUStep) /\ WF_vars(GSStep)

-----------------------------------------------------------------------------
(* Properties.  Every one is about behaviours in which the writer has not    *)
(* lapped the reader; NoPendingWhenEqual, which has no such condition, is    *)
(* what MTVU.h says of the ring.                                             *)

EEPcs  == {"idle", "reserve", "waitNull", "wrap", "waitSize", "write", "commit",
           "transfer", "kickBusy", "kickPos", "waitVU", "waitLock"}
EERets == {"idle", "waitNull", "waitSize", "waitLock"}
VUPcs  == {"sleep", "lock", "setBusy", "check", "tag", "body", "commit", "clearBusy",
           "unlock", "wild"}
SentPacket == [tag : Tags, size : Nat \ {0}, pos : Nat, lap : Nat]

TypeOK ==
  /\ buffer \in [Addr -> [seq : Nat, off : Nat]]
  /\ m_write_pos \in Addr /\ m_ato_write_pos \in Addr
  /\ m_read_pos \in Addr /\ m_ato_read_pos \in Addr
  /\ isBusy \in BOOLEAN /\ mtxBusy \in {"none", "vu"}
  /\ semaEvent \in Nat /\ semaXGkick \in Nat /\ gsQueue \in Nat
  /\ eePc \in EEPcs /\ eeRet \in EERets /\ eeOp \in Kinds
  /\ vuPc \in VUPcs /\ vuTag \in Nat
  /\ gsPc \in {"ring", "busy", "pos", "post", "xgkick"}
  /\ sent \in Seq(SentPacket) /\ committed \in 0 .. Len(sent)
  /\ executed \in Seq(Nat)
  /\ wlap \in Nat /\ rlap \in Nat /\ nullPos \in Addr /\ lapped \in BOOLEAN

PacketIntact(n) ==
  \A k \in 0 .. sent[n].size - 1 : buffer[sent[n].pos + k] = Word(n, k)

\* A published packet that VU1 has not executed is in the ring word for word:
\* ReserveSpace never lets the EE write over one (MTVU.cpp, WaitOnSize).
RingIntact ==
  ~lapped => \A n \in Len(executed) + 1 .. committed : PacketIntact(n)

\* VU1 executes the packets in the order sent, each once, and never takes a
\* word that is no tag for one (the jNO_DEFAULT of ExecuteRingBuffer's switch).
ExecutedInOrder ==
  ~lapped => /\ vuPc # "wild"
             /\ \A i \in 1 .. Len(executed) : executed[i] = i

\* IsDone, which ends WaitVU and lets Reset and mtvuFreeze go ahead, holds only
\* when every published packet has been executed.
DoneMeansExecuted == ~lapped => (IsDone => Len(executed) = committed)

\* MTVU.h: "ring-buffer has no complete pending packets when read_pos==write_pos".
NoPendingWhenEqual == IsDone => Len(executed) >= committed

\* WaitVU returns: the wake-up that KickStart skips when VU1 is just leaving
\* its loop (isBusy still set) is made up for by the next turn of the loop.
WaitVUReturns == eePc = "waitVU" ~> (eePc = "idle" \/ lapped)

\* A packet that needs room gets it: WaitOnSize's two loops end.
SendCompletes == eePc = "reserve" ~> (eePc = "commit" \/ lapped)

\* MTGS is never left waiting for the xgkick of a program the EE has sent: the
\* forced kick covers the wake-up that the EE's own KickStart may have skipped.
XGkickArrives == gsPc = "xgkick" ~> (gsPc = "ring" \/ lapped)

-----------------------------------------------------------------------------
(* The ring implements a FIFO of packets as long as it is not lapped.        *)

FIFO == INSTANCE PacketFIFO WITH
          Packet   <- 1 .. MaxPackets,
          produced <- [i \in 1 .. committed |-> i],
          consumed <- executed

\* No packet is lost, repeated, reordered or made up between EE and VU1, up to
\* the step that laps the reader.
ImplementsFIFO ==
  FIFO!Init /\ [][~lapped' => FIFO!Next]_<<committed, executed>>

-----------------------------------------------------------------------------
(* The inductive invariant behind the four invariants above.                 *)

\* The EE's step, a KickStart it is inside being part of the step that called it.
eeAt == IF eePc \in {"kickBusy", "kickPos"} THEN eeRet ELSE eePc

\* Every word names the packet and the place it was written for; packets end
\* before the last word of the ring.
WordsPlaced ==
  /\ \A a \in Addr : buffer[a].seq # 0 =>
       /\ buffer[a].seq \in 1 .. Len(sent)
       /\ a = sent[buffer[a].seq].pos + buffer[a].off
  /\ \A n \in 1 .. Len(sent) : sent[n].pos + sent[n].size <= buffer_size - 1

\* What the EE's step says about its write positions.
WriterInv ==
  /\ Len(sent) <= MaxPackets
  /\ eeAt \in {"reserve", "waitNull", "wrap", "waitSize", "write"} => Len(sent) < MaxPackets
  /\ eeAt \in {"waitNull", "wrap"} => m_write_pos + eeOp.size > buffer_size - 1
  /\ eeAt \in {"waitSize", "write"} => m_write_pos + eeOp.size <= buffer_size - 1
  /\ eePc # "commit" => m_ato_write_pos = m_write_pos /\ committed = Len(sent)
  /\ eePc = "commit" =>
       /\ committed + 1 = Len(sent)
       /\ sent[Len(sent)].pos = m_ato_write_pos
       /\ sent[Len(sent)].pos + sent[Len(sent)].size = m_write_pos
       /\ sent[Len(sent)].lap = wlap

\* What VU1's step says about its read positions; who holds mtxBusy; MTGS.
ReaderInv ==
  /\ mtxBusy = "none" <=> vuPc \in {"sleep", "lock"}
  /\ vuPc \notin {"body", "commit"} => m_read_pos = m_ato_read_pos
  /\ vuPc = "body" => vuTag \in 1 .. Len(sent) /\ m_read_pos = sent[vuTag].pos + 1
  /\ gsPc # "ring" => gsQueue > 0

\* The packets whose space VU1 has given back.
Released == IF vuPc = "commit" /\ vuTag # 0 THEN Len(executed) - 1 ELSE Len(executed)
Pending  == Released + 1 .. Len(sent)

\* The writer is at most one lap ahead, and then below the reader.
Laps ==
  /\ \/ /\ wlap = rlap
        /\ m_ato_read_pos <= m_ato_write_pos
     \/ /\ wlap = rlap + 1
        /\ m_write_pos < m_ato_read_pos /\ m_ato_read_pos <= nullPos
        /\ buffer[nullPos] = MTVU_NULL_PACKET
  /\ m_ato_write_pos <= m_write_pos
  /\ eePc = "wrap" => wlap = rlap
  /\ eePc = "write" => \/ wlap = rlap
                       \/ m_ato_read_pos > m_write_pos + eeOp.size + _4kb

\* Where a packet that still occupies the ring lies.
Placed(n) ==
  /\ sent[n].lap \in {rlap, wlap}
  /\ sent[n].lap = wlap => sent[n].pos + sent[n].size <= m_write_pos
  /\ (sent[n].lap = wlap /\ n <= committed) => sent[n].pos + sent[n].size <= m_ato_write_pos
  /\ sent[n].lap = rlap => m_ato_read_pos <= sent[n].pos
  /\ (sent[n].lap = rlap /\ wlap # rlap) => sent[n].pos + sent[n].size <= nullPos
  /\ PacketIntact(n)

Ordered ==
  \A n, m \in Pending : n < m =>
    /\ sent[n].lap <= sent[m].lap
    /\ sent[n].lap = sent[m].lap => sent[n].pos + sent[n].size <= sent[m].pos

\* Packets follow each other without a gap, from m_ato_read_pos to m_write_pos;
\* the one gap is the null packet's.
StartPos(n) == IF n <= Len(sent) THEN sent[n].pos ELSE m_write_pos
StartLap(n) == IF n <= Len(sent) THEN sent[n].lap ELSE wlap
EndPos(n)   == IF n > Released THEN sent[n].pos + sent[n].size ELSE m_ato_read_pos
EndLap(n)   == IF n > Released THEN sent[n].lap ELSE rlap

Linked(n) ==
  \/ StartLap(n + 1) = EndLap(n) /\ StartPos(n + 1) = EndPos(n)
  \/ /\ EndLap(n) = rlap /\ StartLap(n + 1) = rlap + 1 /\ wlap = rlap + 1
     /\ EndPos(n) = nullPos /\ StartPos(n + 1) = 0

\* VU1 executes the first pending packet, or the null packet, and nothing else.
InProgress ==
  /\ vuPc # "wild"
  /\ Len(executed) <= committed
  /\ \A i \in 1 .. Len(executed) : executed[i] = i
  /\ vuPc = "tag" => m_ato_read_pos # m_ato_write_pos
  /\ vuPc = "body" => /\ vuTag = Len(executed) + 1 /\ vuTag <= committed
                      /\ sent[vuTag].pos = m_ato_read_pos /\ sent[vuTag].lap = rlap
  /\ (vuPc = "commit" /\ vuTag # 0) =>
       /\ vuTag = Len(executed)
       /\ sent[vuTag].lap = rlap
       /\ m_read_pos = sent[vuTag].pos + sent[vuTag].size
  /\ (vuPc = "commit" /\ vuTag = 0) =>
       m_read_pos = 0 /\ wlap = rlap + 1 /\ m_ato_read_pos = nullPos

Layout ==
  /\ Laps
  /\ \A n \in Pending : Placed(n)
  /\ Ordered
  /\ \A n \in Released .. Len(sent) : Linked(n)
  /\ InProgress

\* The state the next step can rely on: what ReserveSpace and ExecuteRingBuffer
\* keep true of the ring between their own steps.
IInv == TypeOK /\ WordsPlaced /\ WriterInv /\ ReaderInv /\ (~lapped => Layout)
=============================================================================
