---------------------------- MODULE MTVU_proofs ----------------------------
(***************************************************************************)
(* Proofs about the MTVU ring, for every ring size, safety net, set of      *)
(* packets and number of packets that satisfy MTVU's assumptions.           *)
(***************************************************************************)
EXTENDS MTVU, TLAPS

Packets == \A n \in Pending : Placed(n)
Links   == \A n \in Released .. Len(sent) : Linked(n)

\* The initial ring is empty: EE and VU1 both at word 0.
LEMMA InitInv == Init => IInv
<1> SUFFICES ASSUME Init PROVE IInv
  OBVIOUS
<1> USE RingAssumption, KindsAssumption
<1>1. eeOp \in Kinds
  BY DEF Init
<1>a. buffer \in [Addr -> [seq : Nat, off : Nat]]
  BY DEF Init, Blank, Word
<1>b. 0 \in Addr
  BY DEF RingAssumption, Addr
<1>c. sent \in Seq(SentPacket) /\ committed \in 0 .. Len(sent) /\ executed \in Seq(Nat)
  BY DEF Init
<1>2. TypeOK
  BY <1>1, <1>a, <1>b, <1>c DEF Init, TypeOK, EEPcs, EERets, VUPcs
<1>3. WordsPlaced
  BY DEF Init, WordsPlaced, Addr, Blank, Word
<1>4. WriterInv /\ ReaderInv
  BY <1>2 DEF Init, WriterInv, ReaderInv, eeAt
<1>5. Released = 0 /\ Len(sent) = 0 /\ Len(executed) = 0
  BY DEF Init, Released
<1>6. Laps /\ InProgress
  BY <1>5 DEF Init, Laps, InProgress
<1>7. (\A n \in Pending : Placed(n)) /\ Ordered
  BY <1>5 DEF Pending, Ordered
<1>8. \A n \in Released .. Len(sent) : Linked(n)
  BY <1>5 DEF Init, Linked, StartPos, StartLap, EndPos, EndLap
<1> QED
  BY <1>2, <1>3, <1>4, <1>6, <1>7, <1>8 DEF IInv, Layout

\* The layout of the ring does not depend on steps that move no position.
LEMMA QuietLayout ==
  ASSUME UNCHANGED <<ring, vu, hist>>
  PROVE  /\ Packets <=> Packets'
         /\ Ordered <=> Ordered'
         /\ Links <=> Links'
         /\ InProgress <=> InProgress'
<1> USE DEF ring, vu, hist
<1>1. Released' = Released /\ Pending' = Pending /\ sent' = sent
  BY DEF Released, Pending
<1>2. Packets <=> Packets'
  BY <1>1 DEF Packets, Placed, PacketIntact
<1>3. Ordered <=> Ordered'
  BY <1>1 DEF Ordered
<1>4. Links <=> Links'
  BY <1>1 DEF Links, Linked, StartPos, StartLap, EndPos, EndLap
<1>5. InProgress <=> InProgress'
  BY <1>1 DEF InProgress
<1> QED
  BY <1>2, <1>3, <1>4, <1>5

\* Such a step keeps the whole invariant if it keeps the EE's and MTGS's part.
LEMMA QuietStep ==
  ASSUME IInv, UNCHANGED <<ring, vu, hist, mtxBusy>>,
         isBusy' \in BOOLEAN,
         semaEvent' \in Nat, semaXGkick' \in Nat, gsQueue' \in Nat,
         eePc' \in EEPcs, eeRet' \in EERets, eeOp' \in Kinds,
         gsPc' \in {"ring", "busy", "pos", "post", "xgkick"},
         gsPc' # "ring" => gsQueue' > 0,
         WriterInv',
         ~lapped => Laps'
  PROVE  IInv'
<1> USE DEF ring, vu, hist
<1>1. TypeOK'
  BY DEF IInv, TypeOK
<1>2. WordsPlaced'
  BY DEF IInv, WordsPlaced
<1>3. ReaderInv'
  BY DEF IInv, ReaderInv
<1>4. ~lapped' => Layout'
  BY QuietLayout DEF IInv, Layout, Packets, Links
<1> QED
  BY <1>1, <1>2, <1>3, <1>4 DEF IInv

\* Between packets and inside KickStart the EE only changes its step.
LEMMA EEQuietInv ==
  ASSUME IInv, EESend \/ EEReserveSpace \/ EEWaitNull \/ EEWaitOnSize \/ EETransfer
               \/ EEKickBusy \/ EEKickPos \/ EECallWaitVU \/ EEWaitVU \/ EEWaitLock
  PROVE  IInv'
<1> USE DEF ring, sync, vu, hist, EEGoto, EECallKick
<1>t. TypeOK /\ WriterInv /\ (~lapped => Laps) /\ ReaderInv
  BY DEF IInv, Layout
<1>0. /\ buffer_size \in Nat /\ _4kb \in Nat
      /\ m_write_pos \in Nat /\ m_ato_read_pos \in Nat /\ m_ato_read_pos <= buffer_size - 1
  BY <1>t, RingAssumption DEF RingAssumption, TypeOK, Addr
<1>k. eeOp.size \in Nat /\ eeOp.size < buffer_size /\ eeOp.size <= _4kb
  BY <1>t, KindsAssumption DEF KindsAssumption, TypeOK
<1>1. CASE EESend
  <2>1. eeAt' = "reserve" /\ Len(sent) < MaxPackets /\ eePc # "commit"
    BY <1>1 DEF EESend, eeAt
  <2>2. WriterInv'
    BY <1>1, <1>t, <2>1 DEF EESend, WriterInv
  <2>3. ~lapped => Laps'
    BY <1>1, <1>t DEF EESend, Laps
  <2> QED
    BY <1>1, <1>t, <2>2, <2>3, QuietStep DEF EESend, TypeOK, EEPcs, EERets, ReaderInv
<1>2. CASE EEReserveSpace
  <2>1. eePc = "reserve" /\ eeAt = "reserve"
    BY <1>2 DEF EEReserveSpace, eeAt
  <2>2. WriterInv'
    BY <1>2, <1>t, <1>0, <1>k, <2>1 DEF EEReserveSpace, WriterInv, eeAt
  <2>3. ~lapped => Laps'
    BY <1>2, <1>t DEF EEReserveSpace, Laps
  <2> QED
    BY <1>2, <1>t, <2>2, <2>3, QuietStep DEF EEReserveSpace, TypeOK, EEPcs, EERets, ReaderInv
<1>3. CASE EEWaitNull
  <2>1. WriterInv'
    BY <1>3, <1>t DEF EEWaitNull, WriterInv, eeAt
  <2>2. ~lapped => Laps'
    <3>1. SUFFICES ASSUME ~lapped, eePc' = "wrap" PROVE wlap = rlap
      BY <1>3, <1>t DEF EEWaitNull, Laps
    <3>2. Room(1)
      BY <1>3, <3>1 DEF EEWaitNull
    <3>3. m_write_pos + eeOp.size > buffer_size - 1
      BY <1>3, <1>t DEF EEWaitNull, WriterInv, eeAt
    <3> QED
      BY <1>t, <1>0, <1>k, <3>1, <3>2, <3>3 DEF Room, Laps
  <2> QED
    BY <1>3, <1>t, <2>1, <2>2, QuietStep DEF EEWaitNull, TypeOK, EEPcs, EERets, ReaderInv
<1>4. CASE EEWaitOnSize
  <2>1. WriterInv'
    BY <1>4, <1>t DEF EEWaitOnSize, WriterInv, eeAt
  <2>2. ~lapped => Laps'
    <3>1. SUFFICES ASSUME ~lapped, eePc' = "write"
                   PROVE  \/ wlap = rlap
                          \/ m_ato_read_pos > m_write_pos + eeOp.size + _4kb
      BY <1>4, <1>t DEF EEWaitOnSize, Laps
    <3> QED
      BY <1>4, <1>t, <1>0, <3>1 DEF EEWaitOnSize, Room, Laps
  <2> QED
    BY <1>4, <1>t, <2>1, <2>2, QuietStep DEF EEWaitOnSize, TypeOK, EEPcs, EERets, ReaderInv
<1>5. CASE EETransfer
  <2>1. WriterInv'
    BY <1>5, <1>t DEF EETransfer, WriterInv, eeAt
  <2>2. ~lapped => Laps'
    BY <1>5, <1>t DEF EETransfer, Laps
  <2> QED
    BY <1>5, <1>t, <2>1, <2>2, QuietStep DEF EETransfer, TypeOK, EEPcs, EERets, ReaderInv
<1>6. CASE EEKickBusy \/ EEKickPos
  <2>1. WriterInv'
    BY <1>6, <1>t DEF EEKickBusy, EEKickPos, WriterInv, eeAt, TypeOK, EERets
  <2>2. ~lapped => Laps'
    BY <1>6, <1>t DEF EEKickBusy, EEKickPos, Laps, TypeOK, EERets
  <2>3. semaEvent' \in Nat
    <3>1. semaEvent \in Nat
      BY <1>t DEF TypeOK
    <3> QED
      BY <1>6, <3>1 DEF EEKickBusy, EEKickPos
  <2>4. eePc' \in EEPcs
    BY <1>6, <1>t DEF EEKickBusy, EEKickPos, TypeOK, EEPcs, EERets
  <2> QED
    BY <1>6, <1>t, <2>1, <2>2, <2>3, <2>4, QuietStep DEF EEKickBusy, EEKickPos, TypeOK, ReaderInv
<1>7. CASE EECallWaitVU \/ EEWaitVU \/ EEWaitLock
  <2>1. WriterInv'
    BY <1>7, <1>t DEF EECallWaitVU, EEWaitVU, EEWaitLock, WriterInv, eeAt
  <2>2. ~lapped => Laps'
    BY <1>7, <1>t DEF EECallWaitVU, EEWaitVU, EEWaitLock, Laps
  <2> QED
    BY <1>7, <1>t, <2>1, <2>2, QuietStep
    DEF EECallWaitVU, EEWaitVU, EEWaitLock, TypeOK, EEPcs, EERets, ReaderInv
<1> QED
  BY <1>1, <1>2, <1>3, <1>4, <1>5, <1>6, <1>7

\* MTGS reads VU1's state and posts its semaphore; it touches no position.
LEMMA GSInv ==
  ASSUME IInv, GSStep
  PROVE  IInv'
<1> USE DEF ring, sync, ee, vu, hist
<1>t. TypeOK /\ WriterInv /\ (~lapped => Laps) /\ ReaderInv
  BY DEF IInv, Layout
<1>1. WriterInv' /\ (~lapped => Laps')
  BY <1>t DEF GSStep, GSCount, GSKickBusy, GSKickPos, GSPost, GSWaitXGkick, WriterInv, eeAt, Laps
<1>2. /\ gsQueue' \in Nat /\ semaEvent' \in Nat /\ semaXGkick' \in Nat
      /\ gsPc' \in {"ring", "busy", "pos", "post", "xgkick"}
      /\ gsPc' # "ring" => gsQueue' > 0
  <2>1. /\ gsQueue \in Nat /\ semaEvent \in Nat /\ semaXGkick \in Nat
        /\ gsPc # "ring" => gsQueue > 0
    BY <1>t DEF TypeOK, ReaderInv
  <2>2. CASE GSCount \/ GSKickBusy \/ GSKickPos
    BY <2>1, <2>2 DEF GSCount, GSKickBusy, GSKickPos
  <2>3. CASE GSPost \/ GSWaitXGkick
    BY <2>1, <2>3 DEF GSPost, GSWaitXGkick
  <2> QED
    BY <2>2, <2>3 DEF GSStep
<1> QED
  BY <1>t, <1>1, <1>2, QuietStep
  DEF GSStep, GSCount, GSKickBusy, GSKickPos, GSPost, GSWaitXGkick, TypeOK

\* The numbers the invariant is about are natural numbers within the ring.
LEMMA Numbers ==
  ASSUME IInv
  PROVE  /\ buffer_size \in Nat /\ buffer_size > 0 /\ _4kb \in Nat /\ MaxPackets \in Nat
         /\ m_write_pos \in Nat /\ m_write_pos <= buffer_size - 1
         /\ m_ato_write_pos \in Nat /\ m_ato_write_pos <= buffer_size - 1
         /\ m_read_pos \in Nat /\ m_read_pos <= buffer_size - 1
         /\ m_ato_read_pos \in Nat /\ m_ato_read_pos <= buffer_size - 1
         /\ nullPos \in Nat /\ nullPos <= buffer_size - 1
         /\ wlap \in Nat /\ rlap \in Nat /\ vuTag \in Nat
         /\ eeOp.size \in Nat /\ eeOp.size > 0 /\ eeOp.size < buffer_size
         /\ eeOp.size <= _4kb /\ eeOp.tag \in Tags
         /\ Len(sent) \in Nat /\ Len(executed) \in Nat
         /\ committed \in Nat /\ committed <= Len(sent)
         /\ \A n \in 1 .. Len(sent) :
              /\ sent[n] \in SentPacket
              /\ sent[n].pos \in Nat /\ sent[n].size \in Nat /\ sent[n].size > 0
              /\ sent[n].lap \in Nat
         /\ \A a \in Addr : buffer[a].seq \in Nat /\ buffer[a].off \in Nat
<1>1. TypeOK
  BY DEF IInv
<1>2. /\ buffer_size \in Nat /\ buffer_size > 0 /\ _4kb \in Nat /\ MaxPackets \in Nat
  BY RingAssumption DEF RingAssumption
<1>3. /\ m_write_pos \in Nat /\ m_write_pos <= buffer_size - 1
      /\ m_ato_write_pos \in Nat /\ m_ato_write_pos <= buffer_size - 1
      /\ m_read_pos \in Nat /\ m_read_pos <= buffer_size - 1
      /\ m_ato_read_pos \in Nat /\ m_ato_read_pos <= buffer_size - 1
      /\ nullPos \in Nat /\ nullPos <= buffer_size - 1
      /\ wlap \in Nat /\ rlap \in Nat /\ vuTag \in Nat
  BY <1>1, <1>2 DEF TypeOK, Addr
<1>4. /\ eeOp.size \in Nat /\ eeOp.size > 0 /\ eeOp.size < buffer_size
      /\ eeOp.size <= _4kb /\ eeOp.tag \in Tags
  <2>1. eeOp \in Kinds
    BY <1>1 DEF TypeOK
  <2>2. eeOp \in [tag : Tags, size : Nat \ {0}] /\ eeOp.size < buffer_size /\ eeOp.size <= _4kb
    BY <2>1, KindsAssumption DEF KindsAssumption
  <2> QED
    BY <2>2
<1>5. sent \in Seq(SentPacket) /\ executed \in Seq(Nat) /\ committed \in 0 .. Len(sent)
  BY <1>1 DEF TypeOK
<1>6. /\ Len(sent) \in Nat /\ Len(executed) \in Nat
      /\ committed \in Nat /\ committed <= Len(sent)
  BY <1>5
<1>7. \A n \in 1 .. Len(sent) : sent[n] \in SentPacket
  BY <1>5
<1>8. \A p \in SentPacket : /\ p.pos \in Nat /\ p.size \in Nat /\ p.size > 0
                            /\ p.lap \in Nat
  BY DEF SentPacket
<1>9. \A a \in Addr : buffer[a].seq \in Nat /\ buffer[a].off \in Nat
  BY <1>1 DEF TypeOK
<1> QED
  BY <1>2, <1>3, <1>4, <1>6, <1>7, <1>8, <1>9

\* The positions alone: what most arithmetic steps need.
LEMMA Positions ==
  ASSUME IInv
  PROVE  /\ buffer_size \in Nat /\ _4kb \in Nat
         /\ m_write_pos \in Nat /\ m_write_pos <= buffer_size - 1
         /\ m_ato_write_pos \in Nat /\ m_ato_read_pos \in Nat /\ m_read_pos \in Nat
         /\ nullPos \in Nat /\ wlap \in Nat /\ rlap \in Nat
         /\ eeOp.size \in Nat /\ eeOp.size > 0
  BY Numbers

\* Pending packets are packets that were sent.
LEMMA PendingSent ==
  ASSUME IInv, ~lapped
  PROVE  /\ Released \in Nat /\ Released <= Len(executed) /\ Released <= committed
         /\ Pending \subseteq 1 .. Len(sent)
         /\ \A n \in Pending : /\ n \in 1 .. Len(sent) /\ n > Released
                                /\ sent[n].pos \in Nat /\ sent[n].lap \in Nat
                                /\ sent[n].size \in Nat /\ sent[n].size > 0
<1>1. /\ Len(executed) \in Nat /\ committed \in Nat /\ vuTag \in Nat /\ Len(sent) \in Nat
      /\ Len(executed) <= committed
      /\ (vuPc = "commit" /\ vuTag # 0) => vuTag = Len(executed)
  BY Numbers DEF IInv, Layout, InProgress
<1>2. Released \in Nat /\ Released <= Len(executed) /\ Released <= committed
  BY <1>1 DEF Released
<1>3. \A n \in Pending : n \in 1 .. Len(sent) /\ n > Released
  BY <1>1, <1>2 DEF Pending
<1> QED
  BY <1>2, <1>3, Numbers

\* CommitWritePos publishes a packet that is complete.
LEMMA EECommitInv ==
  ASSUME IInv, EECommitWritePos
  PROVE  IInv'
<1> USE DEF sync, vu
<1>t. TypeOK /\ WordsPlaced /\ WriterInv /\ ReaderInv /\ (~lapped => Layout)
  BY DEF IInv
<1>0. /\ eePc = "commit"
      /\ m_ato_write_pos' = m_write_pos /\ committed' = Len(sent)
      /\ UNCHANGED <<buffer, m_write_pos, m_read_pos, m_ato_read_pos, sync, vu, gsPc,
                     sent, executed, wlap, rlap, nullPos, lapped, eeOp>>
  BY DEF EECommitWritePos, EEGoto, EECallKick
<1>1. /\ eePc' \in {"transfer", "idle", "kickBusy"}
      /\ eeRet' = eeRet \/ (eePc' = "kickBusy" /\ eeRet' = "idle")
      /\ eePc' = "kickBusy" => eeRet' = "idle"
  BY DEF EECommitWritePos, EEGoto, EECallKick
<1>2. /\ committed + 1 = Len(sent)
      /\ sent[Len(sent)].pos = m_ato_write_pos
      /\ sent[Len(sent)].pos + sent[Len(sent)].size = m_write_pos
  BY <1>t, <1>0 DEF WriterInv
<1>3. m_ato_write_pos < m_write_pos /\ committed < Len(sent)
  <2>1. Len(sent) \in 1 .. Len(sent)
    BY <1>2, Numbers
  <2>2. sent[Len(sent)].pos \in Nat /\ sent[Len(sent)].size \in Nat /\ sent[Len(sent)].size > 0
    BY <2>1, Numbers
  <2>3. committed \in Nat /\ Len(sent) \in Nat /\ m_write_pos \in Nat /\ m_ato_write_pos \in Nat
    BY Numbers
  <2> QED
    BY <1>2, <2>2, <2>3
<1>4. TypeOK'
  <2>1. committed' \in 0 .. Len(sent)
    BY <1>0, Numbers
  <2> QED
    BY <1>t, <1>0, <1>1, <2>1 DEF TypeOK, EEPcs, EERets
<1>5. WordsPlaced'
  BY <1>t, <1>0 DEF WordsPlaced
<1>6. WriterInv'
  BY <1>t, <1>0, <1>1 DEF WriterInv, eeAt
<1>7. ReaderInv'
  BY <1>t, <1>0 DEF ReaderInv
<1>8. ASSUME ~lapped PROVE Layout'
  <2>1. Laps /\ Packets /\ Ordered /\ Links /\ InProgress
    BY <1>t, <1>8 DEF Layout, Packets, Links
  <2>2. Released' = Released /\ Pending' = Pending
    BY <1>0 DEF Released, Pending
  <2>3. Laps'
    BY <2>1, <1>0, <1>1, <1>3, Numbers, SMTT(60) DEF Laps
  <2>4. Packets'
    BY <2>1, <2>2, <1>0 DEF Packets, Placed, PacketIntact
  <2>5. Ordered'
    BY <2>1, <2>2, <1>0 DEF Ordered
  <2>6. Links'
    BY <2>1, <2>2, <1>0 DEF Links, Linked, StartPos, StartLap, EndPos, EndLap
  <2>7. InProgress'
    <3>1. Len(executed) <= Len(sent)
      BY <2>1, Numbers DEF InProgress
    <3>2. m_ato_read_pos # m_write_pos
      BY <2>1, <1>3, Numbers DEF Laps
    <3>3. vuPc = "body" => vuTag <= Len(sent)
      BY <2>1, Numbers DEF InProgress
    <3> QED
      BY <2>1, <1>0, <3>1, <3>2, <3>3 DEF InProgress
  <2> QED
    BY <2>3, <2>4, <2>5, <2>6, <2>7 DEF Layout, Packets, Links
<1> QED
  BY <1>0, <1>4, <1>5, <1>6, <1>7, <1>8 DEF IInv

\* The null packet goes where no pending packet is, and leaves the writer below
\* the reader.
LEMMA EEWrapInv ==
  ASSUME IInv, EEWrap
  PROVE  IInv'
<1> USE DEF sync, vu
<1>t. TypeOK /\ WordsPlaced /\ WriterInv /\ ReaderInv /\ (~lapped => Layout)
  BY DEF IInv
<1>0. /\ eePc = "wrap" /\ eePc' = "waitSize"
      /\ m_write_pos' = 0 /\ m_ato_write_pos' = 0
      /\ wlap' = wlap + 1 /\ nullPos' = m_write_pos
      /\ lapped' = (lapped \/ m_ato_read_pos = 0)
      /\ UNCHANGED <<m_read_pos, m_ato_read_pos, sync, vu, gsPc, sent, committed, executed,
                     rlap, eeOp, eeRet>>
  BY DEF EEWrap, EEGoto
<1>1. /\ m_write_pos \in Addr
      /\ buffer \in [Addr -> [seq : Nat, off : Nat]]
  BY <1>t DEF TypeOK
<1>2. /\ buffer' \in [Addr -> [seq : Nat, off : Nat]]
      /\ buffer'[m_write_pos] = MTVU_NULL_PACKET
      /\ \A a \in Addr : a # m_write_pos => buffer'[a] = buffer[a]
  BY <1>1 DEF EEWrap, MTVU_NULL_PACKET, Word
<1>3. 0 \in Addr
  BY Numbers DEF Addr
<1>4. TypeOK'
  <2>1. lapped' \in BOOLEAN /\ wlap' \in Nat /\ eePc' \in EEPcs
    BY <1>0, Numbers, SMTT(60) DEF EEPcs
  <2> QED
    BY <1>t, <1>0, <1>1, <1>2, <1>3, <2>1 DEF TypeOK
<1>5. WordsPlaced'
  <2>1. ASSUME NEW a \in Addr, buffer'[a].seq # 0
        PROVE  buffer'[a] = buffer[a]
    BY <1>2, <2>1 DEF MTVU_NULL_PACKET, Word
  <2> QED
    BY <1>t, <1>0, <2>1 DEF WordsPlaced
<1>6. WriterInv'
  <2>1. eeOp.size <= buffer_size - 1
    BY Numbers, SMTT(60)
  <2> QED
    BY <1>t, <1>0, <2>1, Numbers DEF WriterInv, eeAt
<1>7. ReaderInv'
  BY <1>t, <1>0 DEF ReaderInv
<1>8. ASSUME ~lapped' PROVE Layout'
  <2>1. Laps /\ Packets /\ Ordered /\ Links /\ InProgress
    BY <1>t, <1>0, <1>8 DEF Layout, Packets, Links
  <2>2. Released' = Released /\ Pending' = Pending
    BY <1>0 DEF Released, Pending
  <2>3. /\ wlap = rlap /\ m_ato_read_pos # 0 /\ m_ato_read_pos <= m_write_pos
        /\ m_ato_write_pos = m_write_pos
    <3>1. m_ato_write_pos = m_write_pos
      BY <1>0, <1>t DEF WriterInv
    <3>2. wlap = rlap
      BY <2>1, <1>0 DEF Laps
    <3>3. m_ato_read_pos # 0
      BY <1>0, <1>8
    <3> QED
      BY <3>1, <3>2, <3>3, <2>1, Positions DEF Laps
  <2>4. Laps'
    BY <2>3, <1>0, <1>2, Numbers DEF Laps
  <2>5. Packets'
    <3>1. SUFFICES ASSUME NEW n \in Pending PROVE Placed(n)'
      BY <2>2 DEF Packets
    <3>2. /\ sent[n].lap = rlap /\ sent[n].pos + sent[n].size <= m_write_pos
          /\ m_ato_read_pos <= sent[n].pos
      BY <2>1, <2>3 DEF Packets, Placed
    <3>4. sent[n].pos \in Nat /\ sent[n].size \in Nat
      BY <1>0, <1>8, PendingSent
    <3>5. PacketIntact(n)'
      <4>1. SUFFICES ASSUME NEW k \in 0 .. sent[n].size - 1
                     PROVE  buffer'[sent[n].pos + k] = Word(n, k)
        BY <1>0 DEF PacketIntact, Word
      <4>2. buffer[sent[n].pos + k] = Word(n, k)
        BY <2>1 DEF Packets, Placed, PacketIntact
      <4>3. sent[n].pos + k \in Addr /\ sent[n].pos + k # m_write_pos
        BY <3>2, <3>4, Positions DEF Addr
      <4> QED
        BY <4>2, <4>3, <1>2
    <3>6. rlap # wlap'
      BY <1>0, <2>3, Numbers
    <3> QED
      BY <3>2, <3>5, <3>6, <1>0 DEF Placed
  <2>6. Ordered'
    BY <2>1, <2>2, <1>0 DEF Ordered
  <2>7. Links'
    <3>1. SUFFICES ASSUME NEW n \in Released .. Len(sent) PROVE Linked(n)'
      BY <2>2, <1>0 DEF Links
    <3>2. StartLap(n + 1) = EndLap(n) /\ StartPos(n + 1) = EndPos(n)
      BY <2>1, <2>3, Numbers, SMTT(60) DEF Links, Linked
    <3>3. EndLap(n)' = EndLap(n) /\ EndPos(n)' = EndPos(n)
      BY <2>2, <1>0 DEF EndLap, EndPos
    <3>4. CASE n + 1 <= Len(sent)
      <4>1. StartLap(n + 1)' = StartLap(n + 1) /\ StartPos(n + 1)' = StartPos(n + 1)
        BY <3>4, <1>0 DEF StartLap, StartPos
      <4> QED
        BY <3>2, <3>3, <4>1 DEF Linked
    <3>5. CASE ~(n + 1 <= Len(sent))
      <4>1. /\ StartLap(n + 1) = wlap /\ StartPos(n + 1) = m_write_pos
            /\ StartLap(n + 1)' = wlap + 1 /\ StartPos(n + 1)' = 0
        BY <3>5, <1>0 DEF StartLap, StartPos
      <4> QED
        BY <3>2, <3>3, <4>1, <2>3, <1>0 DEF Linked
    <3> QED
      BY <3>4, <3>5
  <2>8. InProgress'
    BY <2>1, <2>3, <1>0, Numbers DEF InProgress
  <2> QED
    BY <2>4, <2>5, <2>6, <2>7, <2>8 DEF Layout, Packets, Links
<1> QED
  BY <1>0, <1>4, <1>5, <1>6, <1>7, <1>8 DEF IInv

\* WaitOnSize has left room: a packet is written over no pending packet and not
\* over the null packet.
LEMMA EEWriteInv ==
  ASSUME IInv, EEWrite
  PROVE  IInv'
<1> DEFINE L == Len(sent)
           new == [tag |-> eeOp.tag, size |-> eeOp.size, pos |-> m_write_pos, lap |-> wlap]
           Span == m_write_pos .. m_write_pos + eeOp.size - 1
<1> USE DEF sync, vu
<1>t. TypeOK /\ WordsPlaced /\ WriterInv /\ ReaderInv /\ (~lapped => Layout)
  BY DEF IInv
<1>0. /\ eePc = "write" /\ eePc' = "commit"
      /\ m_write_pos' = m_write_pos + eeOp.size
      /\ sent' = Append(sent, new)
      /\ buffer' = [a \in Addr |-> IF a \in Span THEN Word(L + 1, a - m_write_pos)
                                                 ELSE buffer[a]]
      /\ UNCHANGED <<m_ato_write_pos, m_read_pos, m_ato_read_pos, sync, vu, gsPc,
                     committed, executed, wlap, rlap, nullPos, lapped, eeOp, eeRet>>
  BY DEF EEWrite, EEGoto
<1>1. /\ m_write_pos + eeOp.size <= buffer_size - 1
      /\ L < MaxPackets
      /\ m_ato_write_pos = m_write_pos /\ committed = L
  BY <1>t, <1>0 DEF WriterInv, eeAt
<1>2. new \in SentPacket
  BY Numbers DEF SentPacket
<1>3. L \in Nat /\ sent \in Seq(SentPacket) /\ MaxPackets \in Nat
  BY <1>t, Numbers DEF TypeOK
<1>4. /\ sent' \in Seq(SentPacket)
      /\ Len(sent') = L + 1
      /\ sent'[L + 1] = new
      /\ \A n \in 1 .. L : sent'[n] = sent[n]
  BY <1>0, <1>2, <1>3
<1>5. /\ sent'[L + 1].pos = m_write_pos /\ sent'[L + 1].size = eeOp.size
      /\ sent'[L + 1].lap = wlap
  BY <1>4
<1>6. /\ \A a \in Span : a \in Addr /\ a - m_write_pos \in Nat
      /\ \A a \in Span : buffer'[a] = Word(L + 1, a - m_write_pos)
      /\ \A a \in Addr : a \notin Span => buffer'[a] = buffer[a]
  <2>1. ASSUME NEW a \in Span PROVE a \in Addr /\ a - m_write_pos \in Nat
    <3>1. a \in Int /\ m_write_pos <= a /\ a <= m_write_pos + eeOp.size - 1
      BY Positions
    <3>2. a <= buffer_size - 1 /\ 0 <= a
      <4> HIDE DEF Span
      <4> QED BY <3>1, <1>1, Positions, SMTT(60)
    <3>3. a - m_write_pos \in Nat
      <4> HIDE DEF Span
      <4> QED BY <3>1, Positions
    <3> QED
      BY <3>1, <3>2, <3>3, Positions DEF Addr
  <2> HIDE DEF Span
  <2>2. \A a \in Span : buffer'[a] = Word(L + 1, a - m_write_pos)
    BY <1>0, <2>1
  <2>3. \A a \in Addr : a \notin Span => buffer'[a] = buffer[a]
    BY <1>0
  <2> QED
    BY <2>1, <2>2, <2>3
<1>7. TypeOK'
  <2>1. buffer' \in [Addr -> [seq : Nat, off : Nat]]
    <3>1. buffer \in [Addr -> [seq : Nat, off : Nat]]
      BY <1>t DEF TypeOK
    <3>2. \A a \in Span : Word(L + 1, a - m_write_pos) \in [seq : Nat, off : Nat]
      BY <1>3, <1>6 DEF Word
    <3> QED
      BY <1>0, <3>1, <3>2
  <2>2. m_write_pos' \in Addr
    BY <1>0, <1>1, Positions DEF Addr
  <2>3. committed' \in 0 .. Len(sent')
    BY <1>0, <1>1, <1>3, <1>4
  <2>4. eePc' \in EEPcs
    BY <1>0 DEF EEPcs
  <2> QED
    BY <1>t, <1>0, <1>4, <2>1, <2>2, <2>3, <2>4 DEF TypeOK
<1>8. WordsPlaced'
  <2>1. ASSUME NEW a \in Addr, buffer'[a].seq # 0
        PROVE  /\ buffer'[a].seq \in 1 .. Len(sent')
               /\ a = sent'[buffer'[a].seq].pos + buffer'[a].off
    <3>1. CASE a \in Span
      <4>1. buffer'[a].seq = L + 1 /\ buffer'[a].off = a - m_write_pos
        <5>1. buffer'[a] = Word(L + 1, a - m_write_pos)
          BY <1>6, <3>1
        <5> QED
          BY <5>1 DEF Word
      <4>2. a \in Nat
        BY <2>1, Positions DEF Addr
      <4> QED
        BY <4>1, <4>2, <1>3, <1>4, <1>5, Positions
    <3>2. CASE a \notin Span
      <4>1. buffer'[a] = buffer[a]
        BY <1>6, <3>2
      <4>2. buffer[a].seq \in 1 .. L /\ a = sent[buffer[a].seq].pos + buffer[a].off
        BY <4>1, <2>1, <1>t DEF WordsPlaced
      <4> QED
        BY <4>1, <4>2, <1>3, <1>4
    <3> QED
      BY <3>1, <3>2
  <2>2. ASSUME NEW n \in 1 .. Len(sent')
        PROVE  sent'[n].pos + sent'[n].size <= buffer_size - 1
    <3>1. n = L + 1 \/ n \in 1 .. L
      BY <1>3, <1>4
    <3> QED
      BY <3>1, <1>1, <1>4, <1>5, <1>t DEF WordsPlaced
  <2> QED
    BY <2>1, <2>2 DEF WordsPlaced
<1>9. WriterInv'
  BY <1>0, <1>1, <1>3, <1>4, <1>5 DEF WriterInv, eeAt
<1>10. ReaderInv'
  <2>1. vuPc = "body" => vuTag \in 1 .. L + 1 /\ m_read_pos = sent'[vuTag].pos + 1
    BY <1>t, <1>3, <1>4 DEF ReaderInv
  <2> QED
    BY <2>1, <1>t, <1>0, <1>4 DEF ReaderInv
<1>11. ASSUME ~lapped PROVE Layout'
  <2>1. Laps /\ Packets /\ Ordered /\ Links /\ InProgress
    BY <1>t, <1>11 DEF Layout, Packets, Links
  <2>2. Released' = Released
    BY <1>0 DEF Released
  <2>3. Released \in Nat /\ Released <= L
    BY <1>11, <1>1, PendingSent
  <2>4. Pending = Released + 1 .. L /\ Pending' = Released + 1 .. L + 1
    BY <2>2, <1>4 DEF Pending
  <2>5. \A n \in Pending : sent'[n] = sent[n]
    BY <1>4, <1>11, PendingSent
  <2>6. \/ wlap = rlap
        \/ m_ato_read_pos > m_write_pos + eeOp.size + _4kb
    BY <2>1, <1>0 DEF Laps
  <2>7. Laps'
    <3>1. nullPos \in Addr
      BY <1>t DEF TypeOK
    <3>2. CASE wlap = rlap
      BY <3>2, <2>1, <1>0, <1>1, Positions, SMTT(60) DEF Laps
    <3>3. CASE wlap # rlap
      <4>1. /\ wlap = rlap + 1 /\ m_ato_read_pos <= nullPos
            /\ buffer[nullPos] = MTVU_NULL_PACKET
        BY <3>3, <2>1 DEF Laps
      <4>2. m_ato_read_pos > m_write_pos + eeOp.size
        BY <3>3, <2>6, Positions
      <4>3. buffer'[nullPos] = buffer[nullPos]
        <5>1. nullPos \notin Span
          BY <4>1, <4>2, Positions
        <5> QED
          BY <3>1, <5>1, <1>6
      <4> QED
        BY <4>1, <4>2, <4>3, <1>0, <1>1, Positions, SMTT(60) DEF Laps, MTVU_NULL_PACKET, Word
    <3> QED
      BY <3>2, <3>3
  <2>8. Packets'
    <3>1. SUFFICES ASSUME NEW n \in Pending' PROVE Placed(n)'
      BY DEF Packets
    <3>2. CASE n = L + 1
      <4>1. PacketIntact(n)'
        <5>1. SUFFICES ASSUME NEW k \in 0 .. eeOp.size - 1
                       PROVE  buffer'[m_write_pos + k] = Word(n, k)
          BY <3>2, <1>5 DEF PacketIntact, Word
        <5>2. m_write_pos + k \in Span /\ (m_write_pos + k) - m_write_pos = k
          BY Positions
        <5> QED
          BY <5>2, <3>2, <1>6
      <4>2. ~(n <= committed)
        BY <3>2, <1>1, <1>3
      <4>3. wlap = rlap => m_ato_read_pos <= m_write_pos
        BY <2>1, <1>1, Positions DEF Laps
      <4> QED
        BY <3>2, <4>1, <4>2, <4>3, <1>0, <1>5, Positions DEF Placed
    <3>3. CASE n # L + 1
      <4>1. n \in Pending
        BY <3>3, <2>4, <2>3, <1>3
      <4>2. Placed(n) /\ sent'[n] = sent[n]
        BY <4>1, <2>1, <2>5 DEF Packets
      <4>3. sent[n].pos \in Nat /\ sent[n].size \in Nat
        BY <4>1, <1>11, PendingSent
      <4>4. sent[n].lap = wlap => sent[n].pos + sent[n].size <= m_write_pos + eeOp.size
        BY <4>2, <4>3, Positions DEF Placed
      <4>5. \/ sent[n].pos + sent[n].size <= m_write_pos
            \/ m_write_pos + eeOp.size <= sent[n].pos
        BY <4>2, <4>3, <2>6, Positions DEF Placed
      <4>6. \/ sent[n].pos + sent[n].size <= m_write_pos
            \/ sent[n].pos + sent[n].size <= buffer_size - 1
        <5>1. n \in 1 .. L
          BY <4>1, <1>11, PendingSent
        <5> QED
          BY <5>1, <1>t DEF WordsPlaced
      <4>7. PacketIntact(n)'
        <5>1. SUFFICES ASSUME NEW k \in 0 .. sent[n].size - 1
                       PROVE  buffer'[sent[n].pos + k] = Word(n, k)
          BY <4>2 DEF PacketIntact, Word
        <5>2. sent[n].pos + k \in Addr /\ sent[n].pos + k \notin Span
          BY <4>3, <4>5, <4>6, Positions DEF Addr
        <5>3. buffer[sent[n].pos + k] = Word(n, k)
          BY <4>2 DEF Placed, PacketIntact
        <5> QED
          BY <5>2, <5>3, <1>6
      <4> QED
        BY <4>2, <4>4, <4>7, <1>0 DEF Placed
    <3> QED
      BY <3>2, <3>3
  <2>9. Ordered'
    <3>1. SUFFICES ASSUME NEW n \in Pending', NEW m \in Pending', n < m
                   PROVE  /\ sent'[n].lap <= sent'[m].lap
                          /\ sent'[n].lap = sent'[m].lap =>
                               sent'[n].pos + sent'[n].size <= sent'[m].pos
      BY DEF Ordered
    <3>2. n \in Pending
      BY <3>1, <2>3, <2>4, <1>3
    <3>3. CASE m = L + 1
      <4>1. Placed(n) /\ sent'[n] = sent[n]
        BY <3>2, <2>1, <2>5 DEF Packets
      <4>2. rlap <= wlap
        BY <2>1, Positions DEF Laps
      <4> QED
        BY <3>3, <4>1, <4>2, <1>5, Positions DEF Placed
    <3>4. CASE m # L + 1
      <4>1. m \in Pending
        BY <3>4, <2>3, <2>4, <1>3
      <4> QED
        BY <3>1, <3>2, <4>1, <2>1, <2>5 DEF Ordered
    <3> QED
      BY <3>3, <3>4
  <2>10. Links'
    <3>1. SUFFICES ASSUME NEW n \in Released .. L + 1 PROVE Linked(n)'
      BY <2>2, <1>4 DEF Links
    <3>2. CASE n = L + 1
      <4>1. /\ StartLap(n + 1)' = wlap /\ StartPos(n + 1)' = m_write_pos + eeOp.size
        BY <3>2, <1>0, <1>3, <1>4 DEF StartLap, StartPos
      <4>2. EndLap(n)' = wlap /\ EndPos(n)' = m_write_pos + eeOp.size
        BY <3>2, <2>2, <2>3, <1>3, <1>5 DEF EndLap, EndPos
      <4> QED
        BY <4>1, <4>2 DEF Linked
    <3>3. CASE n # L + 1
      <4>1. n \in Released .. L
        BY <3>3, <2>3, <1>3
      <4>2. EndLap(n)' = EndLap(n) /\ EndPos(n)' = EndPos(n)
        <5>1. n > Released => n \in Pending
          BY <4>1, <2>3, <2>4, <1>3
        <5> QED
          BY <5>1, <2>2, <2>5, <1>0 DEF EndLap, EndPos
      <4>3. StartLap(n + 1)' = StartLap(n + 1) /\ StartPos(n + 1)' = StartPos(n + 1)
        <5>1. n + 1 <= L => n + 1 \in 1 .. L
          BY <4>1, <2>3, <1>3
        <5>2. n + 1 <= L \/ n + 1 = L + 1
          BY <4>1, <2>3, <1>3
        <5> QED
          BY <5>1, <5>2, <1>3, <1>4, <1>5 DEF StartLap, StartPos
      <4>4. Linked(n)
        BY <4>1, <2>1 DEF Links
      <4> QED
        BY <4>2, <4>3, <4>4, <1>0 DEF Linked
    <3> QED
      BY <3>2, <3>3
  <2>11. InProgress'
    <3>1. vuPc = "body" => sent'[vuTag] = sent[vuTag]
      BY <1>t, <1>4 DEF ReaderInv
    <3>2. (vuPc = "commit" /\ vuTag # 0) => sent'[vuTag] = sent[vuTag]
      <4>1. (vuPc = "commit" /\ vuTag # 0) => vuTag \in 1 .. L
        BY <2>1, <1>1, Numbers DEF InProgress
      <4> QED
        BY <4>1, <1>4
    <3> QED
      BY <3>1, <3>2, <2>1, <1>0 DEF InProgress
  <2> QED
    BY <2>7, <2>8, <2>9, <2>10, <2>11 DEF Layout, Packets, Links
<1> QED
  BY <1>0, <1>7, <1>8, <1>9, <1>10, <1>11 DEF IInv

\* When the published positions meet, nothing published is pending.
LEMMA DoneEmpty ==
  ASSUME IInv, ~lapped, IsDone
  PROVE  Released = committed /\ Len(executed) = committed /\ wlap = rlap
<1>t. Laps /\ Packets /\ InProgress
  BY DEF IInv, Layout, Packets
<1>0. m_ato_read_pos = m_ato_write_pos
  BY DEF IsDone
<1>1. wlap = rlap
  BY <1>t, <1>0, Positions DEF Laps
<1>2. /\ Released \in Nat /\ committed \in Nat /\ Len(sent) \in Nat /\ committed <= Len(sent)
      /\ Len(executed) \in Nat /\ Released <= Len(executed) /\ Len(executed) <= committed
  BY <1>t, Numbers, PendingSent DEF InProgress
<1>3. ~(Released < committed)
  <2>1. SUFFICES ASSUME Released < committed PROVE FALSE
    OBVIOUS
  <2>2. Released + 1 \in Pending /\ Released + 1 <= committed
    BY <1>2, <2>1 DEF Pending
  <2>3. /\ sent[Released + 1].pos \in Nat /\ sent[Released + 1].size \in Nat
        /\ sent[Released + 1].size > 0
    BY <2>2, PendingSent
  <2>4. /\ sent[Released + 1].pos + sent[Released + 1].size <= m_ato_write_pos
        /\ m_ato_read_pos <= sent[Released + 1].pos
    BY <2>2, <1>1, <1>t DEF Packets, Placed
  <2> QED
    BY <2>3, <2>4, <1>0, Positions
<1> QED
  BY <1>1, <1>2, <1>3

\* Reset forgets positions, but only of an empty ring.
LEMMA EEResetInv ==
  ASSUME IInv, EEReset
  PROVE  IInv'
<1> USE DEF ee, vu
<1>t. TypeOK /\ WordsPlaced /\ WriterInv /\ ReaderInv /\ (~lapped => Layout)
  BY DEF IInv
<1>0. /\ eePc = "idle" /\ IsDone /\ mtxBusy = "none" /\ isBusy' = FALSE
      /\ m_write_pos' = 0 /\ m_ato_write_pos' = 0
      /\ m_read_pos' = 0 /\ m_ato_read_pos' = 0
      /\ rlap' = wlap
      /\ UNCHANGED <<buffer, mtxBusy, semaEvent, semaXGkick, gsQueue, ee, vu, gsPc,
                     sent, committed, executed, wlap, nullPos, lapped>>
  BY DEF EEReset
<1>1. 0 \in Addr
  BY Numbers DEF Addr
<1>2. TypeOK'
  BY <1>t, <1>0, <1>1 DEF TypeOK
<1>3. WordsPlaced'
  BY <1>t, <1>0 DEF WordsPlaced
<1>4. WriterInv'
  BY <1>t, <1>0 DEF WriterInv, eeAt
<1>5. ReaderInv' /\ vuPc \in {"sleep", "lock"}
  BY <1>t, <1>0 DEF ReaderInv
<1>6. ASSUME ~lapped PROVE Layout'
  <2>1. Laps /\ InProgress
    BY <1>t, <1>6 DEF Layout
  <2>2. Released' = Len(sent) /\ Len(sent) \in Nat
    BY <1>6, <1>0, <1>t, DoneEmpty, Numbers DEF Released, WriterInv
  <2>3. Laps'
    BY <1>0 DEF Laps
  <2>4. Pending' = {}
    BY <2>2, <1>0 DEF Pending
  <2>5. Links'
    BY <2>2, <1>0, Positions DEF Links, Linked, StartLap, StartPos, EndLap, EndPos
  <2>6. InProgress'
    BY <2>1, <1>0, <1>5 DEF InProgress
  <2> QED
    BY <2>3, <2>4, <2>5, <2>6 DEF Layout, Links, Ordered
<1> QED
  BY <1>0, <1>2, <1>3, <1>4, <1>5, <1>6 DEF IInv

\* Around its loop VU1 takes and leaves mtxBusy and reads the positions.
LEMMA VUQuietInv ==
  ASSUME IInv, VUWait \/ VULock \/ VUSetBusy \/ VUCheck \/ VUClearBusy \/ VUUnlock
  PROVE  IInv'
<1> USE DEF ring, sync, ee, hist, VUGoto
<1>t. TypeOK /\ WordsPlaced /\ WriterInv /\ ReaderInv /\ (~lapped => Layout)
  BY DEF IInv
<1>0. /\ vuPc \in {"sleep", "lock", "setBusy", "check", "clearBusy", "unlock"}
      /\ vuPc' \in {"sleep", "lock", "setBusy", "check", "tag", "clearBusy", "unlock"}
      /\ vuPc' = "tag" => m_ato_read_pos # m_ato_write_pos
      /\ mtxBusy' \in {"none", "vu"} /\ isBusy' \in BOOLEAN
      /\ mtxBusy' = "none" <=> vuPc' \in {"sleep", "lock"}
      /\ UNCHANGED <<ring, ee, hist, gsPc, semaXGkick, gsQueue, vuTag>>
  BY <1>t DEF VUWait, VULock, VUSetBusy, VUCheck, VUClearBusy, VUUnlock, ReaderInv, TypeOK
<1>1. semaEvent' \in Nat
  <2>1. semaEvent \in Nat
    BY <1>t DEF TypeOK
  <2> QED
    BY <2>1 DEF VUWait, VULock, VUSetBusy, VUCheck, VUClearBusy, VUUnlock
<1>2. TypeOK'
  BY <1>t, <1>0, <1>1 DEF TypeOK, VUPcs
<1>3. WordsPlaced'
  BY <1>t, <1>0 DEF WordsPlaced
<1>4. WriterInv'
  BY <1>t, <1>0 DEF WriterInv, eeAt
<1>5. ReaderInv'
  BY <1>t, <1>0 DEF ReaderInv
<1>6. ASSUME ~lapped PROVE Layout'
  <2>1. Laps /\ Packets /\ Ordered /\ Links /\ InProgress
    BY <1>t, <1>6 DEF Layout, Packets, Links
  <2>2. Released' = Released /\ Pending' = Pending
    BY <1>0 DEF Released, Pending
  <2>3. Laps'
    BY <2>1, <1>0 DEF Laps
  <2>4. Packets' /\ Ordered'
    BY <2>1, <2>2, <1>0 DEF Packets, Placed, PacketIntact, Ordered
  <2>5. Links'
    BY <2>1, <2>2, <1>0 DEF Links, Linked, StartPos, StartLap, EndPos, EndLap
  <2>6. InProgress'
    BY <2>1, <1>0 DEF InProgress
  <2> QED
    BY <2>3, <2>4, <2>5, <2>6 DEF Layout, Packets, Links
<1> QED
  BY <1>0, <1>2, <1>3, <1>4, <1>5, <1>6 DEF IInv

\* The word at m_ato_read_pos, when it is not m_ato_write_pos, is the tag of the
\* first pending packet or the null packet.
LEMMA NextTag ==
  ASSUME IInv, ~lapped, m_ato_read_pos # m_ato_write_pos
  PROVE  \/ /\ buffer[m_ato_read_pos] = Word(Released + 1, 0)
            /\ Released + 1 <= committed
            /\ sent[Released + 1].pos = m_ato_read_pos /\ sent[Released + 1].lap = rlap
         \/ /\ buffer[m_ato_read_pos] = MTVU_NULL_PACKET
            /\ wlap = rlap + 1 /\ m_ato_read_pos = nullPos
<1>t. Laps /\ Packets /\ Links /\ InProgress /\ WriterInv
  BY DEF IInv, Layout, Packets, Links
<1>n. /\ Released \in Nat /\ Len(sent) \in Nat /\ committed \in Nat
      /\ Released <= committed /\ committed <= Len(sent)
  BY Numbers, PendingSent
<1>1. Linked(Released)
  BY <1>t, <1>n DEF Links
<1>2. EndLap(Released) = rlap /\ EndPos(Released) = m_ato_read_pos
  BY <1>n DEF EndLap, EndPos
<1>3. CASE StartLap(Released + 1) = rlap /\ StartPos(Released + 1) = m_ato_read_pos
  <2>1. Released + 1 <= committed
    <3>1. SUFFICES ASSUME Released = committed PROVE FALSE
      BY <1>n
    <3>2. CASE eePc = "commit"
      <4>1. /\ committed + 1 = Len(sent)
            /\ sent[Len(sent)].pos = m_ato_write_pos
        BY <1>t, <3>2 DEF WriterInv
      <4>2. StartPos(Released + 1) = m_ato_write_pos
        BY <3>1, <4>1, <1>n DEF StartPos
      <4> QED
        BY <4>2, <1>3
    <3>3. CASE eePc # "commit"
      <4>1. committed = Len(sent) /\ m_ato_write_pos = m_write_pos
        BY <1>t, <3>3 DEF WriterInv
      <4>2. StartPos(Released + 1) = m_write_pos
        BY <3>1, <4>1, <1>n DEF StartPos
      <4> QED
        BY <4>1, <4>2, <1>3
    <3> QED
      BY <3>2, <3>3
  <2>2. Released + 1 <= Len(sent) /\ Released + 1 \in Pending
    BY <2>1, <1>n DEF Pending
  <2>3. sent[Released + 1].pos = m_ato_read_pos /\ sent[Released + 1].lap = rlap
    BY <1>3, <2>2 DEF StartPos, StartLap
  <2>4. PacketIntact(Released + 1)
    BY <1>t, <2>2 DEF Packets, Placed
  <2>5. sent[Released + 1].size \in Nat /\ sent[Released + 1].size > 0
    BY <2>2, PendingSent
  <2>6. buffer[sent[Released + 1].pos + 0] = Word(Released + 1, 0)
    BY <2>4, <2>5 DEF PacketIntact
  <2>7. m_ato_read_pos + 0 = m_ato_read_pos
    BY Positions
  <2> QED
    BY <2>1, <2>3, <2>6, <2>7
<1>4. CASE wlap = rlap + 1 /\ m_ato_read_pos = nullPos
  BY <1>4, <1>t, Positions DEF Laps
<1> QED
  BY <1>1, <1>2, <1>3, <1>4 DEF Linked

\* Read() of the tag.
LEMMA VUReadTagInv ==
  ASSUME IInv, VUReadTag
  PROVE  IInv'
<1> USE DEF sync, ee, hist, VUGoto
<1>t. TypeOK /\ WordsPlaced /\ WriterInv /\ ReaderInv /\ (~lapped => Layout)
  BY DEF IInv
<1>0. /\ vuPc = "tag"
      /\ UNCHANGED <<buffer, m_write_pos, m_ato_write_pos, m_ato_read_pos, sync, ee, gsPc, hist>>
  BY DEF VUReadTag
<1>r. m_read_pos = m_ato_read_pos /\ m_read_pos \in Addr
  BY <1>0, <1>t DEF ReaderInv, TypeOK
<1>1. \/ /\ buffer[m_ato_read_pos] = MTVU_NULL_PACKET
         /\ m_read_pos' = 0 /\ vuTag' = 0 /\ vuPc' = "commit"
      \/ /\ buffer[m_ato_read_pos].seq # 0 /\ buffer[m_ato_read_pos].off = 0
         /\ m_read_pos' = m_read_pos + 1
         /\ vuTag' = buffer[m_ato_read_pos].seq /\ vuPc' = "body"
      \/ /\ buffer[m_ato_read_pos].off # 0
         /\ vuPc' = "wild" /\ UNCHANGED <<vuTag, m_read_pos>>
  BY <1>r DEF VUReadTag
<1>2. vuPc' = "body" => /\ vuTag' \in 1 .. Len(sent)
                        /\ m_read_pos' = sent[vuTag'].pos + 1
                        /\ m_read_pos' \in Addr
  <2>1. SUFFICES ASSUME vuPc' = "body"
                 PROVE  /\ vuTag' \in 1 .. Len(sent)
                        /\ m_read_pos' = sent[vuTag'].pos + 1
                        /\ m_read_pos' \in Addr
    OBVIOUS
  <2>2. /\ vuTag' = buffer[m_read_pos].seq /\ vuTag' # 0 /\ buffer[m_read_pos].off = 0
        /\ m_read_pos' = m_read_pos + 1
    BY <2>1, <1>1, <1>r
  <2>3. vuTag' \in 1 .. Len(sent) /\ m_read_pos = sent[vuTag'].pos + 0
    BY <2>2, <1>r, <1>t DEF WordsPlaced
  <2>4. /\ sent[vuTag'].pos \in Nat /\ sent[vuTag'].size \in Nat /\ sent[vuTag'].size > 0
        /\ sent[vuTag'].pos + sent[vuTag'].size <= buffer_size - 1
    BY <2>3, <1>t, Numbers DEF WordsPlaced
  <2>5. m_read_pos = sent[vuTag'].pos
    BY <2>3, <2>4
  <2>6. m_read_pos' = sent[vuTag'].pos + 1
    BY <2>2, <2>5
  <2>7. m_read_pos' \in Addr
    BY <2>4, <2>6, Positions DEF Addr
  <2> QED
    BY <2>3, <2>6, <2>7
<1>3. TypeOK'
  <2>1. m_read_pos' \in Addr
    BY <1>1, <1>2, <1>r, Numbers, SMTT(60) DEF Addr
  <2>2. vuTag' \in Nat /\ vuPc' \in VUPcs
    BY <1>1, <1>2, Numbers, SMTT(60) DEF VUPcs
  <2> QED
    BY <1>t, <1>0, <2>1, <2>2 DEF TypeOK
<1>4. WordsPlaced'
  BY <1>t, <1>0 DEF WordsPlaced
<1>5. WriterInv'
  BY <1>t, <1>0 DEF WriterInv, eeAt
<1>6. ReaderInv'
  BY <1>t, <1>0, <1>1, <1>2, <1>r DEF ReaderInv
<1>7. ASSUME ~lapped PROVE Layout'
  <2>1. Laps /\ Packets /\ Ordered /\ Links /\ InProgress
    BY <1>t, <1>7 DEF Layout, Packets, Links
  <2>2. Released = Len(executed)
    BY <1>0 DEF Released
  <2>3. m_ato_read_pos # m_ato_write_pos
    BY <2>1, <1>0 DEF InProgress
  <2>4. InProgress' /\ (vuPc' = "commit" => vuTag' = 0)
    <3>1. CASE /\ buffer[m_ato_read_pos] = Word(Released + 1, 0)
               /\ Released + 1 <= committed
               /\ sent[Released + 1].pos = m_ato_read_pos /\ sent[Released + 1].lap = rlap
      <4>1. buffer[m_ato_read_pos].seq = Released + 1 /\ buffer[m_ato_read_pos].off = 0
        BY <3>1 DEF Word
      <4>2. Released + 1 # 0
        BY <1>7, PendingSent
      <4>3. vuPc' = "body" /\ vuTag' = Released + 1
        BY <4>1, <4>2, <1>1 DEF MTVU_NULL_PACKET, Word
      <4> QED
        BY <4>3, <3>1, <2>1, <2>2, <1>0 DEF InProgress
    <3>2. CASE /\ buffer[m_ato_read_pos] = MTVU_NULL_PACKET
               /\ wlap = rlap + 1 /\ m_ato_read_pos = nullPos
      <4>1. vuPc' = "commit" /\ vuTag' = 0 /\ m_read_pos' = 0
        BY <3>2, <1>1 DEF MTVU_NULL_PACKET, Word
      <4> QED
        BY <4>1, <3>2, <2>1, <1>0 DEF InProgress
    <3> QED
      BY <3>1, <3>2, <1>7, <2>3, NextTag
  <2>5. Released' = Released /\ Pending' = Pending
    BY <2>2, <2>4, <1>0 DEF Released, Pending
  <2>6. Laps'
    BY <2>1, <1>0 DEF Laps
  <2>7. Packets' /\ Ordered'
    BY <2>1, <2>5, <1>0 DEF Packets, Placed, PacketIntact, Ordered
  <2>8. Links'
    BY <2>1, <2>5, <1>0 DEF Links, Linked, StartPos, StartLap, EndPos, EndLap
  <2> QED
    BY <2>4, <2>6, <2>7, <2>8 DEF Layout, Packets, Links
<1> QED
  BY <1>0, <1>3, <1>4, <1>5, <1>6, <1>7 DEF IInv

\* The body of a packet is executed as it was sent.
LEMMA VUExecuteInv ==
  ASSUME IInv, VUExecute
  PROVE  IInv'
<1> USE DEF sync, ee
<1>t. TypeOK /\ WordsPlaced /\ WriterInv /\ ReaderInv /\ (~lapped => Layout)
  BY DEF IInv
<1>0. /\ vuPc = "body" /\ vuPc' = "commit" /\ vuTag' = vuTag
      /\ m_read_pos' = m_read_pos + sent[vuTag].size - 1
      /\ UNCHANGED <<buffer, m_write_pos, m_ato_write_pos, m_ato_read_pos, isBusy, mtxBusy,
                     semaEvent, gsQueue, ee, gsPc, sent, committed, wlap, rlap, nullPos, lapped>>
  BY DEF VUExecute, VUGoto
<1>1. vuTag \in 1 .. Len(sent) /\ m_read_pos = sent[vuTag].pos + 1
  BY <1>0, <1>t DEF ReaderInv
<1>2. /\ sent[vuTag].pos \in Nat /\ sent[vuTag].size \in Nat /\ sent[vuTag].size > 0
      /\ sent[vuTag].pos + sent[vuTag].size <= buffer_size - 1
  BY <1>1, <1>t, Numbers DEF WordsPlaced
<1>3. m_read_pos' = sent[vuTag].pos + sent[vuTag].size /\ m_read_pos' \in Addr
  <2>1. m_read_pos' = (sent[vuTag].pos + 1) + sent[vuTag].size - 1
    BY <1>0, <1>1
  <2>2. m_read_pos' = sent[vuTag].pos + sent[vuTag].size
    BY <2>1, <1>2
  <2> QED
    BY <2>2, <1>2, Positions DEF Addr
<1>4. \E x \in {vuTag, 0} : executed' = Append(executed, x)
  BY DEF VUExecute
<1>5. executed \in Seq(Nat) /\ vuTag \in Nat /\ semaXGkick \in Nat
  BY <1>t DEF TypeOK
<1>6. TypeOK'
  <2>1. executed' \in Seq(Nat)
    BY <1>4, <1>5
  <2>2. semaXGkick' \in Nat
    BY <1>5 DEF VUExecute
  <2> QED
    BY <1>t, <1>0, <1>3, <2>1, <2>2 DEF TypeOK, VUPcs
<1>7. WordsPlaced'
  BY <1>t, <1>0 DEF WordsPlaced
<1>8. WriterInv'
  BY <1>t, <1>0 DEF WriterInv, eeAt
<1>9. ReaderInv'
  BY <1>t, <1>0 DEF ReaderInv
<1>10. ASSUME ~lapped PROVE Layout'
  <2>1. Laps /\ Packets /\ Ordered /\ Links /\ InProgress
    BY <1>t, <1>10 DEF Layout, Packets, Links
  <2>2. /\ vuTag = Len(executed) + 1 /\ vuTag <= committed
        /\ sent[vuTag].pos = m_ato_read_pos /\ sent[vuTag].lap = rlap
    BY <2>1, <1>0 DEF InProgress
  <2>3. Released = Len(executed) /\ vuTag \in Pending
    BY <1>0, <1>1, <2>2, Numbers DEF Released, Pending
  <2>4. BodyIntact(vuTag, m_read_pos)
    <3>1. SUFFICES ASSUME NEW k \in 1 .. sent[vuTag].size - 1
                   PROVE  buffer[m_read_pos + k - 1] = Word(vuTag, k)
      BY DEF BodyIntact
    <3>2. m_read_pos + k - 1 = sent[vuTag].pos + k /\ k \in 0 .. sent[vuTag].size - 1
      BY <1>1, <1>2
    <3>3. PacketIntact(vuTag)
      BY <2>1, <2>3 DEF Packets, Placed
    <3> QED
      BY <3>2, <3>3 DEF PacketIntact
  <2>5. executed' = Append(executed, vuTag)
    BY <2>4 DEF VUExecute
  <2>6. /\ Len(executed') = Len(executed) + 1
        /\ \A i \in 1 .. Len(executed) : executed'[i] = executed[i]
        /\ executed'[Len(executed) + 1] = vuTag
    BY <2>5, <1>5
  <2>7. Released' = Released /\ Pending' = Pending
    <3>1. Len(executed) \in Nat /\ vuTag # 0
      BY <2>2, <1>1, Numbers
    <3>2. Released' = Len(executed') - 1
      BY <3>1, <1>0 DEF Released
    <3>3. Released' = Released
      BY <3>1, <3>2, <2>3, <2>6
    <3> QED
      BY <3>3, <1>0 DEF Pending
  <2>8. Laps'
    BY <2>1, <1>0 DEF Laps
  <2>9. Packets' /\ Ordered'
    BY <2>1, <2>7, <1>0 DEF Packets, Placed, PacketIntact, Ordered
  <2>10. Links'
    BY <2>1, <2>7, <1>0 DEF Links, Linked, StartPos, StartLap, EndPos, EndLap
  <2>11. InProgress'
    <3>1. \A i \in 1 .. Len(executed') : executed'[i] = i
      <4>1. ASSUME NEW i \in 1 .. Len(executed') PROVE executed'[i] = i
        <5>1. i \in 1 .. Len(executed) \/ i = Len(executed) + 1
          BY <4>1, <2>6, Numbers, SMTT(60)
        <5> QED
          BY <5>1, <2>1, <2>2, <2>6 DEF InProgress
      <4> QED
        BY <4>1
    <3>2. Len(executed') = vuTag /\ vuTag # 0
      BY <2>2, <2>6, <1>1
    <3> QED
      BY <3>1, <3>2, <2>2, <1>0, <1>3 DEF InProgress
  <2> QED
    BY <2>8, <2>9, <2>10, <2>11 DEF Layout, Packets, Links
<1> QED
  BY <1>0, <1>6, <1>7, <1>8, <1>9, <1>10 DEF IInv

\* CommitReadPos gives back the words of the packet just executed, and no more.
LEMMA VUReleasePacket ==
  ASSUME IInv, ~lapped, VUCommitReadPos, vuTag # 0
  PROVE  Layout'
<1> USE DEF sync, ee
<1> DEFINE r == vuTag
<1>0. /\ vuPc = "commit" /\ vuPc' = "check" /\ m_ato_read_pos' = m_read_pos /\ rlap' = rlap
      /\ UNCHANGED <<buffer, m_write_pos, m_ato_write_pos, m_read_pos, sync, ee, gsPc, vuTag,
                     sent, committed, executed, wlap, nullPos, lapped>>
  BY DEF VUCommitReadPos, VUGoto
<1>1. Laps /\ Packets /\ Ordered /\ Links /\ InProgress
  BY DEF IInv, Layout, Packets, Links
<1>2. /\ r = Len(executed) /\ sent[r].lap = rlap
      /\ m_read_pos = sent[r].pos + sent[r].size
  BY <1>0, <1>1 DEF InProgress
<1>3. /\ r \in Nat /\ Len(sent) \in Nat /\ committed \in Nat /\ r <= committed
      /\ committed <= Len(sent) /\ r > 0
  BY <1>1, <1>2, Numbers DEF InProgress
<1>4. Released + 1 = r /\ Released' = r /\ Pending = r .. Len(sent) /\ Pending' = r + 1 .. Len(sent)
  BY <1>0, <1>2, <1>3 DEF Released, Pending
<1>5. r \in Pending
  BY <1>3, <1>4
<1>6. sent[r].pos \in Nat /\ sent[r].size \in Nat /\ sent[r].size > 0
  BY <1>5, PendingSent
<1>7. Placed(r)
  BY <1>1, <1>5 DEF Packets
<1>8. m_ato_read_pos <= m_read_pos
  BY <1>2, <1>6, <1>7, Positions, SMTT(60) DEF Placed
<1>9. Laps'
  <2>1. CASE wlap = rlap
    <3>1. m_read_pos <= m_ato_write_pos
      BY <2>1, <1>2, <1>3, <1>7 DEF Placed
    <3> QED
      BY <2>1, <3>1, <1>0, <1>1 DEF Laps
  <2>2. CASE wlap # rlap
    <3>1. m_read_pos <= nullPos
      BY <2>2, <1>2, <1>7 DEF Placed
    <3>2. wlap = rlap + 1 /\ m_write_pos < m_read_pos /\ buffer[nullPos] = MTVU_NULL_PACKET
      BY <2>2, <1>1, <1>8, Positions DEF Laps
    <3>3. eePc = "write" => m_read_pos > m_write_pos + eeOp.size + _4kb
      BY <2>2, <1>1, <1>8, Positions DEF Laps
    <3> QED
      BY <2>2, <3>1, <3>2, <3>3, <1>0, <1>1 DEF Laps, MTVU_NULL_PACKET, Word
  <2> QED
    BY <2>1, <2>2
<1>10. Packets'
  <2>1. SUFFICES ASSUME NEW n \in Pending' PROVE Placed(n)'
    BY DEF Packets
  <2>2. n \in Pending /\ r < n
    BY <1>3, <1>4
  <2>3. sent[n].lap = rlap => m_read_pos <= sent[n].pos
    BY <2>2, <1>1, <1>2, <1>5 DEF Ordered
  <2>4. Placed(n)
    BY <2>2, <1>1 DEF Packets
  <2> QED
    BY <2>3, <2>4, <1>0 DEF Placed, PacketIntact
<1>11. Ordered'
  <2>1. \A n \in Pending' : n \in Pending
    BY <1>3, <1>4
  <2> QED
    BY <2>1, <1>0, <1>1 DEF Ordered
<1>12. Links'
  <2>1. SUFFICES ASSUME NEW n \in r .. Len(sent) PROVE Linked(n)'
    BY <1>0, <1>4 DEF Links
  <2>2. n \in Released .. Len(sent) /\ n > Released
    BY <1>3, <1>4, PendingSent
  <2>3. Linked(n)
    BY <2>2, <1>1 DEF Links
  <2>4. EndLap(n)' = EndLap(n) /\ EndPos(n)' = EndPos(n)
    <3>1. CASE n = r
      BY <3>1, <2>2, <1>0, <1>2, <1>3, <1>4 DEF EndLap, EndPos
    <3>2. CASE n # r
      <4>1. n > r
        BY <3>2, <1>3
      <4> QED
        BY <4>1, <2>2, <1>0, <1>4 DEF EndLap, EndPos
    <3> QED
      BY <3>1, <3>2
  <2>5. StartLap(n + 1)' = StartLap(n + 1) /\ StartPos(n + 1)' = StartPos(n + 1)
    BY <1>0 DEF StartLap, StartPos
  <2> QED
    BY <2>3, <2>4, <2>5, <1>0 DEF Linked
<1>13. InProgress'
  BY <1>0, <1>1 DEF InProgress
<1> QED
  BY <1>9, <1>10, <1>11, <1>12, <1>13 DEF Layout, Packets, Links

\* After the null packet the reader is in the writer's lap.
LEMMA VUReleaseNull ==
  ASSUME IInv, ~lapped, VUCommitReadPos, vuTag = 0
  PROVE  Layout'
<1> USE DEF sync, ee
<1>0. /\ vuPc = "commit" /\ vuPc' = "check" /\ m_ato_read_pos' = m_read_pos /\ rlap' = rlap + 1
      /\ UNCHANGED <<buffer, m_write_pos, m_ato_write_pos, m_read_pos, sync, ee, gsPc, vuTag,
                     sent, committed, executed, wlap, nullPos, lapped>>
  BY DEF VUCommitReadPos, VUGoto
<1>1. Laps /\ Packets /\ Ordered /\ Links /\ InProgress
  BY DEF IInv, Layout, Packets, Links
<1>2. m_read_pos = 0 /\ wlap = rlap + 1 /\ m_ato_read_pos = nullPos
  BY <1>0, <1>1 DEF InProgress
<1>3. Released' = Released /\ Pending' = Pending
  BY <1>0 DEF Released, Pending
<1>4. ASSUME NEW n \in Pending PROVE sent[n].lap = wlap
  <2>1. Placed(n)
    BY <1>1, <1>4 DEF Packets
  <2>2. sent[n].pos \in Nat /\ sent[n].size \in Nat /\ sent[n].size > 0
    BY <1>4, PendingSent
  <2>3. SUFFICES ASSUME sent[n].lap = rlap PROVE FALSE
    BY <2>1 DEF Placed
  <2>4. m_ato_read_pos <= sent[n].pos /\ sent[n].pos + sent[n].size <= nullPos
    BY <2>1, <2>3, <1>2, Positions DEF Placed
  <2> QED
    BY <2>2, <2>4, <1>2, Positions
<1>5. Laps'
  BY <1>0, <1>1, <1>2, Positions DEF Laps
<1>6. Packets'
  <2>1. SUFFICES ASSUME NEW n \in Pending PROVE Placed(n)'
    BY <1>3 DEF Packets
  <2>2. Placed(n) /\ sent[n].lap = wlap /\ sent[n].pos \in Nat
    BY <1>1, <1>4, PendingSent DEF Packets
  <2>3. 0 <= sent[n].pos
    BY <2>2
  <2> QED
    BY <2>2, <2>3, <1>0, <1>2 DEF Placed, PacketIntact
<1>7. Ordered'
  BY <1>0, <1>1, <1>3 DEF Ordered
<1>8. Links'
  <2>n. Released \in Nat /\ Len(sent) \in Nat
    BY PendingSent, Numbers
  <2>1. SUFFICES ASSUME NEW n \in Released .. Len(sent) PROVE Linked(n)'
    BY <1>0, <1>3 DEF Links
  <2>2. Linked(n)
    BY <1>1 DEF Links
  <2>3. StartLap(n + 1)' = StartLap(n + 1) /\ StartPos(n + 1)' = StartPos(n + 1)
    BY <1>0 DEF StartLap, StartPos
  <2>4. StartLap(n + 1) = wlap
    <3>1. n + 1 <= Len(sent) => n + 1 \in Pending
      BY <2>n DEF Pending
    <3> QED
      BY <3>1, <1>4 DEF StartLap
  <2>5. CASE n = Released
    <3>1. EndLap(n) = rlap /\ EndPos(n) = m_ato_read_pos
      BY <2>5, <2>n DEF EndLap, EndPos
    <3>2. EndLap(n)' = rlap + 1 /\ EndPos(n)' = 0
      BY <2>5, <2>n, <1>0, <1>2, <1>3 DEF EndLap, EndPos
    <3>3. StartPos(n + 1) = 0
      BY <2>2, <2>4, <3>1, <1>2, Positions DEF Linked
    <3> QED
      BY <2>3, <2>4, <3>2, <3>3, <1>2 DEF Linked
  <2>6. CASE n # Released
    <3>1. n > Released /\ n \in Pending
      BY <2>6, <2>n DEF Pending
    <3>2. EndLap(n)' = EndLap(n) /\ EndPos(n)' = EndPos(n) /\ EndLap(n) = wlap
      BY <3>1, <1>0, <1>3, <1>4 DEF EndLap, EndPos
    <3>3. StartPos(n + 1) = EndPos(n)
      BY <2>2, <3>2, <1>2, Positions DEF Linked
    <3> QED
      BY <2>3, <2>4, <3>2, <3>3 DEF Linked
  <2> QED
    BY <2>5, <2>6
<1>9. InProgress'
  BY <1>0, <1>1 DEF InProgress
<1> QED
  BY <1>5, <1>6, <1>7, <1>8, <1>9 DEF Layout, Packets, Links

\* CommitReadPos, of a packet or of the null packet.
LEMMA VUCommitInv ==
  ASSUME IInv, VUCommitReadPos
  PROVE  IInv'
<1> USE DEF sync, ee
<1>t. TypeOK /\ WordsPlaced /\ WriterInv /\ ReaderInv
  BY DEF IInv
<1>0. /\ vuPc = "commit" /\ vuPc' = "check" /\ m_ato_read_pos' = m_read_pos
      /\ rlap' \in {rlap, rlap + 1}
      /\ UNCHANGED <<buffer, m_write_pos, m_ato_write_pos, m_read_pos, sync, ee, gsPc, vuTag,
                     sent, committed, executed, wlap, nullPos, lapped>>
  BY DEF VUCommitReadPos, VUGoto
<1>1. TypeOK'
  <2>1. rlap' \in Nat
    BY <1>0, Numbers, SMTT(60)
  <2> QED
    BY <1>t, <1>0, <2>1 DEF TypeOK, VUPcs
<1>2. WordsPlaced'
  BY <1>t, <1>0 DEF WordsPlaced
<1>3. WriterInv'
  BY <1>t, <1>0 DEF WriterInv, eeAt
<1>4. ReaderInv'
  BY <1>t, <1>0 DEF ReaderInv
<1> QED
  BY <1>0, <1>1, <1>2, <1>3, <1>4, VUReleasePacket, VUReleaseNull DEF IInv

\* Every step of the three threads keeps the invariant.
LEMMA NextInv == IInv /\ [Next]_vars => IInv'
<1> SUFFICES ASSUME IInv, [Next]_vars PROVE IInv'
  OBVIOUS
<1>1. CASE UNCHANGED vars
  <2>1. WriterInv' /\ (~lapped => Laps')
    BY <1>1 DEF vars, ring, sync, ee, vu, hist, IInv, Layout, WriterInv, eeAt, Laps
  <2> QED
    BY <1>1, <2>1, QuietStep DEF vars, ring, sync, ee, vu, hist, IInv, TypeOK, ReaderInv
<1>2. CASE EECall
  BY <1>2, EEQuietInv, EEResetInv DEF EECall
<1>3. CASE EEStep
  BY <1>3, EEQuietInv, EEWrapInv, EEWriteInv, EECommitInv DEF EEStep
<1>4. CASE VUStep
  BY <1>4, VUQuietInv, VUReadTagInv, VUExecuteInv, VUCommitInv DEF VUStep
<1>5. CASE GSStep
  BY <1>5, GSInv
<1> QED
  BY <1>1, <1>2, <1>3, <1>4, <1>5 DEF Next

\* IInv holds in every state of the ring.
THEOREM Invariance == Spec => []IInv
<1>1. Init => IInv
  BY InitInv
<1>2. IInv /\ [Next]_vars => IInv'
  BY NextInv
<1> QED
  BY <1>1, <1>2, PTL DEF Spec

\* Type correctness: in particular no position of EE or VU1 ever leaves the ring,
\* lapped or not, so Write, Read and ReadRegs never index past buffer.
THEOREM TypeCorrect == Spec => []TypeOK
<1>1. IInv => TypeOK
  BY DEF IInv
<1> QED
  BY <1>1, Invariance, PTL

\* No packet that VU1 has yet to execute is written over.
THEOREM RingStaysIntact == Spec => []RingIntact
<1>1. IInv => RingIntact
  <2>1. SUFFICES ASSUME IInv, ~lapped, NEW n \in Len(executed) + 1 .. committed
                 PROVE  PacketIntact(n)
    BY DEF RingIntact
  <2>2. n \in Pending
    <3>1. /\ Released \in Nat /\ Released <= Len(executed) /\ Len(executed) \in Nat
          /\ committed \in Nat /\ committed <= Len(sent) /\ Len(sent) \in Nat
      BY <2>1, PendingSent, Numbers
    <3> QED
      BY <2>1, <3>1 DEF Pending
  <2> QED
    BY <2>1, <2>2 DEF IInv, Layout, Placed
<1> QED
  BY <1>1, Invariance, PTL

\* VU1 executes every packet in order and meets no word that is no tag.
THEOREM ExecutesInOrder == Spec => []ExecutedInOrder
<1>1. IInv => ExecutedInOrder
  BY DEF IInv, Layout, InProgress, ExecutedInOrder
<1> QED
  BY <1>1, Invariance, PTL

\* WaitVU, Reset and mtvuFreeze may trust IsDone.
THEOREM DoneIsDone == Spec => []DoneMeansExecuted
<1>1. IInv => DoneMeansExecuted
  BY DoneEmpty DEF DoneMeansExecuted
<1> QED
  BY <1>1, Invariance, PTL

\* The published packets as a sequence: 1, 2, ..., c.
Count(c) == [i \in 1 .. c |-> i]

\* Count(c) is a sequence of length c whose i-th element is i.
LEMMA CountSeq ==
  ASSUME NEW c \in Nat
  PROVE  Count(c) \in Seq(Nat) /\ Len(Count(c)) = c /\ \A i \in 1 .. c : Count(c)[i] = i
  BY DEF Count

\* Publishing one more packet (CommitWritePos) appends its number.
LEMMA CountAppend ==
  ASSUME NEW c \in Nat
  PROVE  Count(c + 1) = Append(Count(c), c + 1)
<1>1. Append(Count(c), c + 1) \in Seq(Nat) /\ Len(Append(Count(c), c + 1)) = c + 1
  BY CountSeq
<1>2. Count(c + 1) \in Seq(Nat) /\ Len(Count(c + 1)) = c + 1
  BY CountSeq
<1>3. \A i \in 1 .. c + 1 : Append(Count(c), c + 1)[i] = i /\ Count(c + 1)[i] = i
  BY CountSeq
<1> QED
  BY <1>1, <1>2, <1>3

\* A step of the ring is a Put, a Get or no step at all of the FIFO.
LEMMA StepImplementsFIFO ==
  ASSUME IInv, IInv', [Next]_vars, ~lapped'
  PROVE  FIFO!Next \/ UNCHANGED <<committed, executed>>
<1>1. CASE EECommitWritePos
  <2>1. eePc = "commit" /\ committed' = Len(sent) /\ executed' = executed
    BY <1>1 DEF EECommitWritePos
  <2>2. committed' = committed + 1 /\ committed' <= MaxPackets /\ committed \in Nat
    BY <2>1, Numbers DEF IInv, WriterInv
  <2>3. committed + 1 \in 1 .. MaxPackets
    BY <2>2, Numbers
  <2>4. Count(committed') = Append(Count(committed), committed + 1)
    BY <2>2, CountAppend
  <2> QED
    BY <2>1, <2>3, <2>4 DEF FIFO!Next, FIFO!Put, Count
<1>2. CASE VUExecute
  <2>1. /\ vuPc = "body" /\ committed' = committed /\ ~lapped
        /\ \E x \in {vuTag, 0} : executed' = Append(executed, x)
    BY <1>2 DEF VUExecute
  <2>2. /\ vuTag = Len(executed) + 1 /\ vuTag <= committed
        /\ committed \in Nat /\ Len(executed) \in Nat /\ executed \in Seq(Nat)
    BY <2>1, Numbers DEF IInv, Layout, InProgress, TypeOK
  <2>3. executed' = Append(executed, vuTag)
    <3>1. PICK x \in {vuTag, 0} : executed' = Append(executed, x)
      BY <2>1
    <3>2. x \in Nat
      BY <2>2
    <3>3. /\ Len(executed') = Len(executed) + 1
          /\ executed'[Len(executed) + 1] = x
      BY <2>2, <3>1, <3>2
    <3>4. executed'[Len(executed) + 1] = Len(executed) + 1
      <4>1. Len(executed) + 1 \in 1 .. Len(executed')
        BY <2>2, <3>3
      <4> QED
        BY <4>1 DEF IInv, Layout, InProgress
    <3> QED
      BY <2>2, <3>1, <3>3, <3>4
  <2>4. /\ Len(Count(committed)) = committed
        /\ Count(committed)[Len(executed) + 1] = Len(executed) + 1
    <3>1. Len(executed) + 1 \in 1 .. committed
      BY <2>2
    <3> QED
      BY <2>2, <3>1, CountSeq
  <2>5. Len(executed) < committed
    BY <2>2
  <2> QED
    BY <2>1, <2>2, <2>3, <2>4, <2>5 DEF FIFO!Next, FIFO!Get, Count
<1>3. CASE ~EECommitWritePos /\ ~VUExecute
  <2>1. CASE EECall \/ EEStep
    BY <2>1, <1>3 DEF EECall, EEStep, EESend, EECallWaitVU, EEReset, EEReserveSpace, EEWaitNull,
       EEWrap, EEWaitOnSize, EEWrite, EETransfer, EEKickBusy, EEKickPos, EEWaitVU, EEWaitLock, hist
  <2>2. CASE VUStep \/ GSStep
    BY <2>2, <1>3 DEF VUStep, GSStep, VUWait, VULock, VUSetBusy, VUCheck, VUReadTag,
       VUCommitReadPos, VUClearBusy, VUUnlock, GSCount, GSKickBusy, GSKickPos, GSPost,
       GSWaitXGkick, hist
  <2>3. CASE UNCHANGED vars
    BY <2>3 DEF vars, hist
  <2> QED
    BY <2>1, <2>2, <2>3 DEF Next
<1> QED
  BY <1>1, <1>2, <1>3

\* Until the writer laps the reader the ring is a FIFO: between EE and VU1 no
\* packet is lost, repeated, reordered or made up.
THEOREM RingImplementsFIFO == Spec => ImplementsFIFO
<1>1. Init => FIFO!Init
  <2>1. SUFFICES ASSUME Init PROVE FIFO!Init
    OBVIOUS
  <2>2. committed = 0 /\ executed = << >>
    BY <2>1 DEF Init
  <2>3. Count(0) = << >>
    <3>1. Count(0) \in Seq(Nat) /\ Len(Count(0)) = 0
      BY CountSeq
    <3> QED
      BY <3>1
  <2> QED
    BY <2>2, <2>3 DEF FIFO!Init, Count
<1>2. IInv /\ IInv' /\ [Next]_vars => [~lapped' => FIFO!Next]_<<committed, executed>>
  BY StepImplementsFIFO
<1> QED
  BY <1>1, <1>2, Invariance, PTL DEF Spec, ImplementsFIFO
=============================================================================
