--------------------------- MODULE GifPath_proofs ---------------------------
(***************************************************************************)
(* Lemmas about path 1's buffer: an invariant that every step of VU1 and of *)
(* the GS thread preserves, for every buffer, safe zone, XGKICK and queue   *)
(* size.  Path1_proofs combines it with the EE and the mailbox.             *)
(*                                                                         *)
(* What VU1 knows of the reader is the number of quadwords not yet read.    *)
(* The invariant says which picture of the buffer that number stands for:   *)
(* the unread packets and the packet being built follow one another, but    *)
(* for at most one that was moved to the front (`LaidOut`).                 *)
(***************************************************************************)
EXTENDS GifPath, SequenceTheorems, TLAPS

Busy == vuPc \notin {"idle", "post"}
Kicking == vuPc \in {"realign", "realignWait", "room", "roomWait", "parse"}
One(b) == IF b THEN 1 ELSE 0

\* What is left to copy of the running XGKICK: at most two pieces.
Left(s) == IF s = << >> THEN 0 ELSE IF Len(s) = 1 THEN s[1] ELSE s[1] + s[2]
CopiesLeft == Left(vuCopies)

\* Packet k of queue q, or after the last the one being built.
At(q, g, k) == IF k <= Len(q) THEN q[k] ELSE g
End(p) == p.offset + p.size

\* From packet f on, the packets of q and then g follow one another, up to packet w,
\* which was moved to the front (w = f: none was, or nothing before it is unread).
\* Packets before f are empty.  The data of g ends at c, and u quadwords are counted
\* from the first unread one to the start of g, gaps included.
LaidOut(q, g, c, u, first, f, w) ==
  /\ f \in first .. Len(q) + 1 /\ w \in f .. Len(q) + 1
  /\ \A k \in first .. f - 1 : At(q, g, k).size = 0 /\ At(q, g, k).readAmount = 0
  /\ \A k \in f .. Len(q) :
       k + 1 # w => At(q, g, k + 1).offset = End(At(q, g, k)) /\ At(q, g, k + 1).readAmount = 0
  /\ \A i, j \in f .. Len(q) + 1 :
       i < j /\ (j < w \/ w <= i) => End(At(q, g, i)) <= At(q, g, j).offset
  /\ w > f => /\ At(q, g, w).offset = 0 /\ At(q, g, w).readAmount = Gap(End(At(q, g, w - 1)))
              /\ At(q, g, f).readAmount = 0 /\ c <= At(q, g, f).offset
  /\ u = IF w = f THEN At(q, g, f).readAmount + g.offset - At(q, g, f).offset
                  ELSE End(At(q, g, w - 1)) - At(q, g, f).offset + At(q, g, w).readAmount + g.offset

\* The first packet whose quadwords were not given back.
FirstUnread == IF gsPc = "pop" THEN 2 ELSE 1

\* The quadwords counted up to the start of the packet being built.
Unread == IF vuPc = "push" THEN readAmount - gsPack.size ELSE readAmount + gsPack.readAmount

Layout ==
  \E f, w \in 1 .. Len(gsPackQueue) + 1 :
     LaidOut(gsPackQueue, gsPack, curSize, Unread, FirstUnread, f, w)

\* A gap is left only by a packet moved to the front, and is small.
Gaps ==
  \A k \in 1 .. Len(gsPackQueue) + 1 :
    LET p == At(gsPackQueue, gsPack, k)
    IN  /\ p.readAmount > 0 => p.offset = 0 /\ p.readAmount + MaxOutput < buffLimit
        /\ End(p) <= buffSize

PathShape ==
  /\ buffer \in [Addr -> [prog : 0 .. MaxPrograms, idx : 0 .. MaxOutput]]
  /\ curSize \in 0 .. buffSize /\ curOffset \in 0 .. curSize
  /\ gsPack \in Packets /\ gsCur \in Packets /\ gsPackQueue \in Seq(Packets)
  /\ Len(gsPackQueue) <= QueueSize
  /\ readAmount \in Nat /\ semaXGkick \in Nat /\ programs \in Nat
  /\ vuPc \in VUSteps /\ vuStart \in 0 .. QueueSize
  /\ vuCopies \in Seq(Nat \ {0})
  /\ gsPc \in {"idle", "get", "release", "pop"}
  /\ output \in 0 .. MaxOutput
  /\ finished \in Seq(0 .. MaxOutput) /\ transferred \in Seq(0 .. MaxOutput)

\* The packet being built.
Building ==
  /\ curOffset = gsPack.offset + gsPack.size
  /\ ~Kicking => curSize = curOffset /\ vuCopies = << >>
  /\ vuPc \in {"run", "push"} => gsPack.size = output
  /\ vuPc \in {"idle", "post"} => gsPack.size = 0 /\ gsPack.readAmount = 0
  /\ Len(vuCopies) <= 2
  /\ Kicking => curSize - gsPack.offset + CopiesLeft = output
  /\ vuPc \in {"room", "roomWait"} => vuCopies # << >> /\ curSize + vuCopies[1] <= buffSize
  /\ vuPc = "parse" => vuCopies = << >>
  /\ vuPc \in {"realign", "realignWait"} => curSize + CopiesLeft > buffLimit

\* Queue, semaphore and histories.
Counted ==
  /\ Len(gsPackQueue) = semaXGkick + One(gsPc # "idle") + One(vuPc = "post")
  /\ Len(gsPackQueue) <= Len(finished)
  /\ Len(transferred) = Len(finished) - Len(gsPackQueue) + One(gsPc \in {"release", "pop"})
  /\ \A k \in 1 .. Len(gsPackQueue) :
       finished[Len(finished) - Len(gsPackQueue) + k] = gsPackQueue[k].size
  /\ gsPc = "release" => gsCur = gsPackQueue[1]
  /\ transferred = SubSeq(finished, 1, Len(transferred))

\* There are programs left for what is running or waiting.
Budget == Len(finished) + programs + One(Busy) <= MaxPrograms

PathInv == PathShape /\ Building /\ Counted /\ Budget /\ Gaps /\ Layout /\ PacketsIntact

-----------------------------------------------------------------------------
(* Layouts *)

\* A packet's fields are numbers.
LEMMA PacketNat ==
  ASSUME NEW p \in Packets
  PROVE  /\ p.offset \in Nat /\ p.size \in Nat /\ p.readAmount \in Nat /\ End(p) \in Nat
         /\ p.size <= MaxOutput
BY GifPathAssumption DEF Packets, End

\* Every place of a layout holds a packet; the last is the one being built.
LEMMA AtType ==
  ASSUME NEW q \in Seq(Packets), NEW g \in Packets, NEW k \in 1 .. Len(q) + 1
  PROVE  At(q, g, k) \in Packets /\ At(q, g, Len(q) + 1) = g /\ (k <= Len(q) => At(q, g, k) = q[k])
BY DEF At

\* The packet being built is parsed further: its place and its gap stay.
LEMMA LayParse ==
  ASSUME NEW q \in Seq(Packets), NEW g, NEW h, NEW c, NEW u,
         NEW first \in {1, 2}, NEW f \in Nat, NEW w \in Nat,
         h.offset = g.offset, h.readAmount = g.readAmount,
         LaidOut(q, g, c, u, first, f, w)
  PROVE  LaidOut(q, h, c, u, first, f, w)
<1>1. \A k \in 1 .. Len(q) + 1 : /\ At(q, h, k).offset = At(q, g, k).offset
                                 /\ At(q, h, k).readAmount = At(q, g, k).readAmount
                                 /\ k <= Len(q) => At(q, h, k) = At(q, g, k)
  BY DEF At
<1>2. f \in first .. Len(q) + 1 /\ w \in f .. Len(q) + 1
  BY DEF LaidOut
<1>3. \A k \in first .. f - 1 : At(q, h, k).size = 0 /\ At(q, h, k).readAmount = 0
  BY <1>1, <1>2 DEF LaidOut
<1>4. \A k \in f .. Len(q) :
        k + 1 # w => At(q, h, k + 1).offset = End(At(q, h, k)) /\ At(q, h, k + 1).readAmount = 0
  BY <1>1, <1>2 DEF LaidOut
<1>5. \A i, j \in f .. Len(q) + 1 :
        i < j /\ (j < w \/ w <= i) => End(At(q, h, i)) <= At(q, h, j).offset
  BY <1>1, <1>2 DEF LaidOut
<1>6. w > f => At(q, h, w - 1) = At(q, g, w - 1)
  BY <1>1, <1>2
<1> QED
  BY <1>1, <1>2, <1>3, <1>4, <1>5, <1>6 DEF LaidOut

\* The packet being built is queued; the next one starts where it ends.
LEMMA LayPush ==
  ASSUME NEW q \in Seq(Packets), NEW g \in Packets, NEW c \in Nat, NEW u \in Int,
         NEW first \in {1, 2}, NEW f \in Nat, NEW w \in Nat,
         LaidOut(q, g, c, u, first, f, w)
  PROVE  LaidOut(Append(q, g), Pack(End(g), 0, 0), c, u + g.size, first, f, w)
<1> DEFINE r == Append(q, g)
           h == Pack(End(g), 0, 0)
<1>1. Len(r) = Len(q) + 1 /\ Len(q) \in Nat
  OBVIOUS
<1>2. At(r, h, Len(q) + 2) = h /\ \A k \in 1 .. Len(q) + 1 : At(r, h, k) = At(q, g, k)
  BY <1>1 DEF At
<1>3. \A k \in 1 .. Len(q) + 1 : At(q, g, k) \in Packets
  BY AtType
<1>4. f \in first .. Len(q) + 1 /\ w \in f .. Len(q) + 1
  BY DEF LaidOut
<1>5. h.offset = End(g) /\ h.readAmount = 0 /\ h.size = 0
  BY DEF Pack
<1>6. At(q, g, Len(q) + 1) = g
  BY AtType
<1> HIDE DEF r, h
<1>7. \A k \in first .. f - 1 : At(r, h, k).size = 0 /\ At(r, h, k).readAmount = 0
  BY <1>2, <1>4 DEF LaidOut
<1>8. \A k \in f .. Len(r) :
        k + 1 # w => At(r, h, k + 1).offset = End(At(r, h, k)) /\ At(r, h, k + 1).readAmount = 0
  <2> TAKE k \in f .. Len(r)
  <2>1. CASE k = Len(q) + 1
    BY <1>1, <1>2, <1>5, <1>6, <2>1
  <2>2. CASE k \in f .. Len(q)
    BY <1>2, <1>4, <2>2, SMTT(60) DEF LaidOut
  <2> QED
    BY <1>1, <1>4, <2>1, <2>2
<1>9. \A i, j \in f .. Len(r) + 1 :
        i < j /\ (j < w \/ w <= i) => End(At(r, h, i)) <= At(r, h, j).offset
  <2> SUFFICES ASSUME NEW i \in f .. Len(r) + 1, NEW j \in f .. Len(r) + 1,
                      i < j, j < w \/ w <= i
               PROVE  End(At(r, h, i)) <= At(r, h, j).offset
    OBVIOUS
  <2>1. CASE j = Len(q) + 2
    <3>1. CASE i = Len(q) + 1
      BY <1>2, <1>3, <1>5, <1>6, <2>1, <3>1, PacketNat, SMTT(60)
    <3>2. CASE i \in f .. Len(q)
      <4>1. End(At(q, g, i)) <= g.offset
        BY <1>1, <1>4, <1>6, <2>1, <3>2, SMTT(60) DEF LaidOut
      <4>2. End(At(q, g, i)) \in Nat /\ g.offset \in Nat /\ g.size \in Nat
        BY <1>3, <1>4, <3>2, PacketNat, SMTT(60)
      <4> QED
        BY <1>1, <1>2, <1>4, <1>5, <2>1, <3>2, <4>1, <4>2, SMTT(60) DEF End
    <3> QED
      BY <1>1, <2>1, <3>1, <3>2
  <2>2. CASE j \in f .. Len(q) + 1
    BY <1>2, <1>4, <2>2 DEF LaidOut
  <2> QED
    BY <1>1, <2>1, <2>2
<1>10. w > f => /\ At(r, h, w).offset = 0 /\ At(r, h, w).readAmount = Gap(End(At(r, h, w - 1)))
                /\ At(r, h, f).readAmount = 0 /\ c <= At(r, h, f).offset
  BY <1>2, <1>4 DEF LaidOut
<1>11. u + g.size = IF w = f THEN At(r, h, f).readAmount + h.offset - At(r, h, f).offset
                   ELSE End(At(r, h, w - 1)) - At(r, h, f).offset + At(r, h, w).readAmount + h.offset
  <2>1. /\ g.offset \in Nat /\ g.size \in Nat /\ h.offset = g.offset + g.size
        /\ At(q, g, f).offset \in Nat /\ At(q, g, f).readAmount \in Nat /\ At(q, g, w).readAmount \in Nat
    BY <1>3, <1>4, <1>5, PacketNat DEF End
  <2>4. At(r, h, f) = At(q, g, f) /\ At(r, h, w) = At(q, g, w)
    BY <1>2, <1>4
  <2>2. CASE w = f
    <3>1. u = At(q, g, f).readAmount + g.offset - At(q, g, f).offset
      BY <2>2 DEF LaidOut
    <3> QED
      BY <2>1, <2>2, <2>4, <3>1
  <2>3. CASE w # f
    <3>1. End(At(q, g, w - 1)) \in Nat /\ At(r, h, w - 1) = At(q, g, w - 1)
      <4>1. w - 1 \in 1 .. Len(q) + 1
        BY <1>4, <2>3
      <4> QED
        BY <1>2, <1>3, <4>1, PacketNat
    <3>2. u = End(At(q, g, w - 1)) - At(q, g, f).offset + At(q, g, w).readAmount + g.offset
      BY <2>3 DEF LaidOut
    <3> QED
      BY <2>1, <2>3, <2>4, <3>1, <3>2, SMTT(60)
  <2> QED
    BY <2>2, <2>3
<1> QED
  BY <1>1, <1>4, <1>7, <1>8, <1>9, <1>10, <1>11 DEF LaidOut, r, h

\* The oldest packet leaves the queue, its quadwords already given back.
LEMMA LayPop ==
  ASSUME NEW q \in Seq(Packets), NEW g \in Packets, NEW c \in Nat, NEW u \in Int,
         NEW f \in Nat, NEW w \in Nat, q # << >>,
         LaidOut(q, g, c, u, 2, f, w)
  PROVE  LaidOut(Tail(q), g, c, u, 1, f - 1, w - 1)
<1> DEFINE t == Tail(q)
<1>1. t \in Seq(Packets) /\ Len(t) = Len(q) - 1 /\ Len(q) \in Nat \ {0}
  OBVIOUS
<1>2. \A k \in 1 .. Len(q) : At(t, g, k) = At(q, g, k + 1)
  BY <1>1 DEF At
<1>3. f \in 2 .. Len(q) + 1 /\ w \in f .. Len(q) + 1
  BY DEF LaidOut
<1> HIDE DEF t
<1>4. \A k \in 1 .. (f - 1) - 1 : At(t, g, k).size = 0 /\ At(t, g, k).readAmount = 0
  <2> TAKE k \in 1 .. (f - 1) - 1
  <2>1. k + 1 \in 2 .. f - 1 /\ At(t, g, k) = At(q, g, k + 1)
    BY <1>2, <1>3
  <2> QED
    BY <2>1 DEF LaidOut
<1>5. \A k \in f - 1 .. Len(t) :
        k + 1 # w - 1 => At(t, g, k + 1).offset = End(At(t, g, k)) /\ At(t, g, k + 1).readAmount = 0
  <2> TAKE k \in f - 1 .. Len(t)
  <2>1. /\ k + 1 \in f .. Len(q) /\ At(t, g, k) = At(q, g, k + 1)
        /\ At(t, g, k + 1) = At(q, g, (k + 1) + 1)
        /\ k + 1 # w - 1 => (k + 1) + 1 # w
    BY <1>1, <1>2, <1>3
  <2> QED
    BY <2>1 DEF LaidOut
<1>6. \A i, j \in f - 1 .. Len(t) + 1 :
        i < j /\ (j < w - 1 \/ w - 1 <= i) => End(At(t, g, i)) <= At(t, g, j).offset
  <2> SUFFICES ASSUME NEW i \in f - 1 .. Len(t) + 1, NEW j \in f - 1 .. Len(t) + 1,
                      i < j, j < w - 1 \/ w - 1 <= i
               PROVE  End(At(t, g, i)) <= At(t, g, j).offset
    OBVIOUS
  <2>1. /\ i + 1 \in f .. Len(q) + 1 /\ j + 1 \in f .. Len(q) + 1 /\ i + 1 < j + 1
        /\ j + 1 < w \/ w <= i + 1
        /\ At(t, g, i) = At(q, g, i + 1) /\ At(t, g, j) = At(q, g, j + 1)
    BY <1>1, <1>2, <1>3
  <2> QED
    BY <2>1 DEF LaidOut
<1>7. /\ At(t, g, f - 1) = At(q, g, f) /\ At(t, g, w - 1) = At(q, g, w)
      /\ w > f => At(t, g, (w - 1) - 1) = At(q, g, w - 1)
  <2>1. /\ f - 1 \in 1 .. Len(q) /\ w - 1 \in 1 .. Len(q) /\ (f - 1) + 1 = f /\ (w - 1) + 1 = w
        /\ w > f => (w - 1) - 1 \in 1 .. Len(q) /\ ((w - 1) - 1) + 1 = w - 1
    BY <1>1, <1>3
  <2> QED
    BY <1>2, <2>1
<1>8. f - 1 \in 1 .. Len(t) + 1 /\ w - 1 \in f - 1 .. Len(t) + 1 /\ (w - 1 > f - 1 <=> w > f)
      /\ (w - 1 = f - 1 <=> w = f)
  BY <1>1, <1>3
<1>9. w > f => /\ At(q, g, w).offset = 0 /\ At(q, g, w).readAmount = Gap(End(At(q, g, w - 1)))
               /\ At(q, g, f).readAmount = 0 /\ c <= At(q, g, f).offset
  BY DEF LaidOut
<1>10. u = IF w = f THEN At(q, g, f).readAmount + g.offset - At(q, g, f).offset
                    ELSE End(At(q, g, w - 1)) - At(q, g, f).offset + At(q, g, w).readAmount + g.offset
  BY DEF LaidOut
<1>11. u = IF w - 1 = f - 1
            THEN At(t, g, f - 1).readAmount + g.offset - At(t, g, f - 1).offset
            ELSE End(At(t, g, (w - 1) - 1)) - At(t, g, f - 1).offset + At(t, g, w - 1).readAmount
                   + g.offset
  BY <1>3, <1>7, <1>8, <1>10
<1>12. w - 1 > f - 1 =>
         /\ At(t, g, w - 1).offset = 0
         /\ At(t, g, w - 1).readAmount = Gap(End(At(t, g, (w - 1) - 1)))
         /\ At(t, g, f - 1).readAmount = 0 /\ c <= At(t, g, f - 1).offset
  BY <1>7, <1>8, <1>9
<1> QED
  BY <1>4, <1>5, <1>6, <1>8, <1>11, <1>12 DEF LaidOut, t

\* The oldest packet's quadwords are given back.
LEMMA LayRelease ==
  ASSUME NEW q \in Seq(Packets), NEW g \in Packets, NEW c \in Nat, NEW u \in Int,
         NEW f \in Nat, NEW w \in Nat, q # << >>,
         LaidOut(q, g, c, u, 1, f, w)
  PROVE  \E f2, w2 \in 1 .. Len(q) + 1 :
           LaidOut(q, g, c, u - (q[1].size + q[1].readAmount), 2, f2, w2)
<1> DEFINE p == At(q, g, 1)
           v == u - (p.size + p.readAmount)
<1>1. Len(q) \in Nat \ {0} /\ p = q[1]
  BY DEF At
<1>2. \A k \in 1 .. Len(q) + 1 : At(q, g, k) \in Packets
  BY AtType
<1>3. f \in 1 .. Len(q) + 1 /\ w \in f .. Len(q) + 1
  BY DEF LaidOut
<1>4. /\ p.size \in Nat /\ p.readAmount \in Nat /\ p.offset \in Nat
      /\ g.offset \in Nat
  BY <1>1, <1>2, PacketNat
<1>9. At(q, g, 2).offset \in Nat /\ At(q, g, 2).readAmount \in Nat
  BY <1>1, <1>2, PacketNat
<1> HIDE DEF v
<1>5. CASE f > 1
  <2>1. p.size = 0 /\ p.readAmount = 0
    BY <1>1, <1>3, <1>5 DEF LaidOut
  <2>2. v = u
    BY <2>1 DEF v
  <2>3. LaidOut(q, g, c, v, 2, f, w)
    BY <1>3, <1>5, <2>2 DEF LaidOut
  <2> QED
    BY <1>1, <1>3, <2>3 DEF v
<1>6. CASE f = 1 /\ w = 1
  <2>1. At(q, g, 2).offset = p.offset + p.size /\ At(q, g, 2).readAmount = 0
    BY <1>1, <1>6 DEF LaidOut, End
  <2>2. u = p.readAmount + g.offset - p.offset
    BY <1>1, <1>6 DEF LaidOut
  <2>3. v = At(q, g, 2).readAmount + g.offset - At(q, g, 2).offset
    BY <1>4, <2>1, <2>2, SMTT(60) DEF v
  <2>4. \A k \in 2 .. Len(q) : At(q, g, k + 1).offset = End(At(q, g, k)) /\ At(q, g, k + 1).readAmount = 0
    BY <1>1, <1>6 DEF LaidOut
  <2>5. \A i, j \in 2 .. Len(q) + 1 : i < j => End(At(q, g, i)) <= At(q, g, j).offset
    BY <1>1, <1>6 DEF LaidOut
  <2>6. LaidOut(q, g, c, v, 2, 2, 2)
    BY <1>1, <2>3, <2>4, <2>5 DEF LaidOut
  <2> QED
    BY <1>1, <2>6 DEF v
<1>7. CASE f = 1 /\ w = 2
  <2>1. At(q, g, 2).offset = 0 /\ p.readAmount = 0
    BY <1>1, <1>7 DEF LaidOut
  <2>2. u = End(p) - p.offset + At(q, g, 2).readAmount + g.offset
    <3>1. w - 1 = 1
      BY <1>7
    <3>2. u = End(At(q, g, w - 1)) - At(q, g, f).offset + At(q, g, w).readAmount + g.offset
      BY <1>7 DEF LaidOut
    <3> QED
      BY <1>1, <1>7, <3>1, <3>2
  <2>3. v = At(q, g, 2).readAmount + g.offset - At(q, g, 2).offset
    <3>1. End(p) = p.offset + p.size
      BY DEF End
    <3>2. v = u - p.size
      BY <1>4, <2>1 DEF v
    <3>3. u = p.size + At(q, g, 2).readAmount + g.offset
      BY <1>4, <1>9, <2>2, <3>1
    <3> QED
      BY <1>4, <1>9, <2>1, <3>2, <3>3, SMTT(60)
  <2>4. \A k \in 2 .. Len(q) : At(q, g, k + 1).offset = End(At(q, g, k)) /\ At(q, g, k + 1).readAmount = 0
    BY <1>1, <1>7 DEF LaidOut
  <2>5. \A i, j \in 2 .. Len(q) + 1 : i < j => End(At(q, g, i)) <= At(q, g, j).offset
    BY <1>1, <1>7 DEF LaidOut
  <2>6. LaidOut(q, g, c, v, 2, 2, 2)
    BY <1>1, <2>3, <2>4, <2>5 DEF LaidOut
  <2> QED
    BY <1>1, <2>6 DEF v
<1>8. CASE f = 1 /\ w > 2
  <2>1. At(q, g, 2).offset = p.offset + p.size /\ At(q, g, 2).readAmount = 0
    <3>1. 1 \in f .. Len(q) /\ 1 + 1 # w
      BY <1>1, <1>8
    <3>2. At(q, g, 1 + 1).offset = End(At(q, g, 1)) /\ At(q, g, 1 + 1).readAmount = 0
      BY <3>1 DEF LaidOut
    <3> QED
      BY <1>1, <3>2 DEF End
  <2>2. /\ At(q, g, w).offset = 0 /\ At(q, g, w).readAmount = Gap(End(At(q, g, w - 1)))
        /\ p.readAmount = 0 /\ c <= p.offset
        /\ u = End(At(q, g, w - 1)) - p.offset + At(q, g, w).readAmount + g.offset
    BY <1>1, <1>8 DEF LaidOut
  <2>3. c <= At(q, g, 2).offset
    BY <1>4, <2>1, <2>2
  <2>4. v = End(At(q, g, w - 1)) - At(q, g, 2).offset + At(q, g, w).readAmount + g.offset
    <3>1. w \in 1 .. Len(q) + 1 /\ w - 1 \in 1 .. Len(q) + 1
      BY <1>3, <1>8
    <3>2. At(q, g, w).readAmount \in Nat /\ End(At(q, g, w - 1)) \in Nat
      BY <1>2, <3>1, PacketNat
    <3>3. u = End(At(q, g, w - 1)) - p.offset + At(q, g, w).readAmount + g.offset
      BY <2>2
    <3>4. v = u - p.size
      BY <1>4, <2>2 DEF v
    <3>5. PICK e \in Nat : e = End(At(q, g, w - 1))
      BY <3>2
    <3>6. PICK m \in Nat : m = At(q, g, w).readAmount
      BY <3>2
    <3>7. PICK b \in Nat, b2 \in Nat, s \in Nat, d \in Nat :
            b = p.offset /\ b2 = At(q, g, 2).offset /\ s = p.size /\ d = g.offset
      BY <1>4, <1>9
    <3>8. u = e - b + m + d /\ b2 = b + s
      BY <2>1, <3>3, <3>5, <3>6, <3>7
    <3>9. u - s = e - b2 + m + d
      BY <3>8
    <3> QED
      BY <3>4, <3>5, <3>6, <3>7, <3>9
  <2>5. \A k \in 2 .. Len(q) :
          k + 1 # w => At(q, g, k + 1).offset = End(At(q, g, k)) /\ At(q, g, k + 1).readAmount = 0
    BY <1>8 DEF LaidOut
  <2>6. \A i, j \in 2 .. Len(q) + 1 :
          i < j /\ (j < w \/ w <= i) => End(At(q, g, i)) <= At(q, g, j).offset
    BY <1>8 DEF LaidOut
  <2>7. LaidOut(q, g, c, v, 2, 2, w)
    BY <1>1, <1>3, <1>8, <2>1, <2>2, <2>3, <2>4, <2>5, <2>6 DEF LaidOut
  <2> QED
    BY <1>1, <1>3, <1>8, <2>7, SMTT(60) DEF v
<1> QED
  BY <1>3, <1>5, <1>6, <1>7, <1>8

\* Where the packets of a layout are.
LEMMA LayPlaces ==
  ASSUME NEW q \in Seq(Packets), NEW g \in Packets, NEW c \in Nat, NEW u \in Int,
         NEW first \in {1, 2}, NEW f \in Nat, NEW w \in Nat,
         LaidOut(q, g, c, u, first, f, w)
  PROVE  \A k \in first .. Len(q) :
           /\ k < f => At(q, g, k).size = 0 /\ At(q, g, k).readAmount = 0
           /\ k >= w => End(At(q, g, k)) <= g.offset
           /\ f <= k /\ k < w => /\ At(q, g, f).offset <= At(q, g, k).offset
                                 /\ End(At(q, g, k)) <= End(At(q, g, w - 1))
<1> TAKE k \in first .. Len(q)
<1>1. f \in first .. Len(q) + 1 /\ w \in f .. Len(q) + 1 /\ Len(q) \in Nat
  BY DEF LaidOut
<1>2. \A i \in 1 .. Len(q) + 1 : At(q, g, i) \in Packets
  BY AtType
<1>3. At(q, g, Len(q) + 1) = g
  BY AtType
<1>4. k < f => At(q, g, k).size = 0 /\ At(q, g, k).readAmount = 0
  BY DEF LaidOut
<1>5. k >= w => End(At(q, g, k)) <= g.offset
  BY <1>1, <1>3 DEF LaidOut
<1>6. ASSUME f <= k, k < w PROVE At(q, g, f).offset <= At(q, g, k).offset
  <2>1. CASE f = k
    BY <1>1, <1>2, <2>1, PacketNat
  <2>2. CASE f < k
    <3>1. End(At(q, g, f)) <= At(q, g, k).offset
      BY <1>1, <1>6, <2>2 DEF LaidOut
    <3>2. At(q, g, f) \in Packets /\ At(q, g, k) \in Packets
      BY <1>1, <1>2
    <3> QED
      BY <3>1, <3>2, PacketNat, SMTT(60) DEF End
  <2> QED
    BY <1>1, <1>6, <2>1, <2>2
<1>7. ASSUME f <= k, k < w PROVE End(At(q, g, k)) <= End(At(q, g, w - 1))
  <2>0. w - 1 \in f .. Len(q) + 1 /\ w - 1 \in 1 .. Len(q) + 1 /\ k \in 1 .. Len(q) + 1
    BY <1>1, <1>7
  <2>1. CASE k = w - 1
    <3>1. End(At(q, g, k)) \in Nat
      BY <1>2, <2>0, PacketNat
    <3> QED
      BY <2>1, <3>1
  <2>2. CASE k < w - 1
    <3>1. End(At(q, g, k)) <= At(q, g, w - 1).offset
      BY <1>1, <1>7, <2>0, <2>2 DEF LaidOut
    <3>2. At(q, g, w - 1) \in Packets /\ At(q, g, k) \in Packets
      BY <1>2, <2>0
    <3> QED
      BY <3>1, <3>2, PacketNat, SMTT(60) DEF End
  <2> QED
    BY <1>1, <1>7, <2>1, <2>2
<1> QED
  BY <1>4, <1>5, <1>6, <1>7

\* What the count tells when a packet was moved to the front: the reader is at least
\* as far on as VU1 believes, or there is nothing to read before that packet.
LEMMA LayWrapped ==
  ASSUME NEW q \in Seq(Packets), NEW g \in Packets, NEW c \in Nat, NEW u \in Int,
         NEW first \in {1, 2}, NEW f \in Nat, NEW w \in Nat,
         LaidOut(q, g, c, u, first, f, w), w > f
  PROVE  \/ g.offset - u < 0 /\ buffLimit + (g.offset - u) <= At(q, g, f).offset
         \/ /\ g.offset - u = 0 /\ At(q, g, w).readAmount = 0
            /\ \A k \in f .. w - 1 : At(q, g, k).size = 0 /\ At(q, g, k).readAmount = 0
<1>1. f \in first .. Len(q) + 1 /\ w \in f .. Len(q) + 1 /\ Len(q) \in Nat
  BY DEF LaidOut
<1>2. \A i \in 1 .. Len(q) + 1 : At(q, g, i) \in Packets
  BY AtType
<1>3. PICK e \in Nat, r \in Nat, o \in Nat :
        e = End(At(q, g, w - 1)) /\ r = At(q, g, f).offset /\ o = g.offset
  <2>1. w - 1 \in 1 .. Len(q) + 1 /\ f \in 1 .. Len(q) + 1
    BY <1>1
  <2>2. End(At(q, g, w - 1)) \in Nat /\ At(q, g, f).offset \in Nat /\ g.offset \in Nat
    BY <1>2, <2>1, PacketNat
  <2> QED
    BY <2>2
<1>4. At(q, g, w).readAmount = Gap(e) /\ At(q, g, f).readAmount = 0
  BY <1>3 DEF LaidOut
<1>5. u = e - r + At(q, g, w).readAmount + o
  BY <1>1, <1>3 DEF LaidOut
<1>6. u = e - r + Gap(e) + o
  BY <1>4, <1>5
<1>11. \A k \in first .. Len(q) :
         f <= k /\ k < w => /\ r <= At(q, g, k).offset /\ End(At(q, g, k)) <= e
  <2>1. \A k \in first .. Len(q) :
          f <= k /\ k < w => /\ At(q, g, f).offset <= At(q, g, k).offset
                             /\ End(At(q, g, k)) <= End(At(q, g, w - 1))
    BY LayPlaces
  <2> QED
    BY <1>3, <2>1
<1>7. r <= e
  <2>1. w - 1 \in first .. Len(q) /\ f <= w - 1 /\ w - 1 < w
    BY <1>1
  <2>2. r <= At(q, g, w - 1).offset
    BY <1>11, <2>1
  <2>3. At(q, g, w - 1) \in Packets
    BY <1>1, <1>2, <2>1
  <2> QED
    BY <1>3, <2>2, <2>3, PacketNat, SMTT(60) DEF End
<1>8. CASE e < buffLimit
  <2>1. o - u = r - buffLimit
    BY <1>6, <1>8, GifPathAssumption DEF Gap
  <2>2. o - u < 0 /\ buffLimit + (o - u) <= r
    BY <1>7, <1>8, <2>1, GifPathAssumption
  <2> QED
    BY <1>3, <2>2
<1>9. CASE e >= buffLimit /\ r < e
  <2>1. o - u = r - e
    BY <1>6, <1>9, GifPathAssumption DEF Gap
  <2>2. o - u < 0 /\ buffLimit + (o - u) <= r
    BY <1>9, <2>1, GifPathAssumption
  <2> QED
    BY <1>3, <2>2
<1>10. CASE e >= buffLimit /\ r = e
  <2>1. Gap(e) = 0
    BY <1>10, GifPathAssumption DEF Gap
  <2>2. o - u = 0
    BY <1>6, <1>10, <2>1
  <2>3. ASSUME NEW k \in f .. w - 1 PROVE At(q, g, k).size = 0 /\ At(q, g, k).readAmount = 0
    <3>1. k \in first .. Len(q) /\ f <= k /\ k < w /\ k \in 1 .. Len(q) + 1
      BY <1>1
    <3>2. r <= At(q, g, k).offset /\ End(At(q, g, k)) <= e
      BY <1>11, <3>1
    <3>3. At(q, g, k).size = 0
      <4>1. PICK a \in Nat, b \in Nat : a = At(q, g, k).offset /\ b = At(q, g, k).size
        BY <1>2, <3>1, PacketNat
      <4>2. r <= a /\ a + b <= e
        BY <3>2, <4>1 DEF End
      <4> QED
        BY <1>10, <4>1, <4>2, SMTT(60)
    <3>4. CASE k = f
      BY <1>4, <3>3, <3>4
    <3>5. CASE k > f
      <4>1. k - 1 \in f .. Len(q) /\ (k - 1) + 1 = k /\ k # w
        BY <1>1, <3>1, <3>5
      <4>2. At(q, g, (k - 1) + 1).readAmount = 0
        BY <4>1 DEF LaidOut
      <4> QED
        BY <3>3, <4>1, <4>2
    <3> QED
      BY <1>1, <3>1, <3>4, <3>5
  <2> QED
    BY <1>3, <1>4, <2>1, <2>2, <2>3
<1> QED
  BY <1>7, <1>8, <1>9, <1>10, GifPathAssumption

\* When nothing is unread before the packet moved to the front, it is the first.
LEMMA LaySkip ==
  ASSUME NEW q \in Seq(Packets), NEW g \in Packets, NEW c \in Nat, NEW u \in Int,
         NEW first \in {1, 2}, NEW f \in Nat, NEW w \in Nat, NEW d \in Nat,
         LaidOut(q, g, c, u, first, f, w), w > f,
         g.offset - u = 0 /\ At(q, g, w).readAmount = 0,
         \A k \in f .. w - 1 : At(q, g, k).size = 0 /\ At(q, g, k).readAmount = 0
  PROVE  LaidOut(q, g, d, u, first, w, w)
<1>1. f \in first .. Len(q) + 1 /\ w \in f .. Len(q) + 1 /\ Len(q) \in Nat
  BY DEF LaidOut
<1>2. \A k \in first .. w - 1 : At(q, g, k).size = 0 /\ At(q, g, k).readAmount = 0
  BY <1>1 DEF LaidOut
<1>3. \A k \in w .. Len(q) :
        k + 1 # w => At(q, g, k + 1).offset = End(At(q, g, k)) /\ At(q, g, k + 1).readAmount = 0
  BY <1>1 DEF LaidOut
<1>4. \A i, j \in w .. Len(q) + 1 :
        i < j /\ (j < w \/ w <= i) => End(At(q, g, i)) <= At(q, g, j).offset
  BY <1>1 DEF LaidOut
<1>5. u = At(q, g, w).readAmount + g.offset - At(q, g, w).offset
  <2>1. At(q, g, w).offset = 0
    BY DEF LaidOut
  <2>2. g.offset \in Nat
    BY PacketNat
  <2> QED
    BY <2>1, <2>2
<1> QED
  BY <1>1, <1>2, <1>3, <1>4, <1>5 DEF LaidOut

\* CopyGSPacketData found room for s quadwords: they do not reach what is unread.
LEMMA LayGrow ==
  ASSUME NEW q \in Seq(Packets), NEW g \in Packets, NEW c \in Nat, NEW u \in Int, NEW s \in Nat,
         NEW first \in {1, 2}, NEW f \in Nat, NEW w \in Nat,
         LaidOut(q, g, c, u, first, f, w),
         g.offset - u >= 0 \/ buffLimit + (g.offset - u) > c + s
  PROVE  \E f2, w2 \in 1 .. Len(q) + 1 : LaidOut(q, g, c + s, u, first, f2, w2)
<1>1. f \in 1 .. Len(q) + 1 /\ w \in 1 .. Len(q) + 1 /\ f <= w
  BY DEF LaidOut
<1>2. CASE w = f
  <2>1. LaidOut(q, g, c + s, u, first, f, w)
    BY <1>2 DEF LaidOut
  <2> QED
    BY <1>1, <2>1
<1>3. CASE w > f /\ g.offset - u < 0 /\ buffLimit + (g.offset - u) <= At(q, g, f).offset
  <2>0. At(q, g, f).offset \in Nat /\ g.offset \in Nat
    BY <1>1, AtType, PacketNat
  <2>1. c + s <= At(q, g, f).offset
    BY <1>3, <2>0, GifPathAssumption
  <2>2. LaidOut(q, g, c + s, u, first, f, w)
    BY <2>1 DEF LaidOut
  <2> QED
    BY <1>1, <2>2
<1>4. CASE /\ w > f /\ g.offset - u = 0 /\ At(q, g, w).readAmount = 0
           /\ \A k \in f .. w - 1 : At(q, g, k).size = 0 /\ At(q, g, k).readAmount = 0
  <2>1. c + s \in Nat
    OBVIOUS
  <2>2. LaidOut(q, g, c + s, u, first, w, w)
    BY <1>4, <2>1, LaySkip
  <2> QED
    BY <1>1, <2>2
<1> QED
  BY <1>1, <1>2, <1>3, <1>4, LayWrapped, SMTT(60)

\* RealignPacket found the front free: the packet being built is moved there.
LEMMA LayRealign ==
  ASSUME NEW q \in Seq(Packets), NEW g \in Packets, NEW c \in Nat, NEW u \in Int,
         NEW first \in {1, 2}, NEW f \in Nat, NEW w \in Nat, NEW h,
         LaidOut(q, g, c, u, first, f, w),
         first <= Len(q) + 1,
         g.offset > 0, g.offset <= c, g.readAmount = 0,
         \A k \in 1 .. Len(q) + 1 : At(q, g, k).readAmount > 0 => At(q, g, k).offset = 0,
         g.offset - u >= c - g.offset,
         h.offset = 0, h.readAmount = Gap(g.offset)
  PROVE  /\ \E f2, w2 \in 1 .. Len(q) + 1 :
              LaidOut(q, h, c - g.offset, u + Gap(g.offset), first, f2, w2)
         /\ \A k \in first .. Len(q) : q[k].size = 0 \/ q[k].offset >= c - g.offset
<1> DEFINE n == Len(q) + 1
           d == c - g.offset
<1>1. f \in first .. n /\ w \in f .. n /\ Len(q) \in Nat /\ n \in 1 .. n /\ first \in 1 .. n
  BY DEF LaidOut
<1>2. \A i \in 1 .. n : At(q, g, i) \in Packets
  BY AtType
<1>3. /\ At(q, g, n) = g /\ At(q, h, n) = h
      /\ \A i \in 1 .. Len(q) : At(q, g, i) = q[i] /\ At(q, h, i) = q[i]
  BY DEF At
<1>4. PICK o \in Nat : o = g.offset
  BY PacketNat
<1>5. o > 0 /\ d \in Nat /\ d = c - o /\ o - u >= d /\ Gap(o) \in Nat /\ u <= o
  BY <1>4, GifPathAssumption, SMTT(60) DEF Gap
<1> HIDE DEF n
\* Nothing is unread on the far side of an earlier move.
<1>6. PICK e \in first .. n : LaidOut(q, g, c, u, first, e, e)
  <2>1. CASE w = f
    BY <1>1, <2>1
  <2>2. CASE w > f
    <3>1. \/ g.offset - u < 0
          \/ /\ g.offset - u = 0 /\ At(q, g, w).readAmount = 0
             /\ \A k \in f .. w - 1 : At(q, g, k).size = 0 /\ At(q, g, k).readAmount = 0
      BY <2>2, LayWrapped
    <3>2. ~(g.offset - u < 0)
      BY <1>4, <1>5
    <3>3. LaidOut(q, g, c, u, first, w, w)
      BY <2>2, <3>1, <3>2, LaySkip
    <3> QED
      BY <1>1, <3>3
  <2> QED
    BY <1>1, <2>1, <2>2
<1>7. e \in 1 .. n /\ e \in Nat
  BY <1>1
<1>8. PICK r \in Nat, m \in Nat : r = At(q, g, e).offset /\ m = At(q, g, e).readAmount
  BY <1>2, <1>7, PacketNat
<1>9. u = m + o - r
  BY <1>4, <1>6, <1>8 DEF LaidOut
<1>10. m > 0 => r = 0
  BY <1>7, <1>8 DEF n
<1>11. m = 0 /\ d <= r
  BY <1>5, <1>9, <1>10
<1>12. \A k \in first .. Len(q) : k < e => At(q, g, k).size = 0 /\ At(q, g, k).readAmount = 0
  BY <1>6, <1>7, LayPlaces
<1>13. \A k \in first .. Len(q) : k >= e => At(q, g, k).offset >= r
  <2> SUFFICES ASSUME NEW k \in first .. Len(q), k >= e PROVE At(q, g, k).offset >= r
    OBVIOUS
  <2>1. CASE k = e
    BY <1>8, <2>1
  <2>2. CASE k > e
    <3>1. End(At(q, g, e)) <= At(q, g, k).offset
      BY <1>1, <1>6, <1>7, <2>2 DEF LaidOut, n
    <3>2. At(q, g, e) \in Packets /\ At(q, g, k) \in Packets
      BY <1>1, <1>2, <1>7 DEF n
    <3>3. PICK z \in Nat, a \in Nat : z = At(q, g, e).size /\ a = At(q, g, k).offset
      BY <3>2, PacketNat
    <3>4. r + z <= a
      BY <1>8, <3>1, <3>3 DEF End
    <3> QED
      BY <3>3, <3>4, SMTT(60)
  <2> QED
    BY <1>1, <1>7, <2>1, <2>2
<1>14. \A k \in first .. Len(q) : q[k].size = 0 \/ q[k].offset >= d
  <2> TAKE k \in first .. Len(q)
  <2>1. k \in 1 .. Len(q) /\ k \in 1 .. n /\ At(q, g, k) = q[k]
    BY <1>1, <1>3 DEF n
  <2>2. CASE k < e
    BY <1>12, <2>1, <2>2
  <2>3. CASE k >= e
    <3>1. q[k].offset >= r /\ q[k].offset \in Nat
      BY <1>2, <1>13, <2>1, <2>3, PacketNat
    <3> QED
      BY <1>5, <1>11, <3>1, SMTT(60)
  <2> QED
    BY <1>7, <2>1, <2>2, <2>3
<1>15. \E f2, w2 \in 1 .. n : LaidOut(q, h, d, u + Gap(o), first, f2, w2)
  <2>1. LaidOut(q, h, d, u + Gap(o), first, e, n)
    <3>1. e \in first .. Len(q) + 1 /\ n \in e .. Len(q) + 1
      BY <1>1, <1>7 DEF n
    <3>2. \A k \in first .. e - 1 : At(q, h, k).size = 0 /\ At(q, h, k).readAmount = 0
      <4> TAKE k \in first .. e - 1
      <4>1. k \in first .. Len(q) /\ k \in 1 .. Len(q) /\ k < e
        BY <1>1, <3>1 DEF n
      <4> QED
        BY <1>3, <1>12, <4>1
    <3>3. \A k \in e .. Len(q) : k + 1 # n =>
            At(q, h, k + 1).offset = End(At(q, h, k)) /\ At(q, h, k + 1).readAmount = 0
      <4> SUFFICES ASSUME NEW k \in e .. Len(q), k + 1 # n
                   PROVE  At(q, h, k + 1).offset = End(At(q, h, k)) /\ At(q, h, k + 1).readAmount = 0
        OBVIOUS
      <4>1. k \in 1 .. Len(q) /\ k + 1 \in 1 .. Len(q) /\ k + 1 # e
        BY <1>1, <1>7 DEF n
      <4>2. At(q, g, k + 1).offset = End(At(q, g, k)) /\ At(q, g, k + 1).readAmount = 0
        BY <1>6, <4>1 DEF LaidOut
      <4> QED
        BY <1>3, <4>1, <4>2
    <3>4. \A i, j \in e .. Len(q) + 1 :
            i < j /\ (j < n \/ n <= i) => End(At(q, h, i)) <= At(q, h, j).offset
      <4> SUFFICES ASSUME NEW i \in e .. Len(q) + 1, NEW j \in e .. Len(q) + 1, i < j,
                          j < n \/ n <= i
                   PROVE  End(At(q, h, i)) <= At(q, h, j).offset
        OBVIOUS
      <4>1. i \in 1 .. Len(q) /\ j \in 1 .. Len(q) /\ e <= i
        BY <1>1, <1>7 DEF n
      <4>2. End(At(q, g, i)) <= At(q, g, j).offset
        BY <1>6, <4>1 DEF LaidOut
      <4> QED
        BY <1>3, <4>1, <4>2
    <3>5. CASE e = n
      <4>1. r = o
        BY <1>3, <1>4, <1>8, <3>5
      <4>2. u = 0
        BY <1>9, <1>11, <4>1
      <4>3. u + Gap(o) = h.readAmount + h.offset - h.offset
        BY <1>4, <1>5, <4>2
      <4> QED
        BY <1>3, <3>1, <3>2, <3>3, <3>4, <3>5, <4>3 DEF LaidOut
    <3>6. CASE e < n
      <4>1. e \in 1 .. Len(q) /\ n - 1 = Len(q) /\ n > e /\ n # e
        BY <1>1, <1>7, <3>6 DEF n
      <4>2. End(At(q, g, n - 1)) = o
        <5>1. Len(q) \in e .. Len(q) /\ Len(q) + 1 = n
          BY <4>1 DEF n
        <5>2. At(q, g, Len(q) + 1).offset = End(At(q, g, Len(q)))
          BY <1>6, <4>1, <5>1 DEF LaidOut
        <5> QED
          BY <1>3, <1>4, <4>1, <5>1, <5>2
      <4>3. At(q, h, n - 1) = At(q, g, n - 1) /\ At(q, h, e) = At(q, g, e)
        BY <1>1, <1>3, <4>1
      <4>4. /\ At(q, h, n).offset = 0 /\ At(q, h, n).readAmount = Gap(End(At(q, h, n - 1)))
            /\ At(q, h, e).readAmount = 0 /\ d <= At(q, h, e).offset
        BY <1>3, <1>4, <1>8, <1>11, <4>2, <4>3
      <4>5. u + Gap(o) = o - r + Gap(o) + 0
        BY <1>5, <1>9, <1>11
      <4>6. u + Gap(o) = End(At(q, h, n - 1)) - At(q, h, e).offset + At(q, h, n).readAmount + h.offset
        BY <1>3, <1>4, <1>8, <4>2, <4>3, <4>5
      <4> QED
        BY <3>1, <3>2, <3>3, <3>4, <4>1, <4>4, <4>6 DEF LaidOut
    <3> QED
      BY <1>1, <1>7, <3>5, <3>6
  <2> QED
    BY <1>1, <1>7, <2>1
<1> QED
  BY <1>4, <1>14, <1>15 DEF n

\* An unread packet is empty, lies below the packet being built, or above its end.
LEMMA LayApart ==
  ASSUME NEW q \in Seq(Packets), NEW g \in Packets, NEW c \in Nat, NEW u \in Int,
         NEW first \in {1, 2}, NEW f \in Nat, NEW w \in Nat,
         LaidOut(q, g, c, u, first, f, w), NEW k \in first .. Len(q)
  PROVE  q[k].size = 0 \/ End(q[k]) <= g.offset \/ c <= q[k].offset
<1>1. f \in first .. Len(q) + 1 /\ w \in f .. Len(q) + 1 /\ Len(q) \in Nat
  BY DEF LaidOut
<1>2. At(q, g, k) = q[k] /\ q[k] \in Packets
  BY DEF At
<1>3. /\ k < f => At(q, g, k).size = 0
      /\ k >= w => End(At(q, g, k)) <= g.offset
      /\ f <= k /\ k < w => At(q, g, f).offset <= At(q, g, k).offset
  BY LayPlaces
<1>4. CASE f <= k /\ k < w
  <2>1. c <= At(q, g, f).offset
    BY <1>1, <1>4 DEF LaidOut
  <2>2. At(q, g, f).offset \in Nat /\ q[k].offset \in Nat
    BY <1>1, <1>2, AtType, PacketNat
  <2> QED
    BY <1>2, <1>3, <1>4, <2>1, <2>2
<1> QED
  BY <1>1, <1>2, <1>3, <1>4

\* The count covers at least the gap before the packet being built.
LEMMA LayNat ==
  ASSUME NEW q \in Seq(Packets), NEW g \in Packets, NEW c \in Nat, NEW u \in Int,
         NEW first \in {1, 2}, NEW f \in Nat, NEW w \in Nat,
         LaidOut(q, g, c, u, first, f, w)
  PROVE  u >= g.readAmount
<1>1. f \in first .. Len(q) + 1 /\ w \in f .. Len(q) + 1 /\ Len(q) \in Nat
  BY DEF LaidOut
<1>2. \A i \in 1 .. Len(q) + 1 : At(q, g, i) \in Packets
  BY AtType
<1>3. At(q, g, Len(q) + 1) = g
  BY AtType
<1>4. PICK o \in Nat, r \in Nat, m \in Nat, x \in Nat :
        o = g.offset /\ r = At(q, g, f).offset /\ m = At(q, g, w).readAmount /\ x = g.readAmount
  <2>1. f \in 1 .. Len(q) + 1 /\ w \in 1 .. Len(q) + 1
    BY <1>1
  <2> QED
    BY <1>2, <2>1, PacketNat
<1>5. CASE w = Len(q) + 1
  <2>1. m = x
    BY <1>3, <1>4, <1>5
  <2>2. CASE f = w
    <3>1. u = m + o - r
      BY <1>4, <2>2 DEF LaidOut
    <3>2. r = o
      BY <1>3, <1>4, <1>5, <2>2
    <3> QED
      BY <1>4, <2>1, <3>1, <3>2, SMTT(60)
  <2>3. CASE f < w
    <3>1. PICK e \in Nat : e = End(At(q, g, w - 1))
      <4>1. w - 1 \in 1 .. Len(q) + 1
        BY <1>1, <2>3
      <4> QED
        BY <1>2, <4>1, PacketNat
    <3>2. u = e - r + m + o
      BY <1>1, <1>4, <2>3, <3>1 DEF LaidOut
    <3>3. r <= e
      <4>1. \A k \in first .. Len(q) :
              f <= k /\ k < w => End(At(q, g, k)) <= End(At(q, g, w - 1))
        BY LayPlaces
      <4>2. End(At(q, g, f)) <= e
        BY <1>1, <2>3, <3>1, <4>1
      <4>3. PICK z \in Nat : z = At(q, g, f).size
        BY <1>1, <1>2, PacketNat
      <4>4. r + z <= e
        BY <1>4, <4>2, <4>3 DEF End
      <4> QED
        BY <4>4
    <3>4. u >= x
      BY <2>1, <3>2, <3>3
    <3> QED
      BY <1>4, <3>4
  <2> QED
    BY <1>1, <2>2, <2>3
<1>6. CASE w < Len(q) + 1
  <2>1. x = 0
    <3>1. Len(q) \in f .. Len(q) /\ Len(q) + 1 # w
      BY <1>1, <1>6
    <3>2. At(q, g, Len(q) + 1).readAmount = 0
      BY <3>1 DEF LaidOut
    <3> QED
      BY <1>3, <1>4, <3>2
  <2>2. CASE f = w
    <3>1. u = m + o - r
      BY <1>4, <2>2 DEF LaidOut
    <3>2. r <= o
      <4>1. \A k \in first .. Len(q) : k >= w => End(At(q, g, k)) <= g.offset
        BY LayPlaces
      <4>2. End(At(q, g, f)) <= o
        BY <1>1, <1>4, <1>6, <2>2, <4>1
      <4>3. PICK z \in Nat : z = At(q, g, f).size
        BY <1>1, <1>2, PacketNat
      <4>4. r + z <= o
        BY <1>4, <4>2, <4>3 DEF End
      <4> QED
        BY <4>4
    <3> QED
      BY <1>4, <2>1, <3>1, <3>2, SMTT(60)
  <2>3. CASE f < w
    <3>1. PICK e \in Nat : e = End(At(q, g, w - 1))
      <4>1. w - 1 \in 1 .. Len(q) + 1
        BY <1>1, <2>3
      <4> QED
        BY <1>2, <4>1, PacketNat
    <3>2. u = e - r + m + o
      BY <1>1, <1>4, <2>3, <3>1 DEF LaidOut
    <3>3. r <= e
      <4>1. \A k \in first .. Len(q) :
              f <= k /\ k < w => End(At(q, g, k)) <= End(At(q, g, w - 1))
        BY LayPlaces
      <4>2. End(At(q, g, f)) <= e
        BY <1>1, <2>3, <3>1, <4>1
      <4>3. PICK z \in Nat : z = At(q, g, f).size
        BY <1>1, <1>2, PacketNat
      <4>4. r + z <= e
        BY <1>4, <4>2, <4>3 DEF End
      <4> QED
        BY <4>4
    <3>4. u >= x
      BY <2>1, <3>2, <3>3
    <3> QED
      BY <1>4, <3>4
  <2> QED
    BY <1>1, <2>2, <2>3
<1> QED
  BY <1>1, <1>5, <1>6

-----------------------------------------------------------------------------
(* The path's steps *)

\* The numbers the steps below reason about, with their types.
LEMMA PathFacts ==
  ASSUME PathInv
  PROVE  /\ gsPack.offset \in Nat /\ gsPack.size \in Nat /\ gsPack.readAmount \in Nat
         /\ PackStart = gsPack.offset
         /\ curSize \in Nat /\ curOffset \in Nat /\ curOffset <= curSize /\ gsPack.offset <= curOffset
         /\ curSize <= buffSize /\ gsPack.size <= MaxOutput
         /\ readAmount \in Nat /\ Len(gsPackQueue) \in Nat /\ output \in Nat /\ output <= MaxOutput
         /\ Len(finished) \in Nat /\ Len(transferred) \in Nat
         /\ Unread \in Int /\ FirstUnread \in {1, 2} /\ FirstUnread <= Len(gsPackQueue) + 1
<1>1. PathShape /\ Building /\ Counted
  BY DEF PathInv
<1>2. gsPack.offset \in Nat /\ gsPack.size \in Nat /\ gsPack.readAmount \in Nat /\ gsPack.size <= MaxOutput
  BY <1>1, PacketNat DEF PathShape
<1>3. /\ curSize \in Nat /\ curOffset \in Nat /\ curOffset <= curSize /\ curSize <= buffSize
      /\ readAmount \in Nat /\ output \in Nat /\ output <= MaxOutput
  BY <1>1, GifPathAssumption DEF PathShape
<1>4. Len(gsPackQueue) \in Nat /\ Len(finished) \in Nat /\ Len(transferred) \in Nat
  BY <1>1 DEF PathShape
<1>5. PackStart = gsPack.offset /\ gsPack.offset <= curOffset
  BY <1>1, <1>2, <1>3 DEF Building, PackStart
<1>6. Unread \in Int
  BY <1>2, <1>3 DEF Unread
<1>7. FirstUnread \in {1, 2} /\ FirstUnread <= Len(gsPackQueue) + 1
  <2>1. Len(gsPackQueue) = semaXGkick + One(gsPc # "idle") + One(vuPc = "post") /\ semaXGkick \in Nat
    BY <1>1 DEF Counted, PathShape
  <2> QED
    BY <1>4, <2>1 DEF FirstUnread, One
<1> QED
  BY <1>2, <1>3, <1>4, <1>5, <1>6, <1>7

\* A step that moves no packet and no word.
LEMMA SameLayout ==
  ASSUME PathInv, UNCHANGED <<path, gsPackQueue, finished>>, Unread' = Unread,
         gsPc' = "pop" <=> gsPc = "pop"
  PROVE  Gaps' /\ Layout' /\ PacketsIntact'
<1>1. UNCHANGED <<buffer, curSize, curOffset, gsPack>> /\ FirstUnread' = FirstUnread
  BY DEF path, FirstUnread
<1>2. Gaps'
  BY <1>1 DEF PathInv, Gaps, At, End
<1>3. Layout'
  <2>1. Layout
    BY DEF PathInv
  <2> QED
    BY <1>1, <2>1 DEF Layout
<1>4. PacketsIntact'
  BY <1>1 DEF PathInv, PacketsIntact, Intact, PackStart
<1> QED
  BY <1>2, <1>3, <1>4

\* A program is taken out of the ring: nothing of the buffer changes.
LEMMA BeginStep ==
  ASSUME PathInv, VUBegin
  PROVE  PathInv'
<1>0. PathShape /\ Building /\ Counted /\ Budget
  BY DEF PathInv
<1>1. Gaps' /\ Layout' /\ PacketsIntact'
  <2>1. Unread' = Unread
    BY DEF VUBegin, Unread, path, gs
  <2> QED
    BY <2>1, SameLayout DEF VUBegin, gs
<1>2. PathShape'
  BY <1>0, GifPathAssumption DEF PathShape, VUBegin, path, gs, VUSteps
<1>3. Building'
  BY <1>0, PathFacts DEF Building, VUBegin, path, Kicking, CopiesLeft
<1>4. Counted'
  BY <1>0 DEF Counted, VUBegin, path, gs, One
<1>5. Budget'
  BY <1>0, PathFacts DEF Budget, PathShape, VUBegin, Busy, One
<1> QED
  BY <1>1, <1>2, <1>3, <1>4, <1>5 DEF PathInv

\* The pieces of an XGKICK.
LEMMA TwoPieces ==
  ASSUME NEW k \in Nat \ {0}, NEW m \in 1 .. k,
         NEW s, s = IF m = k THEN <<k>> ELSE <<m, k - m>>
  PROVE  /\ s \in Seq(Nat \ {0}) /\ Len(s) <= 2 /\ s # << >> /\ Left(s) = k
         /\ Head(s) = s[1] /\ s[1] \in Nat /\ s[1] <= k
<1>1. CASE m = k
  BY <1>1 DEF Left
<1>2. CASE m # k
  <2>1. s = <<m, k - m>> /\ m \in Nat \ {0} /\ k - m \in Nat \ {0}
    BY <1>2
  <2>2. s \in Seq(Nat \ {0}) /\ Len(s) = 2 /\ s[1] = m /\ s[2] = k - m /\ s # << >>
    <3> DEFINE P == Nat \ {0}
               j == k - m
    <3>1. m \in P /\ j \in P /\ s = <<m, j>>
      BY <2>1
    <3> HIDE DEF P, j
    <3>2. s \in Seq(P) /\ Len(s) = 2 /\ s[1] = m /\ s[2] = j /\ s # << >>
      BY <3>1
    <3> QED
      BY <3>2 DEF P, j
  <2> QED
    BY <2>1, <2>2 DEF Left
<1> QED
  BY <1>1, <1>2

\* The tail of a sequence of at most two.
LEMMA TailOfTwo ==
  ASSUME NEW P, NEW s \in Seq(P), s # << >>, Len(s) = 2
  PROVE  /\ Tail(s)[1] = s[2] /\ s[2] \in P
         /\ Tail(s) # << >> /\ Head(Tail(s)) = Tail(s)[1]
<1>1. Tail(s) \in Seq(P) /\ Len(Tail(s)) = 1 /\ Tail(s)[1] = s[2]
  BY HeadTailProperties
<1>2. Tail(s) # << >>
  BY <1>1, EmptySeq
<1>3. s[2] \in P
  BY 2 \in 1 .. Len(s), ElementOfSeq
<1>4. Head(Tail(s)) = Tail(s)[1]
  OBVIOUS
<1> QED
  BY <1>1, <1>2, <1>3, <1>4

\* Copying a piece leaves the rest of the XGKICK.
LEMMA PieceDone ==
  ASSUME NEW s \in Seq(Nat \ {0}), s # << >>, Len(s) <= 2
  PROVE  /\ Tail(s) \in Seq(Nat \ {0}) /\ Len(Tail(s)) <= 2 /\ Left(s) = s[1] + Left(Tail(s))
         /\ Left(Tail(s)) \in Nat /\ s[1] \in Nat \ {0} /\ Head(s) = s[1]
         /\ Tail(s) # << >> => Head(Tail(s)) = Left(Tail(s)) /\ Head(Tail(s)) = Tail(s)[1]
<1> DEFINE P == Nat \ {0}
<1>0. s \in Seq(P)
  OBVIOUS
<1>1. PICK n \in Nat \ {0} : n = Len(s)
  BY EmptySeq
<1>2. n = 1 \/ n = 2
  <2>1. n <= 2
    BY <1>1
  <2> QED
    BY <2>1
<1> HIDE DEF P
<1>3. /\ Tail(s) \in Seq(P) /\ Len(Tail(s)) = Len(s) - 1
      /\ \A i \in 1 .. Len(Tail(s)) : Tail(s)[i] = s[i + 1]
  BY <1>0, HeadTailProperties
<1>4. Head(s) = s[1] /\ s[1] \in P
  BY <1>0
<1>5. CASE n = 1
  <2>1. Len(Tail(s)) = 0
    BY <1>1, <1>3, <1>5
  <2>2. Tail(s) = << >>
    BY <1>3, <2>1, EmptySeq
  <2>3. Left(s) = s[1] /\ Left(Tail(s)) = 0
    BY <1>1, <1>5, <2>2 DEF Left
  <2> QED
    BY <1>3, <1>4, <2>1, <2>2, <2>3 DEF P
<1>6. CASE n = 2
  <2>1. Len(Tail(s)) = 1
    BY <1>1, <1>3, <1>6
  <2>2. Tail(s)[1] = s[2] /\ Tail(s) # << >> /\ s[2] \in P /\ Head(Tail(s)) = Tail(s)[1]
    BY <1>0, <1>1, <1>6, TailOfTwo
  <2>5. Left(s) = s[1] + s[2] /\ Left(Tail(s)) = s[2]
    BY <1>1, <1>6, <2>1, <2>2 DEF Left
  <2> QED
    BY <1>3, <1>4, <2>1, <2>2, <2>5 DEF P
<1> QED
  BY <1>2, <1>5, <1>6

\* What a program kicks fits below buffLimit, and that within the buffer.
LEMMA LimitFits == buffLimit <= buffSize /\ MaxOutput <= buffLimit
<1>1. PICK k \in Kicks : k \in Nat \ {0}
  BY GifPathAssumption
<1>2. buffLimit + k <= buffSize
  BY GifPathAssumption
<1> QED
  BY <1>1, <1>2, GifPathAssumption

\* An XGKICK is split into its copies; nothing is copied yet.
LEMMA KickStep ==
  ASSUME PathInv, VUXGkick
  PROVE  PathInv'
<1>0. PathShape /\ Building /\ Counted /\ Budget
  BY DEF PathInv
<1>7. UNCHANGED <<buffer, curSize, curOffset, gsPack, readAmount, gsPackQueue, programs, semaXGkick,
                  vuStart, gsPc, gsCur, finished, transferred>> /\ vuPc = "run"
  BY DEF VUXGkick, path, ends, gs
<1>6. PICK k \in Kicks :
        /\ output + k <= MaxOutput /\ output' = output + k
        /\ \E m \in 1 .. k : vuCopies' = IF m = k THEN <<k>> ELSE <<m, k - m>>
  BY DEF VUXGkick
<1>8. PICK m \in 1 .. k : vuCopies' = IF m = k THEN <<k>> ELSE <<m, k - m>>
  BY <1>6
<1>9. k \in Nat \ {0}
  BY GifPathAssumption
<1>10. /\ vuCopies' \in Seq(Nat \ {0}) /\ Len(vuCopies') <= 2 /\ vuCopies' # << >>
      /\ CopiesLeft' = k /\ Head(vuCopies') = vuCopies'[1] /\ vuCopies'[1] \in Nat /\ vuCopies'[1] <= k
  BY <1>8, <1>9, TwoPieces DEF CopiesLeft
<1>11. vuPc' = IF curSize + vuCopies'[1] > buffSize THEN "realign" ELSE "room"
  BY <1>10 DEF VUXGkick, CopyStep
<1>1. Gaps' /\ Layout' /\ PacketsIntact'
  <2>1. Unread' = Unread
    BY <1>7, <1>11 DEF Unread
  <2> QED
    BY <1>7, <2>1, SameLayout DEF path
<1>2. PathShape'
  <2>1. output' \in 0 .. MaxOutput
    BY <1>6, <1>9, PathFacts
  <2>2. vuPc' \in VUSteps
    BY <1>11 DEF VUSteps
  <2> QED
    BY <1>0, <1>7, <1>10, <2>1, <2>2 DEF PathShape
<1>3. Building'
  <2>1. curSize - gsPack.offset = output
    BY <1>0, <1>7, PathFacts DEF Building, Kicking
  <2>2. curSize' - gsPack'.offset + CopiesLeft' = output'
    BY <1>7, <1>6, <1>9, <1>10, <2>1, PathFacts
  <2>3. Kicking' /\ vuPc' \notin {"run", "push", "idle", "post", "parse", "roomWait", "realignWait"}
    BY <1>11 DEF Kicking
  <2>0. PICK h \in Nat, c \in Nat : h = vuCopies'[1] /\ c = curSize
    BY <1>10, PathFacts
  <2>4. vuPc' = "room" => curSize' + vuCopies'[1] <= buffSize
    <3>1. vuPc' = IF c + h > buffSize THEN "realign" ELSE "room"
      BY <1>11, <2>0
    <3>2. vuPc' = "room" => c + h <= buffSize
      BY <3>1, GifPathAssumption
    <3> QED
      BY <1>7, <2>0, <3>2
  <2>5. vuPc' = "realign" => curSize' + CopiesLeft' > buffLimit
    <3>1. vuPc' = IF c + h > buffSize THEN "realign" ELSE "room"
      BY <1>11, <2>0
    <3>2. h <= k
      BY <1>10, <2>0
    <3>3. vuPc' = "realign" => c + k > buffLimit
      BY <1>9, <3>1, <3>2, LimitFits, GifPathAssumption
    <3> QED
      BY <1>7, <1>10, <2>0, <3>3
  <2>6. curOffset' = gsPack'.offset + gsPack'.size
    BY <1>0, <1>7 DEF Building
  <2> QED
    BY <1>10, <2>2, <2>3, <2>4, <2>5, <2>6 DEF Building
<1>4. Counted'
  BY <1>0, <1>7, <1>11 DEF Counted, One
<1>5. Budget'
  BY <1>0, <1>7, <1>11 DEF Budget, Busy, One
<1> QED
  BY <1>1, <1>2, <1>3, <1>4, <1>5 DEF PathInv

\* WaitGS returns: VU1 looks again.
LEMMA ReadWaitStep ==
  ASSUME PathInv, VUReadWait
  PROVE  PathInv'
<1>0. PathShape /\ Building /\ Counted /\ Budget
  BY DEF PathInv
<1>7. UNCHANGED <<buffer, curSize, curOffset, gsPack, readAmount, gsPackQueue, programs, semaXGkick,
                  vuCopies, gsPc, gsCur, output, finished, transferred>>
  BY DEF VUReadWait, path, ends, gs
<1>8. \/ vuPc = "roomWait" /\ vuPc' = "room"
      \/ vuPc = "realignWait" /\ vuPc' = "realign"
  BY DEF VUReadWait
<1>1. Gaps' /\ Layout' /\ PacketsIntact'
  <2>1. Unread' = Unread
    BY <1>7, <1>8 DEF Unread
  <2> QED
    BY <1>7, <2>1, SameLayout DEF path
<1>2. PathShape'
  <2>1. vuStart' \in 0 .. QueueSize /\ vuPc' \in VUSteps
    BY <1>8, GifPathAssumption DEF VUReadWait, VUSteps
  <2> QED
    BY <1>0, <1>7, <2>1 DEF PathShape
<1>3. Building'
  BY <1>0, <1>7, <1>8 DEF Building, Kicking, CopiesLeft
<1>4. Counted'
  BY <1>0, <1>7, <1>8 DEF Counted, One
<1>5. Budget'
  BY <1>0, <1>7, <1>8 DEF Budget, Busy, One
<1> QED
  BY <1>1, <1>2, <1>3, <1>4, <1>5 DEF PathInv

\* The packet is counted in readAmount before it is queued.
LEMMA FinishStep ==
  ASSUME PathInv, VUFinish
  PROVE  PathInv'
<1>0. PathShape /\ Building /\ Counted /\ Budget
  BY DEF PathInv
<1>7. UNCHANGED <<buffer, curSize, curOffset, gsPack, gsPackQueue, programs, semaXGkick,
                  vuCopies, vuStart, gsPc, gsCur, output, finished, transferred>>
      /\ vuPc = "run" /\ vuPc' = "push" /\ readAmount' = readAmount + gsPack.size + gsPack.readAmount
  BY DEF VUFinish, path, ends, gs
<1>1. Gaps' /\ Layout' /\ PacketsIntact'
  <2>1. Unread' = Unread
    BY <1>7, PathFacts, SMTT(60) DEF Unread
  <2> QED
    BY <1>7, <2>1, SameLayout DEF path
<1>2. PathShape'
  <2>1. readAmount' \in Nat /\ vuPc' \in VUSteps
    BY <1>7, PathFacts, SMTT(60) DEF VUSteps
  <2> QED
    BY <1>0, <1>7, <2>1 DEF PathShape
<1>3. Building'
  BY <1>0, <1>7 DEF Building, Kicking, CopiesLeft
<1>4. Counted'
  BY <1>0, <1>7 DEF Counted, One
<1>5. Budget'
  BY <1>0, <1>7 DEF Budget, Busy, One
<1> QED
  BY <1>1, <1>2, <1>3, <1>4, <1>5 DEF PathInv

\* semaXGkick is posted for the packet just queued.
LEMMA PostStep ==
  ASSUME PathInv, VUPost
  PROVE  PathInv'
<1>0. PathShape /\ Building /\ Counted /\ Budget
  BY DEF PathInv
<1>7. UNCHANGED <<buffer, curSize, curOffset, gsPack, readAmount, gsPackQueue, programs,
                  vuCopies, vuStart, gsPc, gsCur, output, finished, transferred>>
      /\ vuPc = "post" /\ vuPc' = "idle" /\ semaXGkick' = semaXGkick + 1
  BY DEF VUPost, path, ends, gs
<1>1. Gaps' /\ Layout' /\ PacketsIntact'
  <2>1. Unread' = Unread
    BY <1>7, PathFacts DEF Unread
  <2> QED
    BY <1>7, <2>1, SameLayout DEF path
<1>2. PathShape'
  <2>1. semaXGkick' \in Nat /\ vuPc' \in VUSteps
    BY <1>0, <1>7 DEF PathShape, VUSteps
  <2> QED
    BY <1>0, <1>7, <2>1 DEF PathShape
<1>3. Building'
  BY <1>0, <1>7 DEF Building, Kicking, CopiesLeft
<1>4. Counted'
  <2>1. Len(gsPackQueue') = semaXGkick' + One(gsPc' # "idle") + One(vuPc' = "post")
    BY <1>0, <1>7 DEF Counted, One, PathShape
  <2> QED
    BY <1>0, <1>7, <2>1 DEF Counted
<1>5. Budget'
  BY <1>0, <1>7 DEF Budget, Busy, One
<1> QED
  BY <1>1, <1>2, <1>3, <1>4, <1>5 DEF PathInv

\* The GS takes a count of semaXGkick, and with it a queued packet.
LEMMA WaitXGkickStep ==
  ASSUME PathInv, GSWaitXGkick
  PROVE  PathInv'
<1>0. PathShape /\ Building /\ Counted /\ Budget
  BY DEF PathInv
<1>7. UNCHANGED <<buffer, curSize, curOffset, gsPack, readAmount, gsPackQueue, programs,
                  vuPc, vuCopies, vuStart, gsCur, output, finished, transferred>>
      /\ gsPc = "idle" /\ gsPc' = "get" /\ semaXGkick > 0 /\ semaXGkick' = semaXGkick - 1
  BY DEF GSWaitXGkick, path, ends, vu
<1>1. Gaps' /\ Layout' /\ PacketsIntact'
  <2>1. Unread' = Unread
    BY <1>7 DEF Unread
  <2> QED
    BY <1>7, <2>1, SameLayout DEF path
<1>2. PathShape'
  <2>1. semaXGkick' \in Nat
    BY <1>0, <1>7 DEF PathShape
  <2> QED
    BY <1>0, <1>7, <2>1 DEF PathShape
<1>3. Building'
  BY <1>0, <1>7 DEF Building, Kicking, CopiesLeft
<1>4. Counted'
  <2>1. Len(gsPackQueue') = semaXGkick' + One(gsPc' # "idle") + One(vuPc' = "post")
    BY <1>0, <1>7 DEF Counted, One, PathShape
  <2> QED
    BY <1>0, <1>7, <2>1 DEF Counted, One
<1>5. Budget'
  BY <1>0, <1>7 DEF Budget, Busy, One
<1> QED
  BY <1>1, <1>2, <1>3, <1>4, <1>5 DEF PathInv

\* What was copied becomes part of the packet.
LEMMA ParseStep ==
  ASSUME PathInv, VUParse
  PROVE  PathInv'
<1>0. PathShape /\ Building /\ Counted /\ Budget /\ Gaps /\ Layout /\ PacketsIntact
  BY DEF PathInv
<1>7. UNCHANGED <<buffer, curSize, readAmount, gsPackQueue, programs, semaXGkick,
                  vuCopies, vuStart, gsPc, gsCur, output, finished, transferred>>
      /\ vuPc = "parse" /\ vuPc' = "run" /\ curOffset' = curSize
      /\ gsPack' = [gsPack EXCEPT !.size = @ + (curSize - curOffset)]
  BY DEF VUParse, ends, gs
<1>8. vuCopies = << >> /\ curSize - gsPack.offset = output
  <2>1. vuCopies = << >> /\ curSize - gsPack.offset + CopiesLeft = output
    BY <1>0, <1>7 DEF Building, Kicking
  <2>2. CopiesLeft = 0
    BY <2>1 DEF CopiesLeft, Left
  <2> QED
    BY <2>1, <2>2, PathFacts
<1>9. /\ gsPack' \in Packets /\ gsPack'.offset = gsPack.offset /\ gsPack'.size = output
      /\ gsPack'.readAmount = gsPack.readAmount
  <2>1. gsPack \in Packets
    BY <1>0 DEF PathShape
  <2>2. gsPack.size + (curSize - curOffset) = output
    <3>1. PICK o \in Nat, z \in Nat, c \in Nat : o = gsPack.offset /\ z = gsPack.size /\ c = curSize
      BY PathFacts
    <3>2. curOffset = o + z /\ c - o = output
      BY <1>0, <1>8, <3>1 DEF Building
    <3> QED
      BY <3>1, <3>2
  <2>3. gsPack' = [gsPack EXCEPT !.size = output] /\ output \in 0 .. MaxOutput
    BY <1>0, <1>7, <2>2 DEF PathShape
  <2> QED
    BY <2>1, <2>3 DEF Packets
<1>1. PathShape'
  <2>1. curOffset' \in 0 .. curSize /\ vuPc' \in VUSteps
    BY <1>7, PathFacts DEF VUSteps
  <2> QED
    BY <1>0, <1>7, <1>9, <2>1 DEF PathShape
<1>2. Building'
  <2>1. curOffset' = gsPack'.offset + gsPack'.size
    BY <1>7, <1>8, <1>9, PathFacts
  <2> QED
    BY <1>0, <1>7, <1>8, <1>9, <2>1 DEF Building, Kicking
<1>3. Counted'
  BY <1>0, <1>7 DEF Counted, One
<1>4. Budget'
  BY <1>0, <1>7 DEF Budget, Busy, One
<1>5. Gaps'
  <2>1. \A k \in 1 .. Len(gsPackQueue) :
          At(gsPackQueue, gsPack', k) = At(gsPackQueue, gsPack, k)
    BY DEF At
  <2>2. At(gsPackQueue, gsPack', Len(gsPackQueue) + 1) = gsPack'
        /\ At(gsPackQueue, gsPack, Len(gsPackQueue) + 1) = gsPack
    BY PathFacts DEF At
  <2>3. End(gsPack') <= buffSize
    <3>1. gsPack.offset + output = curSize
      BY <1>8, PathFacts
    <3> QED
      BY <1>9, <3>1, PathFacts DEF End
  <2> SUFFICES ASSUME NEW k \in 1 .. Len(gsPackQueue) + 1
               PROVE  LET p == At(gsPackQueue, gsPack', k)
                      IN  /\ p.readAmount > 0 => p.offset = 0 /\ p.readAmount + MaxOutput < buffLimit
                          /\ End(p) <= buffSize
    BY <1>7 DEF Gaps
  <2>4. CASE k \in 1 .. Len(gsPackQueue)
    BY <1>0, <2>1, <2>4 DEF Gaps
  <2>5. CASE k = Len(gsPackQueue) + 1
    BY <1>0, <1>9, <2>2, <2>3, <2>5 DEF Gaps
  <2> QED
    BY <2>4, <2>5, PathFacts
<1>6. Layout'
  <2>1. PICK f \in 1 .. Len(gsPackQueue) + 1, w \in 1 .. Len(gsPackQueue) + 1 :
          LaidOut(gsPackQueue, gsPack, curSize, Unread, FirstUnread, f, w)
    BY <1>0 DEF Layout
  <2>2. LaidOut(gsPackQueue, gsPack', curSize, Unread, FirstUnread, f, w)
    <3>1. f \in Nat /\ w \in Nat /\ FirstUnread \in {1, 2} /\ gsPackQueue \in Seq(Packets)
      BY <1>0, PathFacts DEF PathShape
    <3> QED
      BY <1>9, <2>1, <3>1, LayParse
  <2>3. Unread' = Unread /\ FirstUnread' = FirstUnread
    BY <1>7, <1>9 DEF Unread, FirstUnread
  <2> QED
    BY <1>7, <2>2, <2>3 DEF Layout
<1>10. PacketsIntact'
  <2>1. PackStart' = PackStart
    <3>1. curOffset' = gsPack.offset + output /\ output \in Nat
      BY <1>7, <1>8, PathFacts
    <3> QED
      BY <1>9, <3>1, PathFacts DEF PackStart
  <2> QED
    BY <1>0, <1>7, <2>1 DEF PacketsIntact, Intact
<1> QED
  BY <1>1, <1>2, <1>3, <1>4, <1>5, <1>6, <1>10 DEF PathInv

\* A prefix stays a prefix when the sequence grows.
LEMMA PrefixOfAppend ==
  ASSUME NEW S, NEW s \in Seq(S), NEW v \in S, NEW m \in 0 .. Len(s)
  PROVE  SubSeq(Append(s, v), 1, m) = SubSeq(s, 1, m)
OBVIOUS

\* The packet is queued and the next one starts behind it.
LEMMA PushStep ==
  ASSUME PathInv, VUPush
  PROVE  PathInv'
<1> DEFINE n == Len(gsPackQueue)
           l == Len(finished)
<1>0. PathShape /\ Building /\ Counted /\ Budget /\ Gaps /\ Layout /\ PacketsIntact
  BY DEF PathInv
<1>7. /\ UNCHANGED <<buffer, curSize, curOffset, readAmount, programs, semaXGkick,
                     vuCopies, vuStart, gsPc, gsCur, output, transferred>>
      /\ vuPc = "push" /\ vuPc' = "post" /\ n < QueueSize
      /\ gsPackQueue' = Append(gsPackQueue, gsPack) /\ finished' = Append(finished, gsPack.size)
      /\ gsPack' = Pack(curOffset, 0, 0)
  BY DEF VUPush, ends, gs
<1>8. /\ gsPack \in Packets /\ gsPackQueue \in Seq(Packets) /\ n \in Nat /\ l \in Nat
      /\ gsPack.size \in 0 .. MaxOutput /\ finished \in Seq(0 .. MaxOutput)
  BY <1>0, PathFacts DEF PathShape, Packets
<1>9. /\ gsPackQueue' \in Seq(Packets) /\ Len(gsPackQueue') = n + 1
      /\ gsPackQueue'[n + 1] = gsPack /\ \A k \in 1 .. n : gsPackQueue'[k] = gsPackQueue[k]
  BY <1>7, <1>8, AppendProperties
<1>10. /\ finished' \in Seq(0 .. MaxOutput) /\ Len(finished') = l + 1
       /\ finished'[l + 1] = gsPack.size /\ \A k \in 1 .. l : finished'[k] = finished[k]
  BY <1>7, <1>8, AppendProperties
<1>11. /\ gsPack' \in Packets /\ gsPack'.offset = curOffset /\ gsPack'.size = 0
       /\ gsPack'.readAmount = 0
  <2>1. curOffset \in 0 .. buffSize /\ 0 \in 0 .. MaxOutput /\ 0 \in 0 .. buffLimit
    BY PathFacts, GifPathAssumption
  <2> QED
    BY <1>7, <2>1 DEF Pack, Packets
<1>12. curSize = curOffset /\ curOffset = End(gsPack)
  BY <1>0, <1>7 DEF Building, Kicking, End
<1> HIDE DEF n, l
<1>1. PathShape'
  <2>1. Len(gsPackQueue') <= QueueSize /\ vuPc' \in VUSteps
    BY <1>7, <1>8, <1>9, GifPathAssumption DEF VUSteps
  <2> QED
    BY <1>0, <1>7, <1>9, <1>10, <1>11, <2>1 DEF PathShape
<1>2. Building'
  <2>1. curOffset' = gsPack'.offset + gsPack'.size
    BY <1>7, <1>11, PathFacts
  <2> QED
    BY <1>0, <1>7, <1>11, <1>12, <2>1 DEF Building, Kicking
<1>13. /\ n = semaXGkick + One(gsPc # "idle") + One(vuPc = "post") /\ semaXGkick \in Nat
       /\ Len(transferred) = l - n + One(gsPc \in {"release", "pop"})
       /\ l - n \in Nat /\ Len(transferred) <= l
  <2>1. /\ n = semaXGkick + One(gsPc # "idle") + One(vuPc = "post") /\ semaXGkick \in Nat
        /\ Len(transferred) = l - n + One(gsPc \in {"release", "pop"})
    BY <1>0 DEF Counted, PathShape, n, l
  <2>2. One(gsPc \in {"release", "pop"}) \in {0, 1} /\ One(gsPc # "idle") \in {0, 1}
        /\ (One(gsPc \in {"release", "pop"}) = 1 => One(gsPc # "idle") = 1) /\ One(vuPc = "post") = 0
    BY <1>7 DEF One
  <2>3. Len(transferred) \in Nat
    BY PathFacts
  <2>4. One(gsPc \in {"release", "pop"}) = 1 => n >= 1
    BY <2>1, <2>2
  <2>5. l - n \in Nat
    <3>1. n <= l
      BY <1>0 DEF Counted, n, l
    <3> QED
      BY <1>8, <3>1
  <2> QED
    BY <1>8, <2>1, <2>2, <2>4, <2>5
<1>3. Counted'
  <2>1. Len(gsPackQueue') = semaXGkick' + One(gsPc' # "idle") + One(vuPc' = "post")
    <3>1. One(vuPc' = "post") = 1 /\ One(vuPc = "post") = 0 /\ One(gsPc # "idle") \in {0, 1}
      BY <1>7 DEF One
    <3> QED
      BY <1>7, <1>9, <1>13, <3>1
  <2>2. Len(transferred') = Len(finished') - Len(gsPackQueue') + One(gsPc' \in {"release", "pop"})
    <3>1. One(gsPc \in {"release", "pop"}) \in {0, 1}
      BY DEF One
    <3> QED
      BY <1>7, <1>8, <1>9, <1>10, <1>13, <3>1
  <2>3. \A k \in 1 .. Len(gsPackQueue') :
          finished'[Len(finished') - Len(gsPackQueue') + k] = gsPackQueue'[k].size
    <3> TAKE k \in 1 .. Len(gsPackQueue')
    <3>1. Len(finished') - Len(gsPackQueue') + k = l - n + k /\ k \in 1 .. n + 1
      BY <1>8, <1>9, <1>10
    <3>2. CASE k = n + 1
      <4>1. l - n + k = l + 1
        BY <1>8, <3>2
      <4> QED
        BY <1>9, <1>10, <3>1, <3>2, <4>1
    <3>3. CASE k \in 1 .. n
      <4>1. l - n + k \in 1 .. l
        BY <1>8, <1>13, <3>3
      <4>2. finished[l - n + k] = gsPackQueue[k].size
        BY <1>0, <3>3 DEF Counted, n, l
      <4> QED
        BY <1>9, <1>10, <3>1, <3>3, <4>1, <4>2
    <3> QED
      BY <1>8, <3>1, <3>2, <3>3
  <2>4. gsPc' = "release" => gsCur' = gsPackQueue'[1]
    <3>1. gsPc = "release" => n >= 1
      BY <1>8, <1>13 DEF One
    <3>2. gsPc = "release" => gsCur = gsPackQueue[1]
      BY <1>0 DEF Counted
    <3> QED
      BY <1>7, <1>8, <1>9, <3>1, <3>2
  <2>6. Len(gsPackQueue') <= Len(finished')
    BY <1>8, <1>9, <1>10, <1>13
  <2>5. transferred' = SubSeq(finished', 1, Len(transferred'))
    <3>1. transferred = SubSeq(finished, 1, Len(transferred)) /\ Len(transferred) \in 0 .. Len(finished)
      BY <1>0, <1>13, PathFacts DEF Counted, l
    <3>2. SubSeq(Append(finished, gsPack.size), 1, Len(transferred))
            = SubSeq(finished, 1, Len(transferred))
      BY <1>8, <3>1, PrefixOfAppend
    <3> QED
      BY <1>7, <3>1, <3>2
  <2> QED
    BY <2>1, <2>2, <2>3, <2>4, <2>5, <2>6 DEF Counted
<1>4. Budget'
  <2>1. l + programs + 1 <= MaxPrograms /\ programs \in Nat
    BY <1>0, <1>7 DEF Budget, Busy, One, PathShape, l
  <2> QED
    BY <1>7, <1>8, <1>10, <2>1 DEF Budget, Busy, One
<1>5. Gaps'
  <2>1. \A k \in 1 .. n + 1 : At(gsPackQueue', gsPack', k) = At(gsPackQueue, gsPack, k)
    BY <1>8, <1>9 DEF At, n
  <2>2. At(gsPackQueue', gsPack', n + 2) = gsPack'
    <3>1. ~(n + 2 <= Len(gsPackQueue'))
      BY <1>8, <1>9
    <3> QED
      BY <3>1 DEF At
  <2>3. End(gsPack') <= buffSize
    <3>1. End(gsPack') = curOffset + 0
      BY <1>11 DEF End
    <3>2. curOffset + 0 <= buffSize
      BY PathFacts, GifPathAssumption
    <3> QED
      BY <3>1, <3>2
  <2> SUFFICES ASSUME NEW k \in 1 .. n + 2
               PROVE  LET p == At(gsPackQueue', gsPack', k)
                      IN  /\ p.readAmount > 0 => p.offset = 0 /\ p.readAmount + MaxOutput < buffLimit
                          /\ End(p) <= buffSize
    BY <1>8, <1>9 DEF Gaps
  <2>4. CASE k \in 1 .. n + 1
    BY <1>0, <2>1, <2>4 DEF Gaps, n
  <2>5. CASE k = n + 2
    BY <1>11, <2>2, <2>3, <2>5
  <2> QED
    BY <1>8, <2>4, <2>5
<1>6. Layout'
  <2>1. PICK f \in 1 .. n + 1, w \in 1 .. n + 1 :
          LaidOut(gsPackQueue, gsPack, curSize, Unread, FirstUnread, f, w)
    BY <1>0 DEF Layout, n
  <2>2. LaidOut(Append(gsPackQueue, gsPack), Pack(End(gsPack), 0, 0), curSize,
                Unread + gsPack.size, FirstUnread, f, w)
    <3>1. /\ f \in Nat /\ w \in Nat /\ curSize \in Nat /\ Unread \in Int /\ FirstUnread \in {1, 2}
      BY PathFacts
    <3> QED
      BY <1>8, <2>1, <3>1, LayPush
  <2>3. Unread' = Unread + gsPack.size /\ FirstUnread' = FirstUnread
    <3>1. Unread = readAmount - gsPack.size /\ Unread' = readAmount + 0
      BY <1>7, <1>11 DEF Unread
    <3> QED
      BY <1>7, <3>1, PathFacts, SMTT(60) DEF FirstUnread
  <2>4. LaidOut(gsPackQueue', gsPack', curSize', Unread', FirstUnread', f, w)
    BY <1>7, <1>12, <2>2, <2>3
  <2>5. f \in 1 .. Len(gsPackQueue') + 1 /\ w \in 1 .. Len(gsPackQueue') + 1
    BY <1>8, <1>9
  <2> QED
    BY <2>4, <2>5 DEF Layout
<1>14. PacketsIntact'
  <2>1. PackStart' = curSize /\ PackStart = gsPack.offset
    BY <1>7, <1>11, <1>12, PathFacts DEF PackStart
  <2>2. \A i \in 0 .. curSize' - PackStart' - 1 :
           buffer'[PackStart' + i] = Word(Len(finished') + 1, i)
    BY <1>7, <2>1, PathFacts
  <2>3. ASSUME NEW k \in 1 .. n + 1, k > 1 \/ gsPc # "pop"
        PROVE  Intact((l - n) + k, gsPackQueue'[k])
    <3>1. CASE k \in 1 .. n
      BY <1>0, <1>9, <2>3, <3>1 DEF PacketsIntact, n, l
    <3>2. CASE k = n + 1
      <4>1. gsPackQueue'[k] = gsPack /\ (l - n) + k = l + 1
        BY <1>8, <1>9, <3>2
      <4>2. \A i \in 0 .. gsPack.size - 1 : buffer[gsPack.offset + i] = Word(l + 1, i)
        <5>1. curSize - PackStart - 1 = gsPack.size - 1
          BY <1>12, <2>1, PathFacts, SMTT(60) DEF End
        <5> QED
          BY <1>0, <2>1, <5>1 DEF PacketsIntact, l
      <4> QED
        BY <4>1, <4>2 DEF Intact
    <3> QED
      BY <1>8, <3>1, <3>2
  <2>4. Len(finished') - Len(gsPackQueue') = l - n
    BY <1>8, <1>9, <1>10
  <2>5. \A k \in 1 .. Len(gsPackQueue') :
           (k > 1 \/ gsPc' # "pop") =>
              \A i \in 0 .. gsPackQueue'[k].size - 1 :
                buffer'[gsPackQueue'[k].offset + i]
                  = Word(Len(finished') - Len(gsPackQueue') + k, i)
    BY <1>7, <1>9, <2>3, <2>4 DEF Intact
  <2> QED
    BY <2>2, <2>5 DEF PacketsIntact, Intact
<1> QED
  BY <1>1, <1>2, <1>3, <1>4, <1>5, <1>6, <1>14 DEF PathInv

\* The element behind a prefix makes it a longer prefix.
LEMMA NextOfPrefix ==
  ASSUME NEW S, NEW s \in Seq(S), NEW t, NEW m \in 0 .. Len(s) - 1, t = SubSeq(s, 1, m)
  PROVE  Append(t, s[m + 1]) = SubSeq(s, 1, m + 1)
OBVIOUS

\* The GS transfers the oldest packet: it is the next one finished, and whole.
LEMMA TransferStep ==
  ASSUME PathInv, GSTransfer
  PROVE  /\ PathInv'
         /\ Len(transferred) < Len(finished)
         /\ transferred' = Append(transferred, finished[Len(transferred) + 1])
<1> DEFINE n == Len(gsPackQueue)
           l == Len(finished)
           p == gsPackQueue[1]
<1>0. PathShape /\ Building /\ Counted /\ Budget /\ PacketsIntact
  BY DEF PathInv
<1>7. /\ UNCHANGED <<buffer, curSize, curOffset, gsPack, readAmount, gsPackQueue, programs,
                     semaXGkick, vuPc, vuCopies, vuStart, output, finished>>
      /\ gsPc = "get" /\ gsPc' = "release"
  BY DEF GSTransfer, path, ends, vu
<1>8. n \in Nat /\ l \in Nat /\ n >= 1 /\ n <= l /\ Len(transferred) = l - n
  <2>1. /\ n = semaXGkick + One(gsPc # "idle") + One(vuPc = "post") /\ semaXGkick \in Nat
        /\ n <= l /\ Len(transferred) = l - n + One(gsPc \in {"release", "pop"})
    BY <1>0 DEF Counted, PathShape
  <2>2. /\ One(gsPc # "idle") = 1 /\ One(vuPc = "post") \in {0, 1}
        /\ One(gsPc \in {"release", "pop"}) = 0
    BY <1>7 DEF One
  <2> QED
    BY <2>1, <2>2, PathFacts
<1>9. gsPackQueue # << >> /\ Head(gsPackQueue) = p /\ p \in Packets
  BY <1>0, <1>8 DEF PathShape
<1>10. p.size = finished[Len(transferred) + 1] /\ Intact(Len(transferred) + 1, p)
  <2>1. finished[l - n + 1] = p.size
    BY <1>0, <1>8 DEF Counted
  <2>2. Intact(l - n + 1, p)
    BY <1>0, <1>7, <1>8 DEF PacketsIntact
  <2> QED
    BY <1>8, <2>1, <2>2
<1>11. gsCur' = p /\ transferred' = Append(transferred, p.size)
  BY <1>9, <1>10 DEF GSTransfer
<1>12. Len(transferred) < l
  BY <1>8
<1> HIDE DEF n, l, p
<1>1. Gaps' /\ Layout' /\ PacketsIntact'
  <2>1. Unread' = Unread
    BY <1>7 DEF Unread
  <2> QED
    BY <1>7, <2>1, SameLayout DEF path
<1>13. /\ transferred' \in Seq(0 .. MaxOutput) /\ Len(transferred') = Len(transferred) + 1
       /\ transferred \in Seq(0 .. MaxOutput) /\ finished \in Seq(0 .. MaxOutput)
  <2>1. p.size \in 0 .. MaxOutput
    BY <1>9 DEF Packets
  <2>2. transferred \in Seq(0 .. MaxOutput) /\ finished \in Seq(0 .. MaxOutput)
    BY <1>0 DEF PathShape
  <2> QED
    BY <1>11, <2>1, <2>2, AppendProperties
<1>2. PathShape'
  BY <1>0, <1>7, <1>9, <1>11, <1>13 DEF PathShape
<1>3. Building'
  BY <1>0, <1>7 DEF Building, Kicking, CopiesLeft
<1>4. Counted'
  <2>1. Len(gsPackQueue') = semaXGkick' + One(gsPc' # "idle") + One(vuPc' = "post")
    BY <1>0, <1>7 DEF Counted, One
  <2>2. Len(transferred') = Len(finished') - Len(gsPackQueue') + One(gsPc' \in {"release", "pop"})
    <3>1. One(gsPc' \in {"release", "pop"}) = 1
      BY <1>7 DEF One
    <3> QED
      BY <1>7, <1>8, <1>13, <3>1 DEF n, l
  <2>3. transferred' = SubSeq(finished', 1, Len(transferred'))
    <3>1. transferred = SubSeq(finished, 1, Len(transferred)) /\ Len(transferred) \in 0 .. Len(finished) - 1
      BY <1>0, <1>12, PathFacts DEF Counted, l
    <3>2. Append(transferred, finished[Len(transferred) + 1])
            = SubSeq(finished, 1, Len(transferred) + 1)
      BY <1>13, <3>1, NextOfPrefix
    <3> QED
      BY <1>7, <1>10, <1>11, <1>13, <3>2
  <2>4. gsPc' = "release" => gsCur' = gsPackQueue'[1]
    BY <1>7, <1>11 DEF p
  <2> QED
    BY <1>0, <1>7, <2>1, <2>2, <2>3, <2>4 DEF Counted
<1>5. Budget'
  BY <1>0, <1>7 DEF Budget, Busy, One
<1> QED
  BY <1>1, <1>2, <1>3, <1>4, <1>5, <1>10, <1>11, <1>12 DEF PathInv, l

\* The oldest packet's quadwords are given back: VU1 may write over it.
LEMMA ReleaseStep ==
  ASSUME PathInv, GSRelease
  PROVE  PathInv'
<1> DEFINE n == Len(gsPackQueue)
           p == gsPackQueue[1]
<1>0. PathShape /\ Building /\ Counted /\ Budget /\ Gaps /\ Layout /\ PacketsIntact
  BY DEF PathInv
<1>7. /\ UNCHANGED <<buffer, curSize, curOffset, gsPack, gsPackQueue, programs, semaXGkick, vuPc,
                     vuCopies, vuStart, gsCur, output, finished, transferred>>
      /\ gsPc = "release" /\ gsPc' = "pop"
      /\ readAmount' = readAmount - (gsCur.size + gsCur.readAmount)
  BY DEF GSRelease, path, ends, vu
<1>8. n \in Nat /\ n >= 1
  <2>1. n = semaXGkick + One(gsPc # "idle") + One(vuPc = "post") /\ semaXGkick \in Nat
    BY <1>0 DEF Counted, PathShape
  <2>2. One(gsPc # "idle") = 1 /\ One(vuPc = "post") \in {0, 1}
    BY <1>7 DEF One
  <2> QED
    BY <2>1, <2>2, PathFacts
<1>9. /\ gsPackQueue # << >> /\ gsPackQueue \in Seq(Packets) /\ p \in Packets /\ gsPack \in Packets
      /\ gsCur = p
  BY <1>0, <1>7, <1>8 DEF PathShape, Counted
<1>10. p.size \in Nat /\ p.readAmount \in Nat
  BY <1>9, PacketNat
<1> HIDE DEF n, p
<1>11. Unread' = Unread - (p.size + p.readAmount) /\ FirstUnread = 1 /\ FirstUnread' = 2
  <2>1. readAmount' = readAmount - (p.size + p.readAmount)
    BY <1>7, <1>9
  <2>2. CASE vuPc = "push"
    <3>1. Unread = readAmount - gsPack.size /\ Unread' = readAmount' - gsPack.size
      BY <1>7, <2>2 DEF Unread
    <3>2. PICK x \in Nat, y \in Nat, r \in Nat, a \in Nat :
            x = p.size /\ y = p.readAmount /\ r = readAmount /\ a = gsPack.size
      BY <1>10, PathFacts
    <3>3. (r - (x + y)) - a = (r - a) - (x + y)
      OBVIOUS
    <3> QED
      BY <1>7, <2>1, <3>1, <3>2, <3>3 DEF FirstUnread
  <2>3. CASE vuPc # "push"
    <3>1. Unread = readAmount + gsPack.readAmount /\ Unread' = readAmount' + gsPack.readAmount
      BY <1>7, <2>3 DEF Unread
    <3>2. PICK x \in Nat, y \in Nat, r \in Nat, a \in Nat :
            x = p.size /\ y = p.readAmount /\ r = readAmount /\ a = gsPack.readAmount
      BY <1>10, PathFacts
    <3>3. (r - (x + y)) + a = (r + a) - (x + y)
      OBVIOUS
    <3> QED
      BY <1>7, <2>1, <3>1, <3>2, <3>3 DEF FirstUnread
  <2> QED
    BY <2>2, <2>3
<1>12. \E f, w \in 1 .. Len(gsPackQueue) + 1 :
          LaidOut(gsPackQueue, gsPack, curSize, Unread - (p.size + p.readAmount), 2, f, w)
  <2>1. PICK f \in 1 .. Len(gsPackQueue) + 1, w \in 1 .. Len(gsPackQueue) + 1 :
          LaidOut(gsPackQueue, gsPack, curSize, Unread, FirstUnread, f, w)
    BY <1>0 DEF Layout
  <2>2. f \in Nat /\ w \in Nat /\ curSize \in Nat /\ Unread \in Int
    BY PathFacts
  <2> QED
    BY <1>9, <1>11, <2>1, <2>2, LayRelease DEF p
<1>1. Layout'
  BY <1>7, <1>11, <1>12 DEF Layout
<1>2. readAmount' \in Nat
  <2>1. PICK f \in 1 .. Len(gsPackQueue) + 1, w \in 1 .. Len(gsPackQueue) + 1 :
          LaidOut(gsPackQueue, gsPack, curSize, Unread - (p.size + p.readAmount), 2, f, w)
    BY <1>12
  <2>2. f \in Nat /\ w \in Nat /\ curSize \in Nat /\ 2 \in {1, 2}
    BY PathFacts
  <2>8. Unread - (p.size + p.readAmount) \in Int
    <3>1. PICK x \in Nat, y \in Nat, z \in Int : x = p.size /\ y = p.readAmount /\ z = Unread
      BY <1>10, PathFacts
    <3>2. z - (x + y) \in Int
      OBVIOUS
    <3> QED
      BY <3>1, <3>2
  <2>3. Unread - (p.size + p.readAmount) >= gsPack.readAmount
    BY <1>9, <2>1, <2>2, <2>8, LayNat
  <2>4. readAmount' = readAmount - (p.size + p.readAmount) /\ readAmount' \in Int
    BY <1>7, <1>9, <1>10, PathFacts
  <2>5. Unread' >= gsPack.readAmount
    BY <1>11, <2>3
  <2>6. CASE vuPc = "push"
    <3>1. Unread' = readAmount' - gsPack.size
      BY <1>7, <2>6 DEF Unread
    <3> QED
      BY <2>4, <2>5, <3>1, PathFacts, SMTT(60)
  <2>7. CASE vuPc # "push"
    <3>1. Unread' = readAmount' + gsPack.readAmount
      BY <1>7, <2>7 DEF Unread
    <3> QED
      BY <2>4, <2>5, <3>1, PathFacts, SMTT(60)
  <2> QED
    BY <2>6, <2>7
<1>3. PathShape'
  BY <1>0, <1>2, <1>7 DEF PathShape
<1>4. Building'
  BY <1>0, <1>7 DEF Building, Kicking, CopiesLeft
<1>5. Counted'
  BY <1>0, <1>7 DEF Counted, One
<1>6. Budget'
  BY <1>0, <1>7 DEF Budget, Busy, One
<1>13. Gaps'
  BY <1>0, <1>7 DEF Gaps
<1>14. PacketsIntact'
  BY <1>0, <1>7 DEF PacketsIntact, Intact, PackStart
<1> QED
  BY <1>1, <1>3, <1>4, <1>5, <1>6, <1>13, <1>14 DEF PathInv

\* The oldest packet leaves the queue.
LEMMA PopStep ==
  ASSUME PathInv, GSPop
  PROVE  PathInv'
<1> DEFINE n == Len(gsPackQueue)
           l == Len(finished)
<1>0. PathShape /\ Building /\ Counted /\ Budget /\ Gaps /\ Layout /\ PacketsIntact
  BY DEF PathInv
<1>7. /\ UNCHANGED <<buffer, curSize, curOffset, gsPack, readAmount, programs, semaXGkick, vuPc,
                     vuCopies, vuStart, output, finished, transferred>>
      /\ gsPc = "pop" /\ gsPc' = "idle" /\ gsPackQueue' = Tail(gsPackQueue)
      /\ gsCur' = Pack(0, 0, 0)
  BY DEF GSPop, path, vu
<1>8. /\ n \in Nat /\ l \in Nat /\ n >= 1 /\ n <= l /\ Len(transferred) = l - n + 1
      /\ n = semaXGkick + 1 + One(vuPc = "post") /\ semaXGkick \in Nat
  <2>1. /\ n = semaXGkick + One(gsPc # "idle") + One(vuPc = "post") /\ semaXGkick \in Nat
        /\ n <= l /\ Len(transferred) = l - n + One(gsPc \in {"release", "pop"})
    BY <1>0 DEF Counted, PathShape
  <2>2. /\ One(gsPc # "idle") = 1 /\ One(vuPc = "post") \in {0, 1}
        /\ One(gsPc \in {"release", "pop"}) = 1
    BY <1>7 DEF One
  <2> QED
    BY <2>1, <2>2, PathFacts, SMTT(60)
<1>9. gsPackQueue # << >> /\ gsPackQueue \in Seq(Packets) /\ gsPack \in Packets
  BY <1>0, <1>8 DEF PathShape
<1>10. /\ gsPackQueue' \in Seq(Packets) /\ Len(gsPackQueue') = n - 1
       /\ \A k \in 1 .. n - 1 : gsPackQueue'[k] = gsPackQueue[k + 1]
  BY <1>7, <1>9, HeadTailProperties
<1>12. n \in Nat /\ l \in Nat /\ n >= 1
  BY <1>8
<1> HIDE DEF n, l
<1>1. Layout'
  <2>1. PICK f \in 1 .. n + 1, w \in 1 .. n + 1 :
          LaidOut(gsPackQueue, gsPack, curSize, Unread, FirstUnread, f, w)
    BY <1>0 DEF Layout, n
  <2>2. f \in Nat /\ w \in Nat /\ curSize \in Nat /\ Unread \in Int /\ FirstUnread = 2
    BY <1>7, PathFacts DEF FirstUnread
  <2>3. LaidOut(Tail(gsPackQueue), gsPack, curSize, Unread, 1, f - 1, w - 1)
    BY <1>9, <2>1, <2>2, LayPop
  <2>4. f \in 2 .. n + 1 /\ w \in f .. n + 1
    BY <2>1, <2>2 DEF LaidOut, n
  <2>5. f - 1 \in 1 .. (n - 1) + 1 /\ w - 1 \in 1 .. (n - 1) + 1
    BY <1>8, <2>4
  <2>6. Unread' = Unread /\ FirstUnread' = 1
    BY <1>7 DEF Unread, FirstUnread
  <2>7. LaidOut(gsPackQueue', gsPack', curSize', Unread', FirstUnread', f - 1, w - 1)
    BY <1>7, <2>3, <2>6
  <2> QED
    BY <1>10, <2>5, <2>7 DEF Layout
<1>2. PathShape'
  <2>1. Pack(0, 0, 0) \in Packets
    <3>1. 0 \in 0 .. buffSize /\ 0 \in 0 .. MaxOutput /\ 0 \in 0 .. buffLimit
      BY GifPathAssumption
    <3> QED
      BY <3>1 DEF Pack, Packets
  <2>2. Len(gsPackQueue') <= QueueSize
    BY <1>0, <1>8, <1>10, GifPathAssumption DEF PathShape, n
  <2> QED
    BY <1>0, <1>7, <1>10, <2>1, <2>2 DEF PathShape
<1>3. Building'
  BY <1>0, <1>7 DEF Building, Kicking, CopiesLeft
<1>4. Counted'
  <2>1. Len(gsPackQueue') = semaXGkick' + One(gsPc' # "idle") + One(vuPc' = "post")
    <3>1. One(gsPc' # "idle") = 0 /\ One(vuPc = "post") \in {0, 1}
      BY <1>7 DEF One
    <3> QED
      BY <1>7, <1>8, <1>10, <3>1
  <2>2. Len(transferred') = Len(finished') - Len(gsPackQueue') + One(gsPc' \in {"release", "pop"})
    <3>1. One(gsPc' \in {"release", "pop"}) = 0
      BY <1>7 DEF One
    <3> QED
      BY <1>7, <1>8, <1>10, <3>1 DEF l
  <2>3. \A k \in 1 .. Len(gsPackQueue') :
          finished'[Len(finished') - Len(gsPackQueue') + k] = gsPackQueue'[k].size
    <3> TAKE k \in 1 .. Len(gsPackQueue')
    <3>0. k \in 1 .. n - 1
      BY <1>10
    <3>1. k \in 1 .. n - 1 /\ k + 1 \in 1 .. n /\ l - (n - 1) + k = l - n + (k + 1)
      BY <1>12, <3>0
    <3>2. finished[l - n + (k + 1)] = gsPackQueue[k + 1].size
      BY <1>0, <3>1 DEF Counted, n, l
    <3> QED
      BY <1>7, <1>10, <3>1, <3>2 DEF l
  <2>4. Len(gsPackQueue') <= Len(finished')
    BY <1>7, <1>8, <1>10 DEF l
  <2> QED
    BY <1>0, <1>7, <2>1, <2>2, <2>3, <2>4 DEF Counted
<1>5. Budget'
  BY <1>0, <1>7 DEF Budget, Busy, One
<1>6. Gaps'
  <2>1. ASSUME NEW k \in 1 .. n PROVE At(gsPackQueue', gsPack', k) = At(gsPackQueue, gsPack, k + 1)
    BY <1>7, <1>8, <1>10 DEF At, n
  <2> SUFFICES ASSUME NEW k \in 1 .. n
               PROVE  LET p == At(gsPackQueue', gsPack', k)
                      IN  /\ p.readAmount > 0 => p.offset = 0 /\ p.readAmount + MaxOutput < buffLimit
                          /\ End(p) <= buffSize
    BY <1>8, <1>10 DEF Gaps
  <2>2. k + 1 \in 1 .. n + 1
    BY <1>8
  <2> QED
    BY <1>0, <2>1, <2>2 DEF Gaps, n
<1>11. PacketsIntact'
  <2>1. \A k \in 1 .. Len(gsPackQueue') :
          \A i \in 0 .. gsPackQueue'[k].size - 1 :
            buffer'[gsPackQueue'[k].offset + i] = Word(Len(finished') - Len(gsPackQueue') + k, i)
    <3> TAKE k \in 1 .. Len(gsPackQueue')
    <3>0. k \in 1 .. n - 1
      BY <1>10
    <3>1. /\ k \in 1 .. n - 1 /\ k + 1 \in 1 .. n /\ k + 1 > 1
          /\ l - (n - 1) + k = (l - n) + (k + 1)
      BY <1>12, <3>0
    <3>2. Intact((l - n) + (k + 1), gsPackQueue[k + 1])
      BY <1>0, <3>1 DEF PacketsIntact, n, l
    <3>3. gsPackQueue'[k] = gsPackQueue[k + 1]
      BY <1>10, <3>1
    <3> QED
      BY <1>7, <1>10, <3>1, <3>2, <3>3 DEF Intact, l
  <2>2. \A i \in 0 .. curSize' - PackStart' - 1 :
           buffer'[PackStart' + i] = Word(Len(finished') + 1, i)
    BY <1>0, <1>7 DEF PacketsIntact, PackStart
  <2> QED
    BY <2>1, <2>2 DEF PacketsIntact, Intact
<1> QED
  BY <1>1, <1>2, <1>3, <1>4, <1>5, <1>6, <1>11 DEF PathInv

\* A VU1 loop that goes round again.
LEMMA LoopStep ==
  ASSUME PathInv,
         UNCHANGED <<path, readAmount, gsPackQueue, ends, semaXGkick, vuCopies, gs, output, finished,
                     transferred>>,
         \/ vuPc = "realign" /\ CallReadWait("realignWait")
         \/ vuPc = "room" /\ CallReadWait("roomWait")
  PROVE  PathInv'
<1>0. PathShape /\ Building /\ Counted /\ Budget
  BY DEF PathInv
<1>7. UNCHANGED <<buffer, curSize, curOffset, gsPack, readAmount, gsPackQueue, programs, semaXGkick,
                  vuCopies, gsPc, gsCur, output, finished, transferred>>
  BY DEF path, ends, gs
<1>8. /\ \/ vuPc = "realign" /\ vuPc' = "realignWait"
         \/ vuPc = "room" /\ vuPc' = "roomWait"
      /\ vuStart' = Len(gsPackQueue)
  BY DEF CallReadWait
<1>1. Gaps' /\ Layout' /\ PacketsIntact'
  <2>1. Unread' = Unread
    BY <1>7, <1>8 DEF Unread
  <2> QED
    BY <1>7, <2>1, SameLayout DEF path
<1>2. PathShape'
  <2>1. vuStart' \in 0 .. QueueSize /\ vuPc' \in VUSteps
    BY <1>0, <1>8, PathFacts, GifPathAssumption DEF VUSteps, PathShape
  <2> QED
    BY <1>0, <1>7, <2>1 DEF PathShape
<1>3. Building'
  BY <1>0, <1>7, <1>8 DEF Building, Kicking, CopiesLeft
<1>4. Counted'
  BY <1>0, <1>7, <1>8 DEF Counted, One
<1>5. Budget'
  BY <1>0, <1>7, <1>8 DEF Budget, Busy, One
<1> QED
  BY <1>1, <1>2, <1>3, <1>4, <1>5 DEF PathInv

\* Where a program's output ends is never past the buffer's end, and what is copied
\* in the end lies where the layout has room for it.
LEMMA RoomStep ==
  ASSUME PathInv, VURoom
  PROVE  PathInv'
<1> DEFINE size == Head(vuCopies)
           n == Len(gsPackQueue)
           l == Len(finished)
           q == gsPackQueue
<1>0. PathShape /\ Building /\ Counted /\ Budget /\ Gaps /\ Layout /\ PacketsIntact
  BY DEF PathInv
<1>1. CASE ~HasRoom(size)
  BY <1>1, LoopStep DEF VURoom, path
<1>2. CASE HasRoom(size)
  <2>1. /\ UNCHANGED <<curOffset, gsPack, readAmount, gsPackQueue, programs, semaXGkick, vuStart,
                       gsPc, gsCur, output, finished, transferred>>
        /\ vuPc = "room"
        /\ buffer' = [a \in Addr |-> IF a \in curSize .. curSize + size - 1
                                       THEN Word(l + 1, (curSize - PackStart) + a - curSize)
                                       ELSE buffer[a]]
        /\ curSize' = curSize + size /\ vuCopies' = Tail(vuCopies)
        /\ vuPc' = IF Tail(vuCopies) = << >>
                     THEN IF curOffset > buffLimit THEN "realign" ELSE "parse"
                     ELSE IF (curSize + size) + Head(Tail(vuCopies)) > buffSize THEN "realign" ELSE "room"
    BY <1>2 DEF VURoom, ends, gs, ExecuteStep, CopyStep
  <2>2. /\ vuCopies \in Seq(Nat \ {0}) /\ vuCopies # << >> /\ Len(vuCopies) <= 2
        /\ curSize + vuCopies[1] <= buffSize
    BY <1>0, <2>1 DEF Building, PathShape
  <2>3. PICK m \in Nat : m = Left(Tail(vuCopies))
    BY <2>2, PieceDone
  <2>4. /\ Tail(vuCopies) \in Seq(Nat \ {0}) /\ Len(Tail(vuCopies)) <= 2
        /\ CopiesLeft = size + m /\ size \in Nat \ {0} /\ size = vuCopies[1]
        /\ Tail(vuCopies) # << >> => Head(Tail(vuCopies)) = m /\ Tail(vuCopies)[1] = m
    BY <2>2, <2>3, PieceDone DEF CopiesLeft
  <2>5. PICK s \in Nat, c \in Nat, o \in Nat :
          s = size /\ c = curSize /\ o = gsPack.offset /\ s > 0
    <3>1. size \in Nat /\ size > 0
      <4> HIDE DEF size
      <4> QED
        BY <2>4
    <3>2. curSize \in Nat /\ gsPack.offset \in Nat
      BY PathFacts
    <3> HIDE DEF size
    <3> QED
      BY <3>1, <3>2
  <2>6. /\ PackStart = o /\ o <= c /\ c + s <= buffSize /\ c - o + s + m = output
        /\ curSize' = c + s
    <3>1. c - o + (s + m) = output
      BY <1>0, <2>1, <2>4, <2>5 DEF Building, Kicking
    <3>2. c - o + s + m = output
      <4> HIDE DEF size
      <4> QED
        BY <3>1
    <3>3. PackStart = o /\ o <= c
      BY <2>5, PathFacts
    <3>4. curSize' = c + s /\ c + s <= buffSize
      BY <2>1, <2>2, <2>4, <2>5
    <3> QED
      BY <3>2, <3>3, <3>4
  <2>7. vuPc' \in {"realign", "parse", "room"}
    BY <2>1
  <2> HIDE DEF size, n, l
  <2>8. PICK f \in 1 .. n + 1, w \in 1 .. n + 1 :
          LaidOut(q, gsPack, c + s, Unread, FirstUnread, f, w)
    <3>1. PICK f \in 1 .. n + 1, w \in 1 .. n + 1 :
            LaidOut(q, gsPack, curSize, Unread, FirstUnread, f, w)
      BY <1>0 DEF Layout, n
    <3>2. f \in Nat /\ w \in Nat /\ FirstUnread \in {1, 2} /\ Unread \in Int /\ n \in Nat
      BY PathFacts DEF n
    <3>3. q \in Seq(Packets) /\ gsPack \in Packets
      BY <1>0 DEF PathShape
    <3>4. o - Unread >= 0 \/ buffLimit + (o - Unread) > c + s
      <4>1. Unread = readAmount + gsPack.readAmount
        BY <2>1 DEF Unread
      <4> QED
        BY <1>2, <2>5, <2>6, <4>1 DEF HasRoom, getReadAmount
    <3>5. gsPack.offset - Unread >= 0 \/ buffLimit + (gsPack.offset - Unread) > c + s
      BY <2>5, <3>4
    <3>6. LaidOut(q, gsPack, c, Unread, FirstUnread, f, w)
      BY <2>5, <3>1
    <3>7. \E f2, w2 \in 1 .. Len(q) + 1 : LaidOut(q, gsPack, c + s, Unread, FirstUnread, f2, w2)
      <4> HIDE DEF q
      <4>1. c \in Nat /\ s \in Nat
        OBVIOUS
      <4> QED
        BY <3>2, <3>3, <3>5, <3>6, <4>1, LayGrow, ZenonT(200)
    <3> QED
      BY <3>7 DEF n
  <2>9. Layout'
    <3>1. Unread' = Unread /\ FirstUnread' = FirstUnread
      BY <2>1, <2>7 DEF Unread, FirstUnread
    <3> QED
      BY <2>1, <2>6, <2>8, <3>1 DEF Layout, n
  <2>10. Gaps'
    BY <1>0, <2>1 DEF Gaps
  <2>11. Counted'
    BY <1>0, <2>1, <2>7 DEF Counted, One
  <2>12. Budget' /\ l + 1 <= MaxPrograms /\ l \in Nat
    <3>1. l + programs + 1 <= MaxPrograms /\ programs \in Nat
      BY <1>0, <2>1 DEF Budget, Busy, One, PathShape, l
    <3>2. Budget'
      BY <1>0, <2>1, <2>7 DEF Budget, Busy, One
    <3> QED
      BY <3>1, <3>2, PathFacts, GifPathAssumption DEF l
  <2>13. PathShape'
    <3>1. buffer' \in [Addr -> [prog : 0 .. MaxPrograms, idx : 0 .. MaxOutput]]
      <4>1. ASSUME NEW a \in Addr, a \in c .. c + s - 1
            PROVE  Word(l + 1, (c - o) + a - c) \in [prog : 0 .. MaxPrograms, idx : 0 .. MaxOutput]
        <5>1. l + 1 \in 0 .. MaxPrograms
          BY <2>12, GifPathAssumption
        <5>2. (c - o) + a - c \in 0 .. MaxOutput
          BY <2>6, <4>1, PathFacts, GifPathAssumption
        <5> QED
          BY <5>1, <5>2 DEF Word
      <4>2. buffer \in [Addr -> [prog : 0 .. MaxPrograms, idx : 0 .. MaxOutput]]
        BY <1>0 DEF PathShape
      <4>3. buffer' = [a \in Addr |-> IF a \in c .. c + s - 1
                                        THEN Word(l + 1, (c - o) + a - c) ELSE buffer[a]]
        BY <2>1, <2>5, <2>6
      <4> QED
        BY <4>1, <4>2, <4>3
    <3>2. curSize' \in 0 .. buffSize /\ curOffset' \in 0 .. curSize'
      BY <2>1, <2>5, <2>6, PathFacts, GifPathAssumption
    <3>3. vuPc' \in VUSteps
      BY <2>7 DEF VUSteps
    <3> QED
      BY <1>0, <2>1, <2>4, <3>1, <3>2, <3>3 DEF PathShape
  <2>14. Building'
    <3>1. CopiesLeft' = m
      BY <2>1, <2>3 DEF CopiesLeft
    <3>2. curSize' - gsPack'.offset + CopiesLeft' = output'
      BY <2>1, <2>5, <2>6, <3>1, PathFacts, SMTT(60)
    <3>3. Kicking' /\ vuPc' \notin {"run", "push", "idle", "post", "roomWait", "realignWait"}
      BY <2>7 DEF Kicking
    <3>4. vuPc' = "room" => vuCopies' # << >> /\ curSize' + vuCopies'[1] <= buffSize
      <4>1. vuPc' = "room" => Tail(vuCopies) # << >> /\ ~((c + s) + m > buffSize)
        BY <2>1, <2>4, <2>5
      <4>2. ~((c + s) + m > buffSize) => (c + s) + m <= buffSize
        BY GifPathAssumption
      <4> QED
        BY <2>1, <2>4, <2>6, <4>1, <4>2
    <3>5. vuPc' = "parse" => vuCopies' = << >>
      BY <2>1
    <3>6. vuPc' = "realign" => curSize' + CopiesLeft' > buffLimit
      <4>1. vuPc' = "realign" => curOffset > buffLimit \/ (c + s) + m > buffSize
        BY <2>1, <2>4, <2>5
      <4>2. curOffset <= c /\ curOffset \in Nat
        BY <2>5, PathFacts
      <4> QED
        BY <2>6, <3>1, <4>1, <4>2, LimitFits, GifPathAssumption
    <3>7. curOffset' = gsPack'.offset + gsPack'.size
      BY <1>0, <2>1 DEF Building
    <3> QED
      BY <2>1, <2>4, <3>2, <3>3, <3>4, <3>5, <3>6, <3>7 DEF Building
  <2>15. PacketsIntact'
    <3>1. \A a \in Addr : a \notin c .. c + s - 1 => buffer'[a] = buffer[a]
      BY <2>1, <2>5
    <3>2. ASSUME NEW k \in 1 .. n, k > 1 \/ gsPc # "pop",
                 NEW i \in 0 .. q[k].size - 1
          PROVE  buffer'[q[k].offset + i] = Word((l - n) + k, i)
      <4>1. buffer[q[k].offset + i] = Word((l - n) + k, i)
        BY <1>0, <3>2 DEF PacketsIntact, Intact, n, l
      <4>2. q \in Seq(Packets) /\ gsPack \in Packets /\ q[k] \in Packets
        BY <1>0 DEF PathShape, n
      <4>3. PICK x \in Nat, z \in Nat : x = q[k].offset /\ z = q[k].size
        BY <4>2, PacketNat
      <4>4. z = 0 \/ x + z <= o \/ c + s <= x
        <5>1. k \in FirstUnread .. Len(q) /\ FirstUnread \in {1, 2}
          BY <3>2, PathFacts DEF FirstUnread, n
        <5>2. f \in Nat /\ w \in Nat /\ Unread \in Int /\ c + s \in Nat
          BY PathFacts DEF n
        <5>3. q[k].size = 0 \/ End(q[k]) <= gsPack.offset \/ c + s <= q[k].offset
          BY <2>8, <4>2, <5>1, <5>2, LayApart
        <5> QED
          BY <2>5, <4>3, <5>3 DEF End
      <4>5. x + z <= buffSize
        <5>1. k \in 1 .. Len(q) + 1 /\ At(q, gsPack, k) = q[k]
          BY PathFacts DEF At, n
        <5>2. End(q[k]) <= buffSize
          BY <1>0, <5>1 DEF Gaps
        <5> QED
          BY <4>3, <5>2 DEF End
      <4>6. i \in 0 .. z - 1
        BY <4>3
      <4>7. x + i \in Addr /\ x + i \notin c .. c + s - 1
        BY <2>6, <4>4, <4>5, <4>6, GifPathAssumption DEF Addr
      <4> QED
        BY <3>1, <4>1, <4>3, <4>7
    <3>3. ASSUME NEW i \in 0 .. (c + s) - o - 1
          PROVE  buffer'[o + i] = Word(l + 1, i)
      <4>1. o + i \in Addr
        BY <2>6, GifPathAssumption DEF Addr
      <4>2. CASE o + i < c
        <5>1. i \in 0 .. c - o - 1 /\ o + i \notin c .. c + s - 1
          BY <2>6, <4>2
        <5>2. buffer[o + i] = Word(l + 1, i)
          BY <1>0, <2>5, <2>6, <5>1 DEF PacketsIntact, l
        <5> QED
          BY <3>1, <4>1, <5>1, <5>2
      <4>3. CASE o + i >= c
        <5>1. o + i \in c .. c + s - 1 /\ (c - o) + (o + i) - c = i
          BY <2>6, <4>3
        <5>2. buffer'[o + i] = Word(l + 1, (c - o) + (o + i) - c)
          BY <2>1, <2>5, <2>6, <4>1, <5>1
        <5> QED
          BY <5>1, <5>2
      <4> QED
        BY <4>2, <4>3
    <3>4. PackStart' = o
      BY <2>1, <2>6 DEF PackStart
    <3>5. \A i \in 0 .. curSize' - PackStart' - 1 :
             buffer'[PackStart' + i] = Word(Len(finished') + 1, i)
      BY <2>1, <2>6, <3>3, <3>4 DEF l
    <3>6. \A k \in 1 .. Len(gsPackQueue') : k > 1 \/ gsPc' # "pop" =>
            \A i \in 0 .. gsPackQueue'[k].size - 1 :
              buffer'[gsPackQueue'[k].offset + i]
                = Word(Len(finished') - Len(gsPackQueue') + k, i)
      BY <2>1, <3>2 DEF n, l
    <3> QED
      BY <3>5, <3>6 DEF PacketsIntact, Intact
  <2> QED
    BY <2>9, <2>10, <2>11, <2>12, <2>13, <2>14, <2>15 DEF PathInv
<1> QED
  BY <1>1, <1>2

\* At most two pieces: what is left is a number, no less than the first piece.
LEMMA LeftNat ==
  ASSUME NEW s \in Seq(Nat \ {0}), Len(s) <= 2
  PROVE  Left(s) \in Nat /\ (s # << >> => s[1] \in Nat /\ s[1] <= Left(s))
<1>1. CASE s = << >>
  BY <1>1 DEF Left
<1>2. CASE s # << >>
  <2>1. s[1] \in Nat /\ Len(s) \in {1, 2}
    <3>1. Len(s) \in Nat /\ Len(s) # 0
      BY <1>2, EmptySeq
    <3>2. PICK y \in Nat : y = Len(s) /\ y # 0 /\ y <= 2
      BY <3>1
    <3>3. 1 \in 1 .. y /\ y \in {1, 2}
      BY <3>2
    <3> QED
      BY <3>2, <3>3, ElementOfSeq
  <2>2. CASE Len(s) = 1
    BY <1>2, <2>1, <2>2 DEF Left
  <2>3. CASE Len(s) = 2
    <3>1. s[2] \in Nat
      BY <2>3
    <3>2. Left(s) = s[1] + s[2]
      BY <1>2, <2>3 DEF Left
    <3>3. PICK x \in Nat, y \in Nat : x = s[1] /\ y = s[2]
      BY <2>1, <3>1
    <3>4. x + y \in Nat /\ x <= x + y
      OBVIOUS
    <3> QED
      BY <3>2, <3>3, <3>4
  <2> QED
    BY <2>1, <2>2, <2>3
<1> QED
  BY <1>1, <1>2

\* A packet is moved only when it starts past MaxOutput, so its new place does not
\* overlap its old one (`intersect` is 0) and the gap it leaves is small.
LEMMA RealignPlace ==
  ASSUME PathInv, vuPc \in {"realign", "realignWait"}
  PROVE  /\ gsPack.offset > MaxOutput /\ curSize - gsPack.offset <= MaxOutput
         /\ gsPack.readAmount = 0 /\ CopiesLeft \in Nat
         /\ curSize - gsPack.offset + CopiesLeft = output
<1>0. PathShape /\ Building /\ Gaps
  BY DEF PathInv
<1>1. CopiesLeft \in Nat
  BY <1>0, LeftNat DEF Building, PathShape, CopiesLeft
<1>2. PICK c \in Nat, o \in Nat, m \in Nat : c = curSize /\ o = gsPack.offset /\ m = CopiesLeft
  BY <1>1, PathFacts
<1>3. c - o + m = output /\ c + m > buffLimit
  BY <1>0, <1>2 DEF Building, Kicking
<1>4. output \in Nat /\ output <= MaxOutput
  BY PathFacts
<1>5. o > MaxOutput /\ c - o <= MaxOutput
  BY <1>3, <1>4, GifPathAssumption
<1>6. gsPack.readAmount = 0
  <2>1. PICK n \in Nat : n = Len(gsPackQueue)
    BY PathFacts
  <2>2. n + 1 \in 1 .. n + 1 /\ ~(n + 1 <= n)
    OBVIOUS
  <2>3. At(gsPackQueue, gsPack, n + 1) = gsPack
    BY <2>1, <2>2 DEF At
  <2>4. gsPack.readAmount > 0 => gsPack.offset = 0
    BY <1>0, <2>1, <2>2, <2>3 DEF Gaps
  <2>5. o # 0
    BY <1>5, GifPathAssumption
  <2> QED
    BY <1>2, <2>4, <2>5, PathFacts
<1> QED
  BY <1>1, <1>2, <1>3, <1>5, <1>6

\* Moving the packet being built to the front: the quadwords below it were all read.
LEMMA RealignStep ==
  ASSUME PathInv, VURealign
  PROVE  PathInv'
<1> DEFINE n == Len(gsPackQueue)
           l == Len(finished)
           q == gsPackQueue
<1>0. PathShape /\ Building /\ Counted /\ Budget /\ Gaps /\ Layout /\ PacketsIntact
  BY DEF PathInv
<1>1. CASE ~FrontFree(PackStart, curSize - PackStart)
  BY <1>1, LoopStep DEF VURealign
<1>2. CASE FrontFree(PackStart, curSize - PackStart)
  <2>1. PICK c \in Nat, o \in Nat, z \in Nat, m \in Nat :
          c = curSize /\ o = gsPack.offset /\ z = gsPack.size /\ m = CopiesLeft
    BY RealignPlace, PathFacts DEF VURealign
  <2>2. /\ o > MaxOutput /\ c - o <= MaxOutput /\ gsPack.readAmount = 0 /\ c - o + m = output
        /\ o + z <= c /\ c <= buffSize /\ PackStart = o /\ curOffset = o + z /\ z <= MaxOutput
        /\ output \in Nat /\ output <= MaxOutput
    <3>1. curOffset = o + z /\ curOffset <= curSize
      BY <1>0, <2>1, PathFacts DEF Building
    <3> QED
      BY <2>1, <3>1, RealignPlace, PathFacts DEF VURealign
  <2>3. /\ UNCHANGED <<readAmount, gsPackQueue, programs, semaXGkick, vuStart, vuCopies,
                       gsPc, gsCur, output, finished, transferred>>
        /\ vuPc = "realign"
        /\ buffer' = [a \in Addr |-> IF a < c - o THEN buffer[o + a] ELSE buffer[a]]
        /\ curSize' = c - o /\ curOffset' = z
        /\ gsPack' = Pack(0, z, 0 + Gap(o))
        /\ vuPc' = IF vuCopies = << >> THEN "parse" ELSE "room"
    BY <1>2, <2>1, <2>2 DEF VURealign, ends, gs
  <2>4. PICK e \in Nat : e = Gap(o) /\ (e > 0 => e + MaxOutput < buffLimit) /\ e <= buffLimit
    BY <2>2, GifPathAssumption DEF Gap
  <2>5. gsPack' = Pack(0, z, e) /\ gsPack'.offset = 0 /\ gsPack'.size = z /\ gsPack'.readAmount = e
    BY <2>3, <2>4 DEF Pack
  <2>6. vuPc' \in {"parse", "room"}
    BY <2>3
  <2>7. Unread' = Unread + e /\ FirstUnread' = FirstUnread /\ Unread = readAmount
    <3>1. Unread = readAmount /\ readAmount \in Nat
      BY <2>2, <2>3, PathFacts DEF Unread
    <3>2. Unread' = readAmount + e
      BY <2>3, <2>5, <2>6 DEF Unread
    <3> QED
      BY <2>3, <3>1, <3>2 DEF FirstUnread
  <2>8. /\ \E f2, w2 \in 1 .. n + 1 : LaidOut(q, gsPack', c - o, Unread + e, FirstUnread, f2, w2)
        /\ \A k \in FirstUnread .. n : q[k].size = 0 \/ q[k].offset >= c - o
    <3>1. PICK f \in 1 .. n + 1, w \in 1 .. n + 1 :
            LaidOut(q, gsPack, c, Unread, FirstUnread, f, w)
      BY <1>0, <2>1 DEF Layout
    <3>2. /\ f \in Nat /\ w \in Nat /\ FirstUnread \in {1, 2} /\ Unread \in Int /\ n \in Nat
          /\ FirstUnread <= n + 1
      BY PathFacts
    <3>3. q \in Seq(Packets) /\ gsPack \in Packets
      BY <1>0 DEF PathShape
    <3>4. o - Unread >= c - o
      <4>1. getReadAmount = Unread
        BY <2>2, <2>7, PathFacts DEF getReadAmount
      <4>2. ~(c - o > o)
        BY <2>2, GifPathAssumption
      <4>3. o - Unread >= c - o - 0
        BY <1>2, <2>1, <2>2, <4>1, <4>2 DEF FrontFree
      <4> QED
        BY <4>3
    <3>5. o > 0 /\ o <= c
      BY <2>2, GifPathAssumption
    <3>6. \A k \in 1 .. n + 1 : At(q, gsPack, k).readAmount > 0 => At(q, gsPack, k).offset = 0
      BY <1>0 DEF Gaps
    <3>7. c \in Nat /\ o = gsPack.offset
      BY <2>1
    <3> HIDE DEF q
    <3>8. /\ \E f2, w2 \in 1 .. Len(q) + 1 :
               LaidOut(q, gsPack', c - gsPack.offset, Unread + Gap(gsPack.offset), FirstUnread, f2, w2)
          /\ \A k \in FirstUnread .. Len(q) : q[k].size = 0 \/ q[k].offset >= c - gsPack.offset
      <4>1. /\ gsPack.offset > 0 /\ gsPack.offset <= c /\ gsPack.readAmount = 0
            /\ gsPack.offset - Unread >= c - gsPack.offset
            /\ gsPack'.offset = 0 /\ gsPack'.readAmount = Gap(gsPack.offset)
        BY <2>2, <2>4, <2>5, <3>4, <3>5, <3>7
      <4>2. /\ FirstUnread <= Len(q) + 1
            /\ \A k \in 1 .. Len(q) + 1 : At(q, gsPack, k).readAmount > 0 => At(q, gsPack, k).offset = 0
        BY <3>2, <3>6 DEF q
      <4> QED
        BY <3>1, <3>2, <3>3, <3>7, <4>1, <4>2, LayRealign, ZenonT(60)
    <3> QED
      BY <2>4, <3>7, <3>8 DEF q
  <2>9. Layout'
    BY <2>3, <2>7, <2>8 DEF Layout
  <2>10. Gaps'
    <3>1. ASSUME NEW k \in 1 .. n + 1
          PROVE  LET p == At(q, gsPack', k)
                 IN  /\ p.readAmount > 0 => p.offset = 0 /\ p.readAmount + MaxOutput < buffLimit
                     /\ End(p) <= buffSize
      <4>1. CASE k <= n
        BY <1>0, <4>1 DEF Gaps, At
      <4>2. CASE ~(k <= n)
        <5>1. At(q, gsPack', k) = gsPack'
          BY <4>2 DEF At
        <5>2. 0 + z <= buffSize
          BY <2>2, LimitFits, GifPathAssumption
        <5> QED
          BY <2>4, <2>5, <5>1, <5>2 DEF End
      <4> QED
        BY <4>1, <4>2
    <3> QED
      BY <2>3, <3>1 DEF Gaps
  <2>11. Counted'
    BY <1>0, <2>3, <2>6 DEF Counted, One
  <2>12. Budget'
    BY <1>0, <2>3, <2>6 DEF Budget, Busy, One
  <2>13. PathShape'
    <3>1. buffer' \in [Addr -> [prog : 0 .. MaxPrograms, idx : 0 .. MaxOutput]]
      <4>1. \A a \in Addr : a < c - o => o + a \in Addr
        BY <2>2, GifPathAssumption DEF Addr
      <4>2. buffer \in [Addr -> [prog : 0 .. MaxPrograms, idx : 0 .. MaxOutput]]
        BY <1>0 DEF PathShape
      <4> QED
        BY <2>3, <4>1, <4>2
    <3>2. curSize' \in 0 .. buffSize /\ curOffset' \in 0 .. curSize'
      BY <2>2, <2>3, GifPathAssumption
    <3>3. vuPc' \in VUSteps
      BY <2>6 DEF VUSteps
    <3>4. gsPack' \in Packets
      <4>1. 0 \in 0 .. buffSize /\ z \in 0 .. MaxOutput /\ e \in 0 .. buffLimit
        BY <2>2, <2>4, GifPathAssumption
      <4> QED
        BY <2>5, <4>1 DEF Packets, Pack
    <3> QED
      BY <1>0, <2>3, <3>1, <3>2, <3>3, <3>4 DEF PathShape
  <2>14. Building'
    <3>1. CopiesLeft' = m
      BY <2>1, <2>3 DEF CopiesLeft
    <3>2. curSize' - gsPack'.offset + CopiesLeft' = output'
      BY <2>2, <2>3, <2>5, <3>1
    <3>3. Kicking' /\ vuPc' \notin {"run", "push", "idle", "post", "roomWait", "realign", "realignWait"}
      BY <2>6 DEF Kicking
    <3>4. vuPc' = "room" => vuCopies' # << >> /\ curSize' + vuCopies'[1] <= buffSize
      <4>1. vuPc' = "room" => vuCopies # << >>
        BY <2>3
      <4>2. vuCopies # << >> => vuCopies[1] \in Nat /\ vuCopies[1] <= m
        BY <1>0, <2>1, LeftNat DEF Building, PathShape, CopiesLeft
      <4>3. ASSUME NEW x \in Nat, x <= m
            PROVE  c - o + x <= buffSize
        BY <2>2, <4>3, LimitFits, GifPathAssumption
      <4> QED
        BY <2>3, <4>1, <4>2, <4>3
    <3>5. vuPc' = "parse" => vuCopies' = << >>
      BY <2>3
    <3>6. curOffset' = gsPack'.offset + gsPack'.size
      BY <2>3, <2>5
    <3>7. Len(vuCopies') <= 2
      BY <1>0, <2>3 DEF Building
    <3> QED
      BY <3>2, <3>3, <3>4, <3>5, <3>6, <3>7 DEF Building
  <2>15. PacketsIntact'
    <3>1. \A a \in Addr : buffer'[a] = IF a < c - o THEN buffer[o + a] ELSE buffer[a]
      BY <2>3
    <3>2. ASSUME NEW k \in 1 .. n, k > 1 \/ gsPc # "pop",
                 NEW i \in 0 .. q[k].size - 1
          PROVE  buffer'[q[k].offset + i] = Word((l - n) + k, i)
      <4>1. buffer[q[k].offset + i] = Word((l - n) + k, i)
        BY <1>0, <3>2 DEF PacketsIntact, Intact
      <4>2. q[k] \in Packets
        BY <1>0 DEF PathShape
      <4>3. PICK x \in Nat, y \in Nat : x = q[k].offset /\ y = q[k].size
        BY <4>2, PacketNat
      <4>4. y = 0 \/ x >= c - o
        <5>1. k \in FirstUnread .. n
          BY <3>2, PathFacts DEF FirstUnread
        <5> QED
          BY <2>8, <4>3, <5>1
      <4>5. x + y <= buffSize
        <5>1. k \in 1 .. Len(q) + 1 /\ At(q, gsPack, k) = q[k]
          BY PathFacts DEF At
        <5>2. End(q[k]) <= buffSize
          BY <1>0, <5>1 DEF Gaps
        <5> QED
          BY <4>3, <5>2 DEF End
      <4>6. i \in 0 .. y - 1
        BY <4>3
      <4>7. x + i \in Addr /\ ~(x + i < c - o)
        BY <4>4, <4>5, <4>6, GifPathAssumption DEF Addr
      <4> QED
        BY <3>1, <4>1, <4>3, <4>7
    <3>3. ASSUME NEW i \in 0 .. (c - o) - 1
          PROVE  buffer'[0 + i] = Word(l + 1, i)
      <4>1. 0 + i \in Addr /\ 0 + i = i /\ i < c - o
        BY <2>2, GifPathAssumption DEF Addr
      <4>2. buffer[o + i] = Word(l + 1, i)
        BY <1>0, <2>1, <2>2 DEF PacketsIntact
      <4> QED
        BY <3>1, <4>1, <4>2
    <3>4. PackStart' = 0
      BY <2>3, <2>5 DEF PackStart
    <3>5. \A i \in 0 .. curSize' - PackStart' - 1 :
             buffer'[PackStart' + i] = Word(Len(finished') + 1, i)
      <4>1. curSize' - PackStart' - 1 = (c - o) - 1
        BY <2>3, <3>4
      <4> QED
        BY <2>3, <3>3, <3>4, <4>1
    <3>6. \A k \in 1 .. Len(gsPackQueue') : k > 1 \/ gsPc' # "pop" =>
            \A i \in 0 .. gsPackQueue'[k].size - 1 :
              buffer'[gsPackQueue'[k].offset + i]
                = Word(Len(finished') - Len(gsPackQueue') + k, i)
      BY <2>3, <3>2
    <3> QED
      BY <3>5, <3>6 DEF PacketsIntact, Intact
  <2> QED
    BY <2>9, <2>10, <2>11, <2>12, <2>13, <2>14, <2>15 DEF PathInv
<1> QED
  BY <1>1, <1>2

-----------------------------------------------------------------------------
(* Every step of the path *)

\* The invariant holds in the initial state.
LEMMA PathStart ==
  ASSUME PathInit
  PROVE  PathInv
<1> USE DEF PathInit
<1>1. gsPack = Pack(0, 0, 0) /\ gsPack.offset = 0 /\ gsPack.size = 0 /\ gsPack.readAmount = 0
  BY DEF Pack
<1>2. Pack(0, 0, 0) \in Packets
  <2>1. 0 \in 0 .. buffSize /\ 0 \in 0 .. MaxOutput /\ 0 \in 0 .. buffLimit
    BY GifPathAssumption
  <2> QED
    BY <2>1 DEF Packets, Pack
<1>3. buffer \in [Addr -> [prog : 0 .. MaxPrograms, idx : 0 .. MaxOutput]]
  <2>1. Word(0, 0) \in [prog : 0 .. MaxPrograms, idx : 0 .. MaxOutput]
    BY GifPathAssumption DEF Word
  <2> QED
    BY <2>1
<1>4. PathShape
  <2>1. gsPackQueue \in Seq(Packets) /\ vuCopies \in Seq(Nat \ {0})
    BY EmptySeq
  <2>2. finished \in Seq(0 .. MaxOutput) /\ transferred \in Seq(0 .. MaxOutput)
    BY EmptySeq
  <2>3. Len(gsPackQueue) <= QueueSize /\ vuStart \in 0 .. QueueSize
    BY GifPathAssumption, EmptySeq
  <2>4. curSize \in 0 .. buffSize /\ curOffset \in 0 .. curSize /\ output \in 0 .. MaxOutput
    BY GifPathAssumption
  <2> QED
    BY <1>1, <1>2, <1>3, <2>1, <2>2, <2>3, <2>4 DEF PathShape, VUSteps
<1>5. Building
  BY <1>1 DEF Building, Kicking
<1>6. Counted
  <2>1. SubSeq(<< >>, 1, 0) = << >>
    OBVIOUS
  <2> QED
    BY <2>1 DEF Counted, One
<1>7. Budget
  BY GifPathAssumption DEF Budget, Busy, One
<1>8. Len(gsPackQueue) = 0 /\ \A k \in 1 .. 1 : At(gsPackQueue, gsPack, k) = gsPack
  BY DEF At
<1>9. Gaps
  BY <1>1, <1>8, GifPathAssumption DEF Gaps, End
<1>10. LaidOut(gsPackQueue, gsPack, curSize, Unread, FirstUnread, 1, 1)
  <2>1. Unread = 0 /\ FirstUnread = 1
    BY <1>1 DEF Unread, FirstUnread
  <2> QED
    BY <1>1, <1>8, <2>1 DEF LaidOut
<1>11. Layout
  BY <1>8, <1>10 DEF Layout
<1>12. PacketsIntact
  <2>1. PackStart = 0
    BY <1>1 DEF PackStart
  <2> QED
    BY <1>8, <2>1 DEF PacketsIntact
<1> QED
  BY <1>4, <1>5, <1>6, <1>7, <1>9, <1>11, <1>12 DEF PathInv

\* A step of VU1, of the GS thread, or one that leaves the path to them.
PathStep ==
  \/ VUBegin \/ VUXGkick \/ VURealign \/ VURoom \/ VUReadWait \/ VUParse \/ VUFinish \/ VUPush
  \/ VUPost \/ GSRuns
  \/ UNCHANGED <<path, readAmount, gsPackQueue, programs, semaXGkick, vu, gs, output, finished,
                 transferred>>

\* Every step of VU1 and of the GS thread keeps the path's invariant.
LEMMA PathKept ==
  ASSUME PathInv, PathStep
  PROVE  PathInv'
<1>1. CASE UNCHANGED <<path, readAmount, gsPackQueue, programs, semaXGkick, vu, gs, output, finished,
                       transferred>>
  <2>1. UNCHANGED <<buffer, curSize, curOffset, gsPack, readAmount, gsPackQueue, programs, semaXGkick,
                    vuPc, vuCopies, vuStart, gsPc, gsCur, output, finished, transferred>>
    BY <1>1 DEF path, vu, gs
  <2>2. Gaps' /\ Layout' /\ PacketsIntact'
    BY <1>1, <2>1, SameLayout DEF Unread
  <2>3. PathShape' /\ Budget'
    BY <2>1 DEF PathInv, PathShape, Budget, Busy
  <2>4. Building' /\ Counted'
    BY <2>1 DEF PathInv, Building, Kicking, CopiesLeft, Counted
  <2> QED
    BY <2>2, <2>3, <2>4 DEF PathInv
<1> QED
  BY <1>1, BeginStep, KickStep, RealignStep, RoomStep, ReadWaitStep, ParseStep, FinishStep, PushStep,
     PostStep, WaitXGkickStep, TransferStep, ReleaseStep, PopStep DEF PathStep, GSRuns
=============================================================================
