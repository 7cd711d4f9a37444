----------------------------- MODULE Sif0_proofs -----------------------------
(***************************************************************************)
(* Theorems about SIF0, for every FIFO, set of packet lengths and number of *)
(* packets.                                                                 *)
(*                                                                         *)
(* The invariant gives both sides a place in the stream: where in its last  *)
(* packet the IOP is (`IOPPlace`), and, up to an overrun, which packet the  *)
(* EE is in (`EEPlace`) and that the FIFO holds the words in between        *)
(* (`InFifo`).                                                              *)
(***************************************************************************)
EXTENDS Sif0, SequenceTheorems, TLAPS

\* The place of the last word of packet m, 0 before the first.
EndPos(m) == IF m = 0 THEN 0 ELSE EndOf(packets[m])

\* Packets follow one another without a gap.
Chain ==
  /\ \A n \in 1 .. Len(packets) : packets[n].start = EndPos(n - 1) + 1
  /\ \A m \in 0 .. Len(packets), n \in 0 .. Len(packets) : m < n => EndPos(m) + 2 <= EndPos(n)

\* What the IOP has still to put in of its last packet, padding included.
IOPPlace ==
  /\ written + iop.counter + iop.writeJunk = EndPos(Len(packets))
  /\ iop.counter = 0 => iop.writeJunk = 0
  /\ ~iop.busy => iop.counter = 0

\* Both sides count in pairs of words, so that there is room for a tag or for none.
Even ==
  /\ size = written - taken
  /\ taken % 2 = 0 /\ (written + iop.counter + iop.writeJunk) % 2 = 0

\* The steps of a call, why it may end, and that a start is not forgotten.
Calls ==
  /\ pc = "eeData" => ee.busy /\ STR /\ qwc > 0
  /\ STR => ee.busy \/ eeInt \/ queued
  /\ pc = "ee" /\ ~BusyCheck => ~(iop.busy /\ (sif_free > 0 \/ (iop.end /\ iop.counter = 0)))

\* The EE is in packet m, with qwc quadwords of it to come.
EEAt(m) ==
  /\ taken + 4 * qwc = EndPos(m)
  /\ qwc > 0 => m > 0 /\ qwc <= (packets[m].words + 3) \div 4
  /\ ee.end => m > 0 /\ packets[m].last
EEPlace == \E m \in 0 .. Len(packets) : EEAt(m)

\* The FIFO holds the words that are written and not taken.
InFifo ==
  /\ size <= FIFO_SIF_W
  /\ writePos = (readPos + size) % FIFO_SIF_W
  /\ \A i \in 0 .. size - 1 : data[(readPos + i) % FIFO_SIF_W] = taken + i + 1

SidesInv == Chain /\ IOPPlace /\ Even /\ Calls
StreamInv == ~overran => EEPlace /\ InFifo /\ intact /\ pc # "wild"

IInv == TypeOK /\ SidesInv /\ StreamInv /\ Settled
-----------------------------------------------------------------------------
(* Arithmetic *)

\* A packet and its junk fill whole quadwords, none only when it has no words.
LEMMA Padded ==
  ASSUME NEW words \in Nat
  PROVE  /\ (words + 3) \div 4 \in Nat
         /\ (words + 3) \div 4 = 0 => words = 0
         /\ words = 0 => (4 - words) % 4 = 0
         /\ (4 - words) % 4 \in 0 .. 3
         /\ words + ((4 - words) % 4) = 4 * ((words + 3) \div 4)
<1>1. PICK q \in Int : q = (words + 3) \div 4
  OBVIOUS
<1>2. PICK j \in Int : j = (4 - words) % 4
  OBVIOUS
<1>3. 4 * q <= words + 3 /\ words + 3 < 4 * q + 4
  BY <1>1
<1>4. j \in 0 .. 3
  BY <1>2
<1>5. words + j = 4 * q
  BY <1>1, <1>2, <1>3, <1>4
<1>6. q \in Nat /\ (q = 0 => words = 0)
  BY <1>3
<1>7. (words + 3) \div 4 \in Nat /\ ((words + 3) \div 4 = 0 => words = 0)
  BY <1>1, <1>6, Zenon
<1>10. words = 0 => (4 - words) % 4 = 0
  BY <1>2, <1>4, <1>5, <1>6
<1>8. (4 - words) % 4 \in 0 .. 3
  BY <1>2, <1>4, Zenon
<1>9. words + ((4 - words) % 4) = 4 * ((words + 3) \div 4)
  BY <1>1, <1>2, <1>5, Zenon
<1> QED
  BY <1>7, <1>8, <1>9, <1>10

\* The remainder of a sum or a difference of two places of the FIFO.
LEMMA Around ==
  ASSUME NEW a \in Int, -FIFO_SIF_W <= a, a < 2 * FIFO_SIF_W
  PROVE  a % FIFO_SIF_W = IF a < 0 THEN a + FIFO_SIF_W
                          ELSE IF a < FIFO_SIF_W THEN a ELSE a - FIFO_SIF_W
<1>0. FIFO_SIF_W \in Nat /\ FIFO_SIF_W > 0
  BY Sif0Assumption
<1>1. CASE a < 0
  BY <1>0, <1>1
<1>2. CASE 0 <= a /\ a < FIFO_SIF_W
  BY <1>0, <1>2
<1>3. CASE FIFO_SIF_W <= a
  BY <1>0, <1>3
<1> QED
  BY <1>0, <1>1, <1>2, <1>3

\* Walking on from a place: one step of k + i is a step of k and one of i.
LEMMA TwoSteps ==
  ASSUME NEW r \in Place, NEW k \in Nat, NEW i \in Nat, k + i <= FIFO_SIF_W
  PROVE  /\ (r + k) % FIFO_SIF_W \in Place
         /\ (((r + k) % FIFO_SIF_W) + i) % FIFO_SIF_W = (r + (k + i)) % FIFO_SIF_W
<1>0. FIFO_SIF_W \in Nat /\ FIFO_SIF_W > 0 /\ r \in Nat /\ r < FIFO_SIF_W
  BY Sif0Assumption DEF Place
<1>1. (r + k) % FIFO_SIF_W = IF r + k < FIFO_SIF_W THEN r + k ELSE r + k - FIFO_SIF_W
  BY <1>0, Around
<1>2. (r + (k + i)) % FIFO_SIF_W
        = IF r + (k + i) < FIFO_SIF_W THEN r + (k + i) ELSE r + (k + i) - FIFO_SIF_W
  BY <1>0, Around
<1>3. PICK p \in Nat : p = (r + k) % FIFO_SIF_W /\ p < FIFO_SIF_W
  BY <1>0, <1>1
<1>4. (p + i) % FIFO_SIF_W = IF p + i < FIFO_SIF_W THEN p + i ELSE p + i - FIFO_SIF_W
  BY <1>0, <1>3, Around
<1>5. p \in Place
  BY <1>0, <1>3 DEF Place
<1>6. p = IF r + k < FIFO_SIF_W THEN r + k ELSE r + k - FIFO_SIF_W
  BY <1>1, <1>3
<1>7. (p + i) % FIFO_SIF_W = (r + (k + i)) % FIFO_SIF_W
  BY <1>0, <1>2, <1>4, <1>6
<1> QED
  BY <1>3, <1>5, <1>7

\* How far the place i steps on from r is from the one s steps on.
LEMMA Apart ==
  ASSUME NEW r \in Place, NEW i \in 0 .. FIFO_SIF_W - 1, NEW s \in 0 .. FIFO_SIF_W
  PROVE  (((r + i) % FIFO_SIF_W) - ((r + s) % FIFO_SIF_W)) % FIFO_SIF_W
           = IF i < s THEN i - s + FIFO_SIF_W ELSE i - s
<1>0. FIFO_SIF_W \in Nat /\ FIFO_SIF_W > 0 /\ r \in Nat /\ r < FIFO_SIF_W
  BY Sif0Assumption DEF Place
<1>1. (r + i) % FIFO_SIF_W = IF r + i < FIFO_SIF_W THEN r + i ELSE r + i - FIFO_SIF_W
  BY <1>0, Around
<1>2. (r + s) % FIFO_SIF_W = IF r + s < FIFO_SIF_W THEN r + s ELSE r + s - FIFO_SIF_W
  BY <1>0, Around
<1>3. PICK d \in Int : d = ((r + i) % FIFO_SIF_W) - ((r + s) % FIFO_SIF_W)
  BY <1>0, <1>1, <1>2
<1>4. -FIFO_SIF_W <= d /\ d < FIFO_SIF_W
  BY <1>0, <1>1, <1>2, <1>3
<1>5. d % FIFO_SIF_W = IF d < 0 THEN d + FIFO_SIF_W ELSE d
  <2>1. d < 2 * FIFO_SIF_W
    BY <1>0, <1>4
  <2> QED
    BY <1>4, <2>1, Around
<1>6. d = i - s \/ d = i - s + FIFO_SIF_W \/ d = i - s - FIFO_SIF_W
  BY <1>0, <1>1, <1>2, <1>3
<1>7. d % FIFO_SIF_W = IF i < s THEN i - s + FIFO_SIF_W ELSE i - s
  BY <1>0, <1>4, <1>5, <1>6
<1> QED
  BY <1>3, <1>7

-----------------------------------------------------------------------------
(* The FIFO *)

LEMMA Width == FIFO_SIF_W \in Nat /\ FIFO_SIF_W >= 4 /\ FIFO_SIF_W % 4 = 0
BY Sif0Assumption

\* write keeps the types, as long as it overflows by no more than two words.
LEMMA WriteType ==
  ASSUME TypeOK, NEW n \in Nat, size + n <= FIFO_SIF_W + 2, write(n)
  PROVE  /\ data' \in [Place -> Nat] /\ readPos' \in Place /\ writePos' \in Place
         /\ size' \in 0 .. FIFO_SIF_W + 2 /\ written' \in Nat
         /\ size' = size + n /\ written' = written + n
<1>1. /\ data \in [Place -> Nat] /\ readPos \in Place /\ writePos \in Place
      /\ size \in 0 .. FIFO_SIF_W + 2 /\ written \in Nat
  BY DEF TypeOK
<1>2. /\ size' = size + n /\ written' = written + n /\ readPos' = readPos
      /\ writePos' = (writePos + n) % FIFO_SIF_W
  BY DEF write
<1>3. size' \in 0 .. FIFO_SIF_W + 2 /\ written' \in Nat
  BY <1>1, <1>2, Width
<1>4. writePos' \in Place
  BY <1>1, <1>2, Width DEF Place
<1>5. data' \in [Place -> Nat]
  <2>1. \A p \in Place : (p - writePos) % FIFO_SIF_W \in Nat
    BY <1>1, Width DEF Place
  <2>2. \A p \in Place : written + ((p - writePos) % FIFO_SIF_W) + 1 \in Nat
    BY <1>1, <2>1
  <2> QED
    BY <1>1, <2>2 DEF write
<1> QED
  BY <1>1, <1>2, <1>3, <1>4, <1>5

\* read keeps the types, when the words are there.
LEMMA ReadType ==
  ASSUME TypeOK, NEW n \in Nat, n <= size, read(n)
  PROVE  /\ data' \in [Place -> Nat] /\ readPos' \in Place /\ writePos' \in Place
         /\ size' \in 0 .. FIFO_SIF_W + 2 /\ taken' \in Nat /\ intact' \in BOOLEAN
         /\ size' = size - n /\ taken' = taken + n
<1>1. /\ data \in [Place -> Nat] /\ readPos \in Place /\ writePos \in Place
      /\ size \in 0 .. FIFO_SIF_W + 2 /\ taken \in Nat /\ intact \in BOOLEAN
  BY DEF TypeOK
<1>2. /\ size' = size - n /\ taken' = taken + n /\ data' = data /\ writePos' = writePos
      /\ readPos' = (readPos + n) % FIFO_SIF_W
  BY DEF read
<1>3. size' \in 0 .. FIFO_SIF_W + 2 /\ taken' \in Nat
  BY <1>1, <1>2, Width
<1>4. readPos' \in Place
  BY <1>1, <1>2, Width DEF Place
<1>5. intact' \in BOOLEAN
  BY <1>1 DEF read
<1> QED
  BY <1>1, <1>2, <1>3, <1>4, <1>5

\* Words that fit are put in behind those that are there.
LEMMA WriteFifo ==
  ASSUME TypeOK, InFifo, size = written - taken,
         NEW n \in Nat, size + n <= FIFO_SIF_W, write(n), UNCHANGED taken
  PROVE  InFifo'
<1>1. /\ data \in [Place -> Nat] /\ readPos \in Place /\ writePos \in Place
      /\ size \in Nat /\ written \in Nat /\ taken \in Nat
  BY Width DEF TypeOK
<1>2. /\ size' = size + n /\ readPos' = readPos
      /\ writePos' = (writePos + n) % FIFO_SIF_W
  BY DEF write
<1>3. writePos' = (readPos' + size') % FIFO_SIF_W
  BY <1>1, <1>2, TwoSteps DEF InFifo
<1>4. ASSUME NEW i \in 0 .. size' - 1
      PROVE  data'[(readPos' + i) % FIFO_SIF_W] = taken' + i + 1
  <2>1. i \in Nat /\ i < size + n
    BY <1>1, <1>2
  <2>2. i \in 0 .. FIFO_SIF_W - 1 /\ size \in 0 .. FIFO_SIF_W
    BY <1>1, <2>1, Width
  <2>3. PICK p \in Place : p = (readPos + i) % FIFO_SIF_W
    BY <1>1, <2>1, TwoSteps, Width
  <2>4. (p - writePos) % FIFO_SIF_W = IF i < size THEN i - size + FIFO_SIF_W ELSE i - size
    <3>1. (((readPos + i) % FIFO_SIF_W) - ((readPos + size) % FIFO_SIF_W)) % FIFO_SIF_W
            = IF i < size THEN i - size + FIFO_SIF_W ELSE i - size
      BY <1>1, <2>2, Apart
    <3> QED
      BY <2>3, <3>1, Zenon DEF InFifo
  <2>5. data'[p] = IF (p - writePos) % FIFO_SIF_W < n
                     THEN written + ((p - writePos) % FIFO_SIF_W) + 1 ELSE data[p]
    BY DEF write
  <2>6. CASE i < size
    <3>1. ~((p - writePos) % FIFO_SIF_W < n)
      BY <1>1, <2>1, <2>4, <2>6, Width
    <3>2. data[p] = taken + i + 1
      BY <1>1, <2>1, <2>3, <2>6, SMTT(60) DEF InFifo
    <3> QED
      BY <1>2, <2>3, <2>5, <3>1, <3>2
  <2>7. CASE ~(i < size)
    <3>1. (p - writePos) % FIFO_SIF_W = i - size /\ i - size < n
      BY <1>1, <2>1, <2>4, <2>7
    <3>2. data'[p] = written + (i - size) + 1
      BY <2>5, <3>1
    <3>3. written + (i - size) + 1 = taken + i + 1
      BY <1>1, <2>1
    <3> QED
      BY <1>2, <2>3, <3>2, <3>3
  <2> QED
    BY <2>6, <2>7
<1>5. size' <= FIFO_SIF_W
  BY <1>2
<1> QED
  BY <1>3, <1>4, <1>5 DEF InFifo

\* What is taken is what was there, and the rest stays.
LEMMA ReadFifo ==
  ASSUME TypeOK, InFifo, NEW n \in Nat, n <= size, read(n)
  PROVE  InFifo' /\ (intact => intact')
<1>1. /\ readPos \in Place /\ size \in Nat /\ taken \in Nat
  BY Width DEF TypeOK
<1>2. /\ size' = size - n /\ data' = data /\ writePos' = writePos /\ taken' = taken + n
      /\ readPos' = (readPos + n) % FIFO_SIF_W
  BY DEF read
<1>3. writePos' = (readPos' + size') % FIFO_SIF_W
  <2>1. PICK k \in Nat : k = size - n /\ n + k = size
    BY <1>1
  <2>2. n + k <= FIFO_SIF_W
    BY <2>1 DEF InFifo
  <2> QED
    BY <1>1, <1>2, <2>1, <2>2, TwoSteps DEF InFifo
<1>4. ASSUME NEW i \in 0 .. size' - 1
      PROVE  data'[(readPos' + i) % FIFO_SIF_W] = taken' + i + 1
  <2>1. i \in Nat /\ n + i \in 0 .. size - 1 /\ n + i <= FIFO_SIF_W
    <3>1. size <= FIFO_SIF_W
      BY DEF InFifo
    <3>2. i \in Nat /\ i < size - n
      BY <1>1, <1>2
    <3> QED
      BY <1>1, <3>1, <3>2, Width
  <2>2. data[(readPos + (n + i)) % FIFO_SIF_W] = taken + (n + i) + 1
    BY <2>1 DEF InFifo
  <2>3. (readPos' + i) % FIFO_SIF_W = (readPos + (n + i)) % FIFO_SIF_W
    BY <1>1, <1>2, <2>1, TwoSteps
  <2>4. taken' + i + 1 = taken + (n + i) + 1
    BY <1>1, <1>2, <2>1
  <2> QED
    BY <1>2, <2>2, <2>3, <2>4
<1>5. size' <= FIFO_SIF_W
  BY <1>1, <1>2, Width DEF InFifo
<1>6. intact => intact'
  <2>1. \A i \in 0 .. n - 1 : i \in 0 .. size - 1
    BY <1>1
  <2> QED
    BY <2>1 DEF read, InFifo
<1> QED
  BY <1>3, <1>4, <1>5, <1>6 DEF InFifo

-----------------------------------------------------------------------------
(* The packets *)

LEMMA PacketType ==
  ASSUME TypeOK, NEW n \in 1 .. Len(packets)
  PROVE  /\ packets[n].start \in Nat /\ packets[n].words \in PacketWords
         /\ packets[n].last \in BOOLEAN
         /\ (packets[n].words + 3) \div 4 \in Nat
         /\ (packets[n].words + 3) \div 4 = 0 => packets[n].words = 0
         /\ EndOf(packets[n]) \in Nat
         /\ EndOf(packets[n]) = packets[n].start + 1 + 4 * ((packets[n].words + 3) \div 4)
<1>1. packets[n] \in [start : Nat, words : PacketWords, last : BOOLEAN]
  <2>1. packets \in Seq([start : Nat, words : PacketWords, last : BOOLEAN])
    BY DEF TypeOK
  <2> QED
    BY <2>1, ElementOfSeq
<1>2. /\ packets[n].start \in Nat /\ packets[n].words \in PacketWords
      /\ packets[n].last \in BOOLEAN
  BY <1>1
<1>3. /\ (packets[n].words + 3) \div 4 \in Nat
      /\ (packets[n].words + 3) \div 4 = 0 => packets[n].words = 0
  BY <1>2, Padded, Sif0Assumption
<1>4. EndOf(packets[n]) = packets[n].start + 1 + 4 * ((packets[n].words + 3) \div 4)
  BY DEF EndOf
<1> QED
  BY <1>2, <1>3, <1>4

LEMMA EndType ==
  ASSUME TypeOK, NEW m \in 0 .. Len(packets)
  PROVE  EndPos(m) \in Nat
<1>1. Len(packets) \in Nat
  BY DEF TypeOK
<1>2. CASE m = 0
  BY <1>2 DEF EndPos
<1>3. CASE m # 0
  <2>1. m \in 1 .. Len(packets)
    BY <1>1, <1>3
  <2> QED
    BY <1>3, <2>1, PacketType DEF EndPos
<1> QED
  BY <1>2, <1>3

\* What SIF0Dma puts in for a tag, with room for it.
LEMMA TagWrite ==
  ASSUME TypeOK, SidesInv, ProcessIOPTag
  PROVE  /\ iop.busy /\ iop.counter = 0 /\ iop.writeJunk = 0 /\ size + 2 <= FIFO_SIF_W
         /\ written = EndPos(Len(packets))
         /\ write(2) /\ taken' = taken
         /\ \E words \in PacketWords, end, last \in BOOLEAN :
              /\ iop' = [iop EXCEPT !.counter = words, !.writeJunk = (4 - words) % 4, !.end = end]
              /\ packets' = Append(packets, [start |-> written + 1, words |-> words, last |-> last])
<1>1. /\ iop.counter \in Nat /\ iop.writeJunk \in Nat /\ size \in Nat
      /\ written \in Nat /\ taken \in Nat
  BY Width DEF TypeOK
<1>2. iop.counter = 0
  BY <1>1 DEF ProcessIOPTag
<1>3. iop.writeJunk = 0
  BY <1>2 DEF SidesInv, IOPPlace
<1>4. written = EndPos(Len(packets))
  <2>1. PICK e \in Int : e = EndPos(Len(packets)) /\ written + iop.counter + iop.writeJunk = e
    BY <1>1 DEF SidesInv, IOPPlace
  <2> QED
    BY <1>1, <1>2, <1>3, <2>1
<1>5. iop.busy /\ sif_free > 0
  BY DEF ProcessIOPTag, IOPTurn
<1>6. size + 2 <= FIFO_SIF_W
  <2>1. size < FIFO_SIF_W
    BY <1>1, <1>5, Width DEF sif_free
  <2>2. size = written - taken /\ taken % 2 = 0 /\ written % 2 = 0
    BY <1>1, <1>2, <1>3 DEF SidesInv, Even
  <2>3. size % 2 = 0
    BY <1>1, <2>2
  <2> QED
    BY <1>1, <2>1, <2>3, Width
<1> QED
  BY <1>2, <1>3, <1>4, <1>5, <1>6 DEF ProcessIOPTag

\* What it puts in of a packet: at least a word, and with the padding at most two
\* words too many.
LEMMA DataWrite ==
  ASSUME TypeOK, SidesInv, WriteIOPtoFifo
  PROVE  \E n \in Nat \ {0} :
           /\ write(n) /\ size + n <= FIFO_SIF_W + 2
           /\ overran' = (overran \/ size + n > FIFO_SIF_W)
           /\ iop' \in [busy : BOOLEAN, end : BOOLEAN, counter : Nat, writeJunk : 0 .. 3]
           /\ iop'.busy = iop.busy /\ iop'.end = iop.end
           /\ n + iop'.counter + iop'.writeJunk = iop.counter + iop.writeJunk
           /\ iop'.counter = 0 => iop'.writeJunk = 0
<1> DEFINE w == Lesser(iop.counter, sif_free)
           j == IF iop.counter = w THEN iop.writeJunk ELSE 0
<1>1. /\ iop \in [busy : BOOLEAN, end : BOOLEAN, counter : Nat, writeJunk : 0 .. 3]
      /\ iop.counter \in Nat /\ iop.writeJunk \in 0 .. 3 /\ size \in Nat
      /\ written \in Nat /\ taken \in Nat
  BY Width DEF TypeOK
<1>2. iop.counter > 0 /\ sif_free > 0 /\ sif_free \in Nat /\ size + sif_free = FIFO_SIF_W
  BY <1>1, Width DEF WriteIOPtoFifo, sif_free
<1>3. w \in Nat /\ w > 0 /\ w <= iop.counter /\ size + w <= FIFO_SIF_W
  BY <1>1, <1>2, Width DEF Lesser
<1>4. j \in 0 .. 3 /\ j <= iop.writeJunk
  BY <1>1
<1>5. /\ write(w + j) /\ overran' = (overran \/ size + w + j > FIFO_SIF_W)
      /\ iop' = [iop EXCEPT !.counter = @ - w, !.writeJunk = @ - j]
  BY DEF WriteIOPtoFifo
<1>6. /\ iop'.counter = iop.counter - w /\ iop'.writeJunk = iop.writeJunk - j
      /\ iop'.busy = iop.busy /\ iop'.end = iop.end
      /\ iop' = [busy |-> iop.busy, end |-> iop.end,
                 counter |-> iop.counter - w, writeJunk |-> iop.writeJunk - j]
  BY <1>1, <1>5
<1>7. iop.counter - w = 0 => iop.writeJunk - j = 0
  BY <1>1, <1>3
<1>8. size + w + j <= FIFO_SIF_W + 2
  <2>1. CASE j = 0
    BY <1>1, <1>3, <2>1, Width
  <2>2. CASE j # 0
    <3>1. w = iop.counter /\ j = iop.writeJunk
      BY <2>2
    <3>2. size = written - taken /\ taken % 2 = 0 /\ (written + iop.counter + iop.writeJunk) % 2 = 0
      BY DEF SidesInv, Even
    <3>3. (written + w + j) % 2 = 0
      BY <3>1, <3>2
    <3> HIDE DEF w, j
    <3>4. (size + w + j) % 2 = 0
      BY <1>1, <1>3, <1>4, <3>2, <3>3
    <3> QED
      BY <1>1, <1>3, <1>4, <3>4, Width
  <2> QED
    BY <2>1, <2>2
<1> HIDE DEF w, j
<1>9. PICK n \in Nat \ {0} : n = w + j
  BY <1>3, <1>4
<1>10. /\ write(n) /\ size + n <= FIFO_SIF_W + 2
       /\ overran' = (overran \/ size + n > FIFO_SIF_W)
  <2>1. size + w + j = size + n
    BY <1>1, <1>3, <1>4, <1>9
  <2> QED
    BY <1>5, <1>8, <1>9, <2>1
<1>11. n + iop'.counter + iop'.writeJunk = iop.counter + iop.writeJunk
  BY <1>1, <1>3, <1>4, <1>6, <1>9
<1>12. iop' \in [busy : BOOLEAN, end : BOOLEAN, counter : Nat, writeJunk : 0 .. 3]
  <2>1. iop.counter - w \in Nat /\ iop.writeJunk - j \in 0 .. 3
    BY <1>1, <1>3, <1>4
  <2>2. iop.busy \in BOOLEAN /\ iop.end \in BOOLEAN
    BY <1>1
  <2> QED
    BY <1>6, <2>1, <2>2
<1>13. iop'.counter = 0 => iop'.writeJunk = 0
  BY <1>6, <1>7
<1> QED
  BY <1>6, <1>10, <1>11, <1>12, <1>13

\* What it takes of a packet: whole quadwords that are there.
LEMMA DataRead ==
  ASSUME TypeOK, WriteFifoToEE
  PROVE  \E k \in Nat :
           /\ read(4 * k) /\ 4 * k <= size /\ k <= qwc /\ qwc' = qwc - k
           /\ qwc' > 0 => size - 4 * k < 4
<1> DEFINE k == Lesser(qwc, size \div 4)
<1>1. size \in Nat /\ qwc \in Nat
  BY Width DEF TypeOK
<1>2. PICK d \in Nat : d = size \div 4 /\ 4 * d <= size /\ size < 4 * d + 4
  <2>1. size \div 4 \in Nat /\ 4 * (size \div 4) <= size /\ size < 4 * (size \div 4) + 4
    BY <1>1
  <2> QED
    BY <2>1
<1>3. k \in Nat /\ 4 * k <= size /\ k <= qwc /\ (qwc - k > 0 => size - 4 * k < 4)
  BY <1>1, <1>2 DEF Lesser
<1>4. read(4 * k) /\ qwc' = qwc - k
  BY DEF WriteFifoToEE
<1> HIDE DEF k
<1> QED
  BY <1>3, <1>4

-----------------------------------------------------------------------------
(* Types *)

LEMMA InitType == Init => TypeOK
<1> SUFFICES ASSUME Init PROVE TypeOK
  OBVIOUS
<1>1. 0 \in Place /\ data \in [Place -> Nat] /\ size \in 0 .. FIFO_SIF_W + 2
  BY Width DEF Init, Place
<1>2. packets \in Seq([start : Nat, words : PacketWords, last : BOOLEAN])
  BY EmptySeq DEF Init
<1> QED
  BY <1>1, <1>2 DEF Init, TypeOK

LEMMA TypeStep ==
  ASSUME TypeOK, SidesInv, [Next]_vars
  PROVE  TypeOK'
<1> DEFINE Pkt == [start : Nat, words : PacketWords, last : BOOLEAN]
           IOP == [busy : BOOLEAN, end : BOOLEAN, counter : Nat, writeJunk : 0 .. 3]
           EE == [busy : BOOLEAN, end : BOOLEAN]
           Flags == /\ STR \in BOOLEAN /\ TR \in BOOLEAN /\ eeInt \in BOOLEAN /\ iopInt \in BOOLEAN
                    /\ enabled \in BOOLEAN /\ queued \in BOOLEAN
           Calling == /\ pc \in {"idle", "iop", "ee", "eeData", "wild"}
                      /\ BusyCheck \in BOOLEAN
<1>1. CASE EndIOP
  BY <1>1, ZenonT(60) DEF TypeOK, EndIOP, IOPDone, fifo, eech, dmac, hist
<1>2. CASE ProcessIOPTag
  <2>1. PICK words \in PacketWords, end \in BOOLEAN, last \in BOOLEAN :
          /\ iop' = [iop EXCEPT !.counter = words, !.writeJunk = (4 - words) % 4, !.end = end]
          /\ packets' = Append(packets, [start |-> written + 1, words |-> words, last |-> last])
    BY <1>2, TagWrite
  <2>2. size + 2 <= FIFO_SIF_W + 2 /\ write(2)
    <3>1. size + 2 <= FIFO_SIF_W /\ write(2)
      BY <1>2, TagWrite
    <3>2. size \in Nat
      BY Width DEF TypeOK
    <3> QED
      BY <3>1, <3>2, Width
  <2>3. /\ data' \in [Place -> Nat] /\ readPos' \in Place /\ writePos' \in Place
        /\ size' \in 0 .. FIFO_SIF_W + 2 /\ written' \in Nat
    BY <2>2, WriteType
  <2>4. words \in Nat /\ (4 - words) % 4 \in 0 .. 3
    BY Padded, Sif0Assumption
  <2>5. iop' \in IOP
    BY <2>1, <2>4 DEF TypeOK
  <2>6. packets' \in Seq(Pkt)
    <3>1. [start |-> written + 1, words |-> words, last |-> last] \in Pkt
      BY DEF TypeOK
    <3>2. packets \in Seq(Pkt)
      BY DEF TypeOK
    <3> QED
      BY <2>1, <3>1, <3>2, AppendProperties
  <2>7. Calling' /\ UNCHANGED <<TR, eech, dmac, int, taken, intact, overran>>
    BY <1>2 DEF ProcessIOPTag, IOPDone
  <2>8. qwc' \in Nat /\ ee' \in EE /\ taken' \in Nat /\ intact' \in BOOLEAN /\ overran' \in BOOLEAN
    BY <2>7 DEF TypeOK, eech
  <2>9. Flags'
    BY <2>7 DEF TypeOK, eech, dmac, int
  <2> QED
    BY <2>3, <2>5, <2>6, <2>7, <2>8, <2>9 DEF TypeOK
<1>3. CASE WriteIOPtoFifo
  <2>1. PICK n \in Nat \ {0} :
          /\ write(n) /\ size + n <= FIFO_SIF_W + 2
          /\ overran' = (overran \/ size + n > FIFO_SIF_W)
          /\ iop' \in IOP
    BY <1>3, DataWrite
  <2>3. /\ data' \in [Place -> Nat] /\ readPos' \in Place /\ writePos' \in Place
        /\ size' \in 0 .. FIFO_SIF_W + 2 /\ written' \in Nat
    BY <2>1, WriteType
  <2>7. Calling' /\ UNCHANGED <<TR, eech, dmac, int, packets, taken, intact>>
    BY <1>3 DEF WriteIOPtoFifo, IOPDone
  <2>8. /\ qwc' \in Nat /\ ee' \in EE /\ taken' \in Nat /\ intact' \in BOOLEAN
        /\ packets' \in Seq(Pkt)
    BY <2>7 DEF TypeOK, eech
  <2>9. Flags'
    BY <2>7 DEF TypeOK, eech, dmac, int
  <2>10. overran' \in BOOLEAN
    BY <2>1 DEF TypeOK
  <2> QED
    BY <2>1, <2>3, <2>7, <2>8, <2>9, <2>10 DEF TypeOK
<1>4. CASE IOPSkip
  BY <1>4, ZenonT(60) DEF TypeOK, IOPSkip, fifo, eech, dmac, int, hist
<1>5. CASE EEStopped
  BY <1>5, ZenonT(60) DEF TypeOK, EEStopped, fifo, dmac, int, hist
<1>6. CASE EndEE
  BY <1>6, ZenonT(60) DEF TypeOK, EndEE, fifo, dmac, hist
<1>7. CASE ProcessEETag
  <2>1. size \in Nat /\ 2 <= size /\ read(2)
    BY <1>7, Width DEF TypeOK, ProcessEETag
  <2>2. /\ data' \in [Place -> Nat] /\ readPos' \in Place /\ writePos' \in Place
        /\ size' \in 0 .. FIFO_SIF_W + 2 /\ taken' \in Nat /\ intact' \in BOOLEAN
    BY <2>1, ReadType
  <2>3. UNCHANGED <<iop, TR, STR, dmac, int, BusyCheck, packets, written, overran>>
    BY <1>7 DEF ProcessEETag
  <2>4. Flags' /\ iop' \in IOP /\ packets' \in Seq(Pkt) /\ written' \in Nat /\ overran' \in BOOLEAN
    BY <2>3 DEF TypeOK, dmac, int
  <2>5. Calling'
    BY <1>7, <2>3 DEF ProcessEETag, TypeOK
  <2>6. qwc' \in Nat /\ ee' \in EE
    <3>1. CASE UNCHANGED <<ee, qwc>>
      BY <3>1 DEF TypeOK
    <3>2. CASE \E n \in 1 .. Len(packets) :
                 /\ qwc' = (packets[n].words + 3) \div 4
                 /\ ee' = [ee EXCEPT !.end = packets[n].last]
      <4>1. PICK n \in 1 .. Len(packets) :
                 /\ qwc' = (packets[n].words + 3) \div 4
                 /\ ee' = [ee EXCEPT !.end = packets[n].last]
        BY <3>2
      <4>2. (packets[n].words + 3) \div 4 \in Nat /\ packets[n].last \in BOOLEAN
        BY PacketType
      <4> QED
        BY <4>1, <4>2 DEF TypeOK
    <3> QED
      BY <1>7, <3>1, <3>2 DEF ProcessEETag
  <2> QED
    BY <2>2, <2>4, <2>5, <2>6 DEF TypeOK
<1>8. CASE WriteFifoToEE
  <2>1. PICK k \in Nat : read(4 * k) /\ 4 * k <= size /\ k <= qwc /\ qwc' = qwc - k
    BY <1>8, DataRead
  <2>2. /\ data' \in [Place -> Nat] /\ readPos' \in Place /\ writePos' \in Place
        /\ size' \in 0 .. FIFO_SIF_W + 2 /\ taken' \in Nat /\ intact' \in BOOLEAN
    BY <2>1, ReadType
  <2>3. Calling' /\ UNCHANGED <<iop, TR, ee, STR, dmac, int, packets, written, overran>>
    BY <1>8 DEF WriteFifoToEE, TypeOK
  <2>4. Flags' /\ iop' \in IOP /\ packets' \in Seq(Pkt) /\ written' \in Nat /\ overran' \in BOOLEAN
    BY <2>3 DEF TypeOK, dmac, int
  <2>5. qwc' \in Nat /\ ee' \in EE
    BY <2>1, <2>3 DEF TypeOK
  <2> QED
    BY <2>2, <2>3, <2>4, <2>5 DEF TypeOK
<1>9. CASE BusError
  BY <1>9, ZenonT(60) DEF TypeOK, BusError, fifo, dmac, int, hist
<1>10. CASE EESkip
  BY <1>10, ZenonT(60) DEF TypeOK, EESkip, fifo, eech, dmac, int, hist
<1>11. CASE psxDma9
  BY <1>11, ZenonT(60) DEF TypeOK, psxDma9, fifo, eech, dmac, int, hist
<1>12. CASE sif0Interrupt
  BY <1>12, ZenonT(60) DEF TypeOK, sif0Interrupt, fifo, eech, dmac, hist
<1>13. CASE DmaExec
  <2>1. ee' \in EE /\ pc' \in {"idle", "iop"} /\ queued' \in BOOLEAN /\ STR' \in BOOLEAN
    <3>1. pc = "idle" /\ ee \in EE /\ queued \in BOOLEAN /\ STR' \in BOOLEAN
      BY <1>13, Zenon DEF TypeOK, DmaExec
    <3>2. CASE dmaSIF0 /\ UNCHANGED queued
      BY <3>1, <3>2, Zenon DEF dmaSIF0
    <3>3. CASE queued' = TRUE /\ UNCHANGED <<ee, pc>>
      BY <3>1, <3>3, Zenon
    <3> QED
      BY <1>13, <3>1, <3>2, <3>3, Zenon DEF DmaExec
  <2>2. UNCHANGED <<fifo, iop, TR, qwc, enabled, int, BusyCheck, hist>>
    BY <1>13 DEF DmaExec
  <2>3. Flags' /\ Calling'
    BY <2>1, <2>2 DEF TypeOK, int
  <2>4. /\ data' \in [Place -> Nat] /\ readPos' \in Place /\ writePos' \in Place
        /\ size' \in 0 .. FIFO_SIF_W + 2 /\ iop' \in IOP /\ qwc' \in Nat
    BY <2>2 DEF TypeOK, fifo
  <2>5. /\ packets' \in Seq(Pkt) /\ written' \in Nat /\ taken' \in Nat
        /\ intact' \in BOOLEAN /\ overran' \in BOOLEAN
    BY <2>2 DEF TypeOK, hist
  <2> QED
    BY <2>1, <2>3, <2>4, <2>5 DEF TypeOK
<1>17. CASE EnableDMAC
  <2>1. ee' \in EE /\ pc' \in {"idle", "iop"} /\ queued' \in BOOLEAN /\ enabled' \in BOOLEAN
    <3>1. pc = "idle" /\ ee \in EE /\ queued \in BOOLEAN /\ enabled' \in BOOLEAN
      BY <1>17, Zenon DEF TypeOK, EnableDMAC
    <3>2. CASE dmaSIF0 /\ queued' = FALSE
      BY <3>1, <3>2, Zenon DEF dmaSIF0
    <3>3. CASE UNCHANGED <<queued, ee, pc>>
      BY <3>1, <3>3, Zenon
    <3> QED
      BY <1>17, <3>1, <3>2, <3>3, Zenon DEF EnableDMAC
  <2>2. UNCHANGED <<fifo, iop, TR, qwc, STR, int, BusyCheck, hist>>
    BY <1>17 DEF EnableDMAC
  <2>3. Flags' /\ Calling'
    BY <2>1, <2>2 DEF TypeOK, int
  <2>4. /\ data' \in [Place -> Nat] /\ readPos' \in Place /\ writePos' \in Place
        /\ size' \in 0 .. FIFO_SIF_W + 2 /\ iop' \in IOP /\ qwc' \in Nat
    BY <2>2 DEF TypeOK, fifo
  <2>5. /\ packets' \in Seq(Pkt) /\ written' \in Nat /\ taken' \in Nat
        /\ intact' \in BOOLEAN /\ overran' \in BOOLEAN
    BY <2>2 DEF TypeOK, hist
  <2> QED
    BY <2>1, <2>3, <2>4, <2>5 DEF TypeOK
<1>18. CASE DisableDMAC
  BY <1>18, ZenonT(60) DEF TypeOK, DisableDMAC, fifo, eech, int, hist
<1>14. CASE ForceStop
  BY <1>14, ZenonT(60) DEF TypeOK, ForceStop, fifo, hist
<1>15. CASE EEsif0Interrupt
  BY <1>15, ZenonT(60) DEF TypeOK, EEsif0Interrupt, fifo, dmac, hist
<1>16. CASE UNCHANGED vars
  BY <1>16, SMTT(60) DEF TypeOK, vars, fifo, eech, dmac, int, hist
<1> QED
  BY <1>1, <1>2, <1>3, <1>4, <1>5, <1>6, <1>7, <1>8, <1>9, <1>10, <1>11, <1>12, <1>13,
     <1>14, <1>15, <1>16, <1>17, <1>18
     DEF Next, SIF0Dma, HandleIOPTransfer, HandleEETransfer, IOPStep, EEStep

-----------------------------------------------------------------------------
(* The places of the two sides *)

LEMMA QuietSides ==
  ASSUME SidesInv, UNCHANGED <<size, packets, written, taken>>,
         iop'.counter = iop.counter, iop'.writeJunk = iop.writeJunk,
         ~iop'.busy => ~iop.busy \/ iop.counter = 0
  PROVE  Chain' /\ IOPPlace' /\ Even'
<1>1. Chain'
  BY DEF SidesInv, Chain, EndPos, EndOf
<1>2. IOPPlace'
  BY DEF SidesInv, IOPPlace, EndPos, EndOf
<1>3. Even'
  BY DEF SidesInv, Even
<1> QED
  BY <1>1, <1>2, <1>3

\* A packet is added at the end of the stream.
LEMMA NewPacket ==
  ASSUME TypeOK, SidesInv, ProcessIOPTag
  PROVE  /\ Len(packets') = Len(packets) + 1
         /\ \A n \in 1 .. Len(packets) : packets'[n] = packets[n]
         /\ \A m \in 0 .. Len(packets) : EndPos(m)' = EndPos(m)
         /\ packets'[Len(packets) + 1].start = written + 1
         /\ EndPos(Len(packets))' = written + 2 + iop'.counter + iop'.writeJunk
         /\ (iop'.counter + iop'.writeJunk) % 4 = 0
         /\ iop'.counter \in Nat /\ iop'.writeJunk \in Nat /\ iop'.busy
         /\ iop'.counter = 0 => iop'.writeJunk = 0
<1>1. PICK words \in PacketWords, end \in BOOLEAN, last \in BOOLEAN :
        /\ iop' = [iop EXCEPT !.counter = words, !.writeJunk = (4 - words) % 4, !.end = end]
        /\ packets' = Append(packets, [start |-> written + 1, words |-> words, last |-> last])
  BY TagWrite
<1> DEFINE new == [start |-> written + 1, words |-> words, last |-> last]
<1>2. PICK L \in Nat : L = Len(packets)
  BY DEF TypeOK
<1>3. /\ Len(packets') = L + 1 /\ packets'[L + 1] = new
      /\ \A n \in 1 .. L : packets'[n] = packets[n]
  BY <1>1, <1>2 DEF TypeOK
<1>4. \A m \in 0 .. L : EndPos(m)' = EndPos(m)
  <2>1. ASSUME NEW m \in 0 .. L PROVE EndPos(m)' = EndPos(m)
    <3>1. m # 0 => packets'[m] = packets[m]
      BY <1>2, <1>3
    <3> QED
      BY <3>1 DEF EndPos, EndOf
  <2> QED
    BY <2>1
<1>5. new.start = written + 1 /\ new.words = words
  OBVIOUS
<1>6. words \in Nat /\ written \in Nat
  BY Sif0Assumption DEF TypeOK
<1>7. PICK q \in Nat, j \in 0 .. 3 :
        /\ q = (words + 3) \div 4 /\ j = (4 - words) % 4 /\ words + j = 4 * q
        /\ words = 0 => j = 0
  BY <1>6, Padded
<1>8. EndPos(L + 1)' = written + 1 + 1 + 4 * q
  <2>1. L + 1 # 0
    BY <1>2
  <2>2. EndPos(L + 1)' = packets'[L + 1].start + 1 + 4 * ((packets'[L + 1].words + 3) \div 4)
    BY <2>1 DEF EndPos, EndOf
  <2> HIDE DEF new
  <2> QED
    BY <1>3, <1>5, <1>7, <2>2
<1>9. iop'.counter = words /\ iop'.writeJunk = j /\ iop'.busy = iop.busy
  BY <1>1, <1>7 DEF TypeOK
<1>10. iop.busy
  BY TagWrite
<1>11. EndPos(L + 1)' = written + 2 + words + j /\ (words + j) % 4 = 0
  <2>1. written + 1 + 1 + 4 * q = written + 2 + words + j
    BY <1>6, <1>7
  <2>2. (words + j) % 4 = 0
    BY <1>6, <1>7
  <2> QED
    BY <1>8, <2>1, <2>2
<1>12. /\ EndPos(L + 1)' = written + 2 + iop'.counter + iop'.writeJunk
       /\ (iop'.counter + iop'.writeJunk) % 4 = 0
  BY <1>9, <1>11
<1>13. /\ iop'.counter \in Nat /\ iop'.writeJunk \in Nat /\ iop'.busy
       /\ iop'.counter = 0 => iop'.writeJunk = 0
  BY <1>6, <1>7, <1>9, <1>10, SMTT(60)
<1>14. packets'[L + 1].start = written + 1
  BY <1>3, <1>5
<1>15. EndPos(Len(packets))' = written + 2 + iop'.counter + iop'.writeJunk
  <2>1. EndPos(Len(packets))' = EndPos(L + 1)'
    BY <1>3 DEF EndPos
  <2> QED
    BY <1>12, <2>1
<1> HIDE DEF new
<1> QED
  BY <1>2, <1>3, <1>4, <1>12, <1>13, <1>14, <1>15

LEMMA SidesStep ==
  ASSUME TypeOK, SidesInv, [Next]_vars
  PROVE  Chain' /\ IOPPlace' /\ Even'
<1> USE DEF hist, fifo
<1>0. /\ iop.counter \in Nat /\ iop.writeJunk \in Nat /\ size \in Nat
      /\ written \in Nat /\ taken \in Nat
      /\ iop \in [busy : BOOLEAN, end : BOOLEAN, counter : Nat, writeJunk : 0 .. 3]
  BY Width DEF TypeOK
<1>1. CASE EndIOP
  <2>1. /\ iop'.counter = iop.counter /\ iop'.writeJunk = iop.writeJunk /\ iop.counter = 0
        /\ UNCHANGED <<size, packets, written, taken>>
    BY <1>0, <1>1 DEF EndIOP
  <2> QED
    BY <2>1, QuietSides
<1>2. CASE ProcessIOPTag
  <2>1. PICK L \in Nat : L = Len(packets)
    BY DEF TypeOK
  <2>2. written = EndPos(L) /\ iop.counter = 0 /\ iop.writeJunk = 0 /\ taken' = taken /\ write(2)
    BY <1>2, <2>1, TagWrite
  <2>3. PICK c \in Nat, j \in Nat : /\ c = iop'.counter /\ j = iop'.writeJunk
                                    /\ (c + j) % 4 = 0 /\ (c = 0 => j = 0)
    BY <1>2, NewPacket
  <2>4. /\ Len(packets') = L + 1 /\ packets'[L + 1].start = EndPos(L) + 1
        /\ \A n \in 1 .. L : packets'[n] = packets[n]
        /\ \A m \in 0 .. L : EndPos(m)' = EndPos(m)
        /\ EndPos(L + 1)' = written + 2 + c + j /\ iop'.busy
    <3>1. /\ Len(packets') = L + 1 /\ packets'[L + 1].start = written + 1
          /\ \A n \in 1 .. L : packets'[n] = packets[n]
          /\ \A m \in 0 .. L : EndPos(m)' = EndPos(m)
          /\ EndPos(L + 1)' = written + 2 + iop'.counter + iop'.writeJunk /\ iop'.busy
      <4>1. EndPos(Len(packets))' = written + 2 + iop'.counter + iop'.writeJunk
        BY <1>2, NewPacket
      <4>2. Len(packets') = L + 1
        BY <1>2, <2>1, NewPacket
      <4>3. EndPos(Len(packets))' = EndPos(L + 1)'
        BY <4>2 DEF EndPos
      <4> QED
        BY <1>2, <2>1, <4>1, <4>2, <4>3, NewPacket
    <3> QED
      BY <2>2, <2>3, <3>1
  <2>5. written' = written + 2 /\ size' = size + 2
    BY <2>2 DEF write
  <2>6. \A m \in 0 .. L : EndPos(m) \in Nat
    BY <2>1, EndType
  <2>7. Chain'
    <3>1. ASSUME NEW n \in 1 .. L + 1 PROVE packets'[n].start = EndPos(n - 1)' + 1
      <4>1. CASE n = L + 1
        <5>1. n - 1 = L /\ L \in 0 .. L
          BY <4>1
        <5> QED
          BY <2>4, <4>1, <5>1
      <4>2. CASE n # L + 1
        <5>1. n \in 1 .. L /\ n - 1 \in 0 .. L
          BY <4>2
        <5>2. packets[n].start = EndPos(n - 1) + 1
          BY <2>1, <5>1 DEF SidesInv, Chain
        <5> QED
          BY <2>4, <5>1, <5>2
      <4> QED
        BY <4>1, <4>2
    <3>2. ASSUME NEW m \in 0 .. L + 1, NEW n \in 0 .. L + 1, m < n
          PROVE  EndPos(m)' + 2 <= EndPos(n)'
      <4>1. m \in 0 .. L
        BY <2>1, <3>2
      <4>2. CASE n = L + 1
        <5>1. EndPos(m) <= EndPos(L)
          <6>1. CASE m = L
            BY <2>1, <2>6, <6>1
          <6>2. CASE m # L
            <7>1. m < L /\ L \in 0 .. L
              BY <2>1, <4>1, <6>2
            <7>2. EndPos(m) + 2 <= EndPos(L)
              BY <2>1, <4>1, <7>1 DEF SidesInv, Chain
            <7> QED
              BY <2>6, <4>1, <7>1, <7>2
          <6> QED
            BY <6>1, <6>2
        <5>2. PICK a \in Nat : a = EndPos(m)
          BY <2>6, <4>1
        <5>3. EndPos(m)' = a
          BY <2>4, <4>1, <5>2
        <5>4. a <= written
          BY <2>2, <5>1, <5>2
        <5>5. a + 2 <= written + 2 + c + j
          BY <1>0, <2>3, <5>4
        <5> QED
          BY <2>4, <4>2, <5>3, <5>5
      <4>3. CASE n # L + 1
        <5>1. n \in 0 .. L
          BY <4>3
        <5>2. EndPos(m) + 2 <= EndPos(n)
          BY <2>1, <3>2, <4>1, <5>1 DEF SidesInv, Chain
        <5> QED
          BY <2>4, <4>1, <5>1, <5>2
      <4> QED
        BY <4>2, <4>3
    <3>3. \A n \in 1 .. L + 1 : packets'[n].start = EndPos(n - 1)' + 1
      BY <3>1
    <3>4. \A m \in 0 .. L + 1, n \in 0 .. L + 1 : m < n => EndPos(m)' + 2 <= EndPos(n)'
      BY <3>2
    <3> QED
      BY <2>4, <3>3, <3>4 DEF Chain
  <2>8. IOPPlace'
    <3>1. written' + c + j = written + 2 + c + j
      BY <2>5
    <3> QED
      BY <2>3, <2>4, <3>1 DEF IOPPlace
  <2>9. Even'
    <3>1. size = written - taken /\ taken % 2 = 0 /\ written % 2 = 0
      BY <1>0, <2>2 DEF SidesInv, Even
    <3>2. size' = written' - taken'
      BY <1>0, <2>2, <2>5, <3>1
    <3>3. (c + j) % 2 = 0
      BY <2>3
    <3>4. (written' + c + j) % 2 = 0
      BY <1>0, <2>3, <2>5, <3>1, <3>3
    <3> QED
      BY <2>2, <2>3, <3>1, <3>2, <3>4 DEF Even
  <2> QED
    BY <2>7, <2>8, <2>9
<1>3. CASE WriteIOPtoFifo
  <2>1. PICK n \in Nat \ {0} :
           /\ write(n)
           /\ iop'.counter \in Nat /\ iop'.writeJunk \in Nat
           /\ iop'.busy = iop.busy
           /\ n + iop'.counter + iop'.writeJunk = iop.counter + iop.writeJunk
           /\ iop'.counter = 0 => iop'.writeJunk = 0
    <3>1. \A x \in 0 .. 3 : x \in Nat
      OBVIOUS
    <3> QED
      BY <1>3, <3>1, DataWrite
  <2>2. UNCHANGED <<packets, taken>> /\ written' = written + n /\ size' = size + n
    BY <1>3, <2>1 DEF WriteIOPtoFifo, write
  <2>3. written' + iop'.counter + iop'.writeJunk = written + iop.counter + iop.writeJunk
    BY <1>0, <2>1, <2>2
  <2>4. Chain'
    BY <2>2 DEF SidesInv, Chain, EndPos, EndOf
  <2>5. EndPos(Len(packets))' = EndPos(Len(packets))
    BY <2>2 DEF EndPos, EndOf
  <2>6. iop.counter > 0 /\ iop.busy
    BY <1>3 DEF WriteIOPtoFifo, IOPTurn
  <2>7. IOPPlace'
    BY <2>1, <2>3, <2>5, <2>6 DEF SidesInv, IOPPlace
  <2>8. size' = written' - taken'
    BY <1>0, <2>2 DEF SidesInv, Even
  <2>9. Even'
    BY <2>2, <2>3, <2>8 DEF SidesInv, Even
  <2> QED
    BY <2>4, <2>7, <2>9
<1>4. CASE IOPSkip
  BY <1>4, QuietSides DEF IOPSkip
<1>5. CASE EEStopped
  BY <1>5, QuietSides DEF EEStopped
<1>6. CASE EndEE
  BY <1>6, QuietSides DEF EndEE
<1>7. ASSUME NEW k \in Nat, k % 2 = 0, read(k), UNCHANGED <<iop, packets, written>>
      PROVE  Chain' /\ IOPPlace' /\ Even'
  <2>1. Chain'
    BY <1>7 DEF SidesInv, Chain, EndPos, EndOf
  <2>2. IOPPlace'
    BY <1>7 DEF SidesInv, IOPPlace, EndPos, EndOf
  <2>3. size' = size - k /\ taken' = taken + k
    BY <1>7 DEF read
  <2>4. size = written - taken /\ taken % 2 = 0
    BY DEF SidesInv, Even
  <2>5. size' = written' - taken' /\ taken' % 2 = 0
    BY <1>0, <1>7, <2>3, <2>4
  <2>6. Even'
    BY <1>7, <2>5 DEF SidesInv, Even
  <2> QED
    BY <2>1, <2>2, <2>6
<1>8. CASE ProcessEETag
  BY <1>7, <1>8 DEF ProcessEETag
<1>9. CASE WriteFifoToEE
  <2>1. PICK k \in Nat : read(4 * k)
    BY <1>9, DataRead
  <2>2. 4 * k \in Nat /\ (4 * k) % 2 = 0
    OBVIOUS
  <2> QED
    BY <1>7, <1>9, <2>1, <2>2 DEF WriteFifoToEE
<1>10. CASE BusError
  BY <1>10, QuietSides DEF BusError
<1>11. CASE EESkip
  BY <1>11, QuietSides DEF EESkip
<1>12. CASE psxDma9
  <2>1. iop'.counter = iop.counter /\ iop'.writeJunk = iop.writeJunk /\ iop'.busy
    BY <1>0, <1>12 DEF psxDma9
  <2> QED
    BY <1>12, <2>1, QuietSides DEF psxDma9
<1>13. CASE sif0Interrupt
  BY <1>13, QuietSides DEF sif0Interrupt
<1>14. CASE DmaExec
  BY <1>14, QuietSides DEF DmaExec
<1>18. CASE EnableDMAC
  BY <1>18, QuietSides DEF EnableDMAC
<1>19. CASE DisableDMAC
  BY <1>19, QuietSides DEF DisableDMAC
<1>15. CASE ForceStop
  BY <1>15, QuietSides DEF ForceStop
<1>16. CASE EEsif0Interrupt
  BY <1>16, QuietSides DEF EEsif0Interrupt
<1>17. CASE UNCHANGED vars
  BY <1>17, QuietSides DEF vars
<1> QED
  BY <1>1, <1>2, <1>3, <1>4, <1>5, <1>6, <1>8, <1>9, <1>10, <1>11, <1>12, <1>13,
     <1>14, <1>15, <1>16, <1>17, <1>18, <1>19
     DEF Next, SIF0Dma, HandleIOPTransfer, HandleEETransfer, IOPStep, EEStep

LEMMA CallsStep ==
  ASSUME TypeOK, SidesInv, [Next]_vars
  PROVE  Calls'
<1> USE DEF Calls, int, eech, dmac
<1>0. Calls /\ ee \in [busy : BOOLEAN, end : BOOLEAN] /\ qwc \in Nat
  BY DEF TypeOK, SidesInv
<1>1. CASE EndIOP
  BY <1>0, <1>1 DEF EndIOP, IOPDone
<1>2. CASE ProcessIOPTag
  BY <1>0, <1>2 DEF ProcessIOPTag, IOPDone
<1>3. CASE WriteIOPtoFifo
  BY <1>0, <1>3 DEF WriteIOPtoFifo, IOPDone
<1>4. CASE IOPSkip
  BY <1>0, <1>4 DEF IOPSkip, IOPTurn, fifo, sif_free
<1>5. CASE EEStopped
  BY <1>0, <1>5 DEF EEStopped, EETurn
<1>6. CASE EndEE
  BY <1>0, <1>6 DEF EndEE, EETurn
<1>7. CASE ProcessEETag
  <2>1. /\ EETurn /\ STR /\ UNCHANGED <<STR, dmac, int>>
        /\ pc' \in {"wild", "eeData", "iop"} /\ (pc' = "eeData" => qwc' > 0)
    BY <1>7 DEF ProcessEETag
  <2>2. ee'.busy = ee.busy
    BY <1>0, <1>7 DEF ProcessEETag
  <2> QED
    BY <1>0, <2>1, <2>2 DEF EETurn
<1>8. CASE WriteFifoToEE
  BY <1>0, <1>8 DEF WriteFifoToEE, EETurn
<1>9. CASE BusError
  BY <1>0, <1>9 DEF BusError, EETurn
<1>10. CASE EESkip
  BY <1>0, <1>10 DEF EESkip
<1>11. CASE psxDma9
  BY <1>0, <1>11 DEF psxDma9
<1>12. CASE sif0Interrupt
  BY <1>0, <1>12 DEF sif0Interrupt
<1>13. CASE DmaExec
  BY <1>0, <1>13 DEF DmaExec, dmaSIF0
<1>17. CASE EnableDMAC
  BY <1>0, <1>17 DEF EnableDMAC, dmaSIF0
<1>18. CASE DisableDMAC
  BY <1>0, <1>18 DEF DisableDMAC
<1>14. CASE ForceStop
  BY <1>0, <1>14 DEF ForceStop
<1>15. CASE EEsif0Interrupt
  BY <1>0, <1>15 DEF EEsif0Interrupt
<1>16. CASE UNCHANGED vars
  BY <1>0, <1>16 DEF vars, fifo, sif_free
<1> QED
  BY <1>1, <1>2, <1>3, <1>4, <1>5, <1>6, <1>7, <1>8, <1>9, <1>10, <1>11, <1>12, <1>13,
     <1>14, <1>15, <1>16, <1>17, <1>18
     DEF Next, SIF0Dma, HandleIOPTransfer, HandleEETransfer, IOPStep, EEStep

-----------------------------------------------------------------------------
(* The stream *)

LEMMA QuietStream ==
  ASSUME StreamInv, UNCHANGED <<fifo, hist, qwc>>,
         ee'.end => ee.end, pc' # "wild"
  PROVE  StreamInv'
<1> SUFFICES ASSUME ~overran' PROVE EEPlace' /\ InFifo' /\ intact'
  BY DEF StreamInv
<1>1. EEPlace /\ InFifo /\ intact
  BY DEF StreamInv, hist
<1>2. EEPlace'
  <2>1. PICK m \in 0 .. Len(packets) : EEAt(m)
    BY <1>1 DEF EEPlace
  <2>2. EEAt(m)'
    BY <2>1 DEF EEAt, EndPos, EndOf, hist
  <2> QED
    BY <2>2 DEF EEPlace, hist
<1>3. InFifo'
  BY <1>1 DEF InFifo, fifo, hist
<1>4. intact'
  BY <1>1 DEF hist
<1> QED
  BY <1>2, <1>3, <1>4

\* Two packets do not end in the same place.
LEMMA EndsDiffer ==
  ASSUME TypeOK, Chain, NEW m \in 0 .. Len(packets), NEW n \in 0 .. Len(packets),
         EndPos(m) = EndPos(n)
  PROVE  m = n
<1>1. EndPos(m) \in Nat /\ EndPos(n) \in Nat /\ Len(packets) \in Nat
  BY EndType DEF TypeOK
<1>2. ASSUME m < n PROVE FALSE
  <2>1. EndPos(m) + 2 <= EndPos(n)
    BY <1>2 DEF Chain
  <2> QED
    BY <1>1, <2>1
<1>3. ASSUME n < m PROVE FALSE
  <2>1. EndPos(n) + 2 <= EndPos(m)
    BY <1>3 DEF Chain
  <2> QED
    BY <1>1, <2>1
<1> QED
  BY <1>1, <1>2, <1>3

\* The EE finds the tag of the packet behind the one it is in, and no other.
LEMMA NextTag ==
  ASSUME TypeOK, SidesInv, InFifo, qwc = 0, size >= 4,
         NEW m \in 0 .. Len(packets), EEAt(m)
  PROVE  /\ m + 1 \in 1 .. Len(packets)
         /\ \A n \in 1 .. Len(packets) : packets[n].start = data[readPos] <=> n = m + 1
         /\ EndPos(m + 1) = taken + 2 + 4 * ((packets[m + 1].words + 3) \div 4)
<1>1. /\ size \in Nat /\ written \in Nat /\ taken \in Nat /\ readPos \in Place
      /\ iop.counter \in Nat /\ iop.writeJunk \in Nat
  BY Width DEF TypeOK
<1>2. PICK L \in Nat : L = Len(packets)
  BY DEF TypeOK
<1>3. taken = EndPos(m)
  BY <1>1 DEF EEAt
<1>4. PICK e \in Nat : e = EndPos(L)
  BY <1>2, EndType
<1>5. e > taken
  BY <1>1, <1>2, <1>4 DEF SidesInv, IOPPlace, Even
<1>6. m + 1 \in 1 .. L /\ (m + 1) - 1 = m
  <2>1. m # L
    BY <1>1, <1>3, <1>4, <1>5
  <2> QED
    BY <1>2, <2>1
<1>7. data[readPos] = taken + 1
  <2>1. 0 \in 0 .. size - 1
    BY <1>1
  <2>2. data[(readPos + 0) % FIFO_SIF_W] = taken + 0 + 1
    BY <2>1 DEF InFifo
  <2>3. (readPos + 0) % FIFO_SIF_W = readPos
    BY <1>1, Width DEF Place
  <2>4. taken + 0 + 1 = taken + 1
    BY <1>1
  <2> QED
    BY <2>2, <2>3, <2>4
<1>8. \A n \in 1 .. L : packets[n].start = EndPos(n - 1) + 1
  BY <1>2 DEF SidesInv, Chain
<1>9. packets[m + 1].start = taken + 1
  BY <1>3, <1>6, <1>8
<1>10. ASSUME NEW n \in 1 .. L, packets[n].start = data[readPos] PROVE n = m + 1
  <2>1. n - 1 \in 0 .. L
    BY <1>2
  <2>2. PICK x \in Nat : x = EndPos(n - 1)
    BY <1>2, <2>1, EndType
  <2>3. x + 1 = taken + 1
    BY <1>7, <1>8, <1>10, <2>2
  <2>4. x = taken
    BY <1>1, <2>3
  <2>5. n - 1 = m
    BY <1>2, <1>3, <2>1, <2>2, <2>4, EndsDiffer DEF SidesInv
  <2> QED
    BY <2>5, <1>6
<1>11. EndPos(m + 1) = taken + 2 + 4 * ((packets[m + 1].words + 3) \div 4)
  <2>1. PICK q \in Nat : q = (packets[m + 1].words + 3) \div 4
    BY <1>2, <1>6, PacketType
  <2>2. EndPos(m + 1) = packets[m + 1].start + 1 + 4 * ((packets[m + 1].words + 3) \div 4)
    <3>1. m + 1 # 0
      BY <1>6
    <3> QED
      BY <3>1 DEF EndPos, EndOf
  <2>3. EndPos(m + 1) = taken + 1 + 1 + 4 * q
    BY <1>9, <2>1, <2>2
  <2>4. taken + 1 + 1 + 4 * q = taken + 2 + 4 * q
    BY <1>1
  <2> QED
    BY <2>1, <2>3, <2>4
<1> QED
  BY <1>2, <1>6, <1>7, <1>9, <1>10, <1>11

LEMMA StreamStep ==
  ASSUME TypeOK, SidesInv, StreamInv, [Next]_vars
  PROVE  StreamInv'
<1>0. /\ size \in Nat /\ written \in Nat /\ taken \in Nat /\ qwc \in Nat
      /\ ee \in [busy : BOOLEAN, end : BOOLEAN]
  BY Width DEF TypeOK
<1>1. CASE EndIOP
  BY <1>0, <1>1, QuietStream DEF EndIOP, IOPDone, eech
<1>2. CASE ProcessIOPTag
  <2> SUFFICES ASSUME ~overran' PROVE EEPlace' /\ InFifo' /\ intact' /\ pc' # "wild"
    BY DEF StreamInv
  <2>1. UNCHANGED <<taken, intact, overran, eech, int>> /\ pc' = "ee"
    BY <1>2 DEF ProcessIOPTag, IOPDone
  <2>2. EEPlace /\ InFifo /\ intact
    BY <2>1 DEF StreamInv
  <2>3. size + 2 <= FIFO_SIF_W /\ write(2) /\ size = written - taken
    BY <1>2, TagWrite DEF SidesInv, Even
  <2>4. InFifo'
    BY <2>1, <2>2, <2>3, WriteFifo
  <2>5. PICK L \in Nat :
          /\ L = Len(packets) /\ Len(packets') = L + 1
          /\ \A n \in 1 .. L : packets'[n] = packets[n]
          /\ \A m \in 0 .. L : EndPos(m)' = EndPos(m)
    <3>1. Len(packets) \in Nat
      BY DEF TypeOK
    <3> QED
      BY <1>2, <3>1, NewPacket
  <2>6. EEPlace'
    <3>1. PICK m \in 0 .. L : EEAt(m)
      BY <2>2, <2>5 DEF EEPlace
    <3>2. EndPos(m)' = EndPos(m) /\ (m > 0 => packets'[m] = packets[m])
      BY <2>5
    <3>3. EEAt(m)'
      BY <2>1, <3>1, <3>2 DEF EEAt, eech
    <3>4. m \in 0 .. L + 1
      BY <2>5
    <3> QED
      BY <2>5, <3>3, <3>4 DEF EEPlace
  <2> QED
    BY <2>1, <2>2, <2>4, <2>6
<1>3. CASE WriteIOPtoFifo
  <2> SUFFICES ASSUME ~overran' PROVE EEPlace' /\ InFifo' /\ intact' /\ pc' # "wild"
    BY DEF StreamInv
  <2>1. UNCHANGED <<packets, taken, intact, eech, int>> /\ pc' = "ee"
    BY <1>3 DEF WriteIOPtoFifo, IOPDone
  <2>2. PICK n \in Nat : write(n) /\ overran' = (overran \/ size + n > FIFO_SIF_W)
    BY <1>3, DataWrite
  <2>3. ~overran /\ ~(size + n > FIFO_SIF_W)
    BY <2>2
  <2>4. size + n <= FIFO_SIF_W
    BY <1>0, <2>3, Width
  <2>5. EEPlace /\ InFifo /\ intact
    BY <2>3 DEF StreamInv
  <2>6. InFifo'
    BY <2>1, <2>2, <2>4, <2>5, WriteFifo DEF SidesInv, Even
  <2>7. EEPlace'
    <3>1. PICK m \in 0 .. Len(packets) : EEAt(m)
      BY <2>5 DEF EEPlace
    <3>2. EEAt(m)'
      BY <2>1, <3>1 DEF EEAt, EndPos, EndOf, eech
    <3> QED
      BY <2>1, <3>2 DEF EEPlace
  <2> QED
    BY <2>1, <2>5, <2>6, <2>7
<1>4. CASE IOPSkip
  BY <1>0, <1>4, QuietStream DEF IOPSkip, eech, int
<1>5. CASE EEStopped
  BY <1>0, <1>5, QuietStream DEF EEStopped, int
<1>6. CASE EndEE
  BY <1>0, <1>6, QuietStream DEF EndEE
<1>7. CASE ProcessEETag
  <2> SUFFICES ASSUME ~overran' PROVE EEPlace' /\ InFifo' /\ intact' /\ pc' # "wild"
    BY DEF StreamInv
  <2>1. /\ UNCHANGED <<packets, written, overran>>
        /\ EETurn /\ qwc = 0 /\ size >= 4 /\ ~ee.end /\ read(2)
    BY <1>0, <1>7 DEF ProcessEETag
  <2>2. EEPlace /\ InFifo /\ intact
    BY <2>1 DEF StreamInv
  <2>3. 2 <= size
    BY <1>0, <2>1
  <2>4. InFifo' /\ intact'
    BY <2>1, <2>2, <2>3, ReadFifo
  <2>6. PICK m \in 0 .. Len(packets) : EEAt(m)
    BY <2>2 DEF EEPlace
  <2>7. /\ m + 1 \in 1 .. Len(packets)
        /\ \A n \in 1 .. Len(packets) : packets[n].start = data[readPos] <=> n = m + 1
        /\ EndPos(m + 1) = taken + 2 + 4 * ((packets[m + 1].words + 3) \div 4)
    BY <2>1, <2>2, <2>6, NextTag
  <2>8. /\ qwc' = (packets[m + 1].words + 3) \div 4
        /\ ee' = [ee EXCEPT !.end = packets[m + 1].last]
        /\ pc' # "wild"
    <3> DEFINE tags == { n \in 1 .. Len(packets) : packets[n].start = data[readPos] }
    <3>1. tags = {m + 1}
      BY <2>7
    <3>2. \E n \in tags :
            /\ qwc' = (packets[n].words + 3) \div 4
            /\ ee' = [ee EXCEPT !.end = packets[n].last]
            /\ pc' # "wild"
      <4>1. tags # {}
        BY <3>1
      <4> QED
        BY <1>7, <4>1 DEF ProcessEETag
    <3> HIDE DEF tags
    <3> QED
      BY <3>1, <3>2
  <2>9. EEPlace'
    <3>1. taken' = taken + 2
      BY <2>1 DEF read
    <3>2. ee'.end = packets[m + 1].last
      BY <1>0, <2>8
    <3>3. EndPos(m + 1)' = EndPos(m + 1) /\ packets' = packets
      BY <2>1 DEF EndPos, EndOf
    <3>4. m + 1 > 0
      BY <2>7
    <3>5. PICK q \in Nat : q = (packets[m + 1].words + 3) \div 4
      BY <2>7, PacketType
    <3>6. taken' + 4 * qwc' = EndPos(m + 1)
      BY <2>7, <2>8, <3>1, <3>5
    <3>7. qwc' <= (packets[m + 1].words + 3) \div 4
      BY <2>8, <3>5
    <3>8. EEAt(m + 1)'
      BY <3>2, <3>3, <3>4, <3>6, <3>7 DEF EEAt
    <3>9. m + 1 \in 0 .. Len(packets)
      BY <2>7
    <3> QED
      BY <3>3, <3>8, <3>9 DEF EEPlace
  <2> QED
    BY <2>4, <2>8, <2>9
<1>8. CASE WriteFifoToEE
  <2> SUFFICES ASSUME ~overran' PROVE EEPlace' /\ InFifo' /\ intact' /\ pc' # "wild"
    BY DEF StreamInv
  <2>1. PICK k \in Nat : read(4 * k) /\ 4 * k <= size /\ k <= qwc /\ qwc' = qwc - k
    BY <1>8, DataRead
  <2>2. UNCHANGED <<packets, written, overran, ee>> /\ pc' = "iop"
    BY <1>8 DEF WriteFifoToEE
  <2>3. EEPlace /\ InFifo /\ intact
    BY <2>2 DEF StreamInv
  <2>4. InFifo' /\ intact'
    <3>1. 4 * k \in Nat
      OBVIOUS
    <3> QED
      BY <2>1, <2>2, <2>3, <3>1, ReadFifo
  <2>6. EEPlace'
    <3>1. PICK m \in 0 .. Len(packets) : EEAt(m)
      BY <2>3 DEF EEPlace
    <3>2. taken' = taken + 4 * k
      BY <2>1 DEF read
    <3>3. taken' + 4 * qwc' = taken + 4 * qwc /\ (qwc' > 0 => qwc > 0) /\ qwc' <= qwc
      BY <1>0, <2>1, <3>2
    <3>4. EndPos(m)' = EndPos(m) /\ packets' = packets
      BY <2>2 DEF EndPos, EndOf
    <3>5. qwc' > 0 => m > 0 /\ qwc' <= (packets[m].words + 3) \div 4
      <4>1. SUFFICES ASSUME qwc' > 0 PROVE m > 0 /\ qwc' <= (packets[m].words + 3) \div 4
        OBVIOUS
      <4>2. m > 0 /\ qwc <= (packets[m].words + 3) \div 4
        BY <3>1, <3>3, <4>1 DEF EEAt
      <4>3. m \in 1 .. Len(packets)
        BY <4>2 DEF TypeOK
      <4>4. PICK q \in Nat : q = (packets[m].words + 3) \div 4
        BY <4>3, PacketType
      <4> QED
        BY <1>0, <2>1, <3>3, <4>2, <4>4
    <3>6. EEAt(m)'
      BY <2>2, <3>1, <3>3, <3>4, <3>5 DEF EEAt
    <3> QED
      BY <3>4, <3>6 DEF EEPlace
  <2> QED
    BY <2>2, <2>4, <2>6
<1>9. CASE BusError
  BY <1>0, <1>9, QuietStream DEF BusError, int
<1>10. CASE EESkip
  BY <1>0, <1>10, QuietStream DEF EESkip, eech, int
<1>11. CASE psxDma9
  BY <1>0, <1>11, QuietStream DEF psxDma9, eech, int
<1>12. CASE sif0Interrupt
  BY <1>0, <1>12, QuietStream DEF sif0Interrupt, eech
<1>13. CASE DmaExec
  BY <1>0, <1>13, QuietStream DEF DmaExec, dmaSIF0
<1>17. CASE EnableDMAC
  BY <1>0, <1>17, QuietStream DEF EnableDMAC, dmaSIF0
<1>18. CASE DisableDMAC
  BY <1>0, <1>18, QuietStream DEF DisableDMAC, eech
<1>14. CASE ForceStop
  BY <1>0, <1>14, QuietStream DEF ForceStop
<1>15. CASE EEsif0Interrupt
  BY <1>0, <1>15, QuietStream DEF EEsif0Interrupt
<1>16. CASE UNCHANGED vars
  <2>1. CASE overran
    <3>1. overran'
      BY <1>16, <2>1 DEF vars, hist
    <3> QED
      BY <3>1 DEF StreamInv
  <2>2. CASE ~overran
    <3>1. pc' # "wild"
      BY <1>16, <2>2 DEF vars, StreamInv
    <3> QED
      BY <1>0, <1>16, <3>1, QuietStream DEF vars, eech, int
  <2> QED
    BY <2>1, <2>2
<1> QED
  BY <1>1, <1>2, <1>3, <1>4, <1>5, <1>6, <1>7, <1>8, <1>9, <1>10, <1>11, <1>12, <1>13,
     <1>14, <1>15, <1>16, <1>17, <1>18
     DEF Next, SIF0Dma, HandleIOPTransfer, HandleEETransfer, IOPStep, EEStep

-----------------------------------------------------------------------------
(* The end of a call *)

\* Why the EE may be left busy: its packet is the last and taken, or all that
\* follows it is one tag.
LEMMA NothingLeft ==
  ASSUME TypeOK, SidesInv, StreamInv, ~overran, ~iop.busy, size < 4, ~(ee.end /\ qwc = 0)
  PROVE  size = 0 \/ BareTag
<1>0. /\ iop.counter \in Nat /\ iop.writeJunk \in Nat /\ size \in Nat
      /\ written \in Nat /\ taken \in Nat /\ qwc \in Nat
  BY Width DEF TypeOK
<1>1. PICK L \in Nat : L = Len(packets)
  BY DEF TypeOK
<1>2. iop.counter = 0 /\ iop.writeJunk = 0
  BY DEF SidesInv, IOPPlace
<1>3. PICK m \in 0 .. L : EEAt(m)
  BY <1>1 DEF StreamInv, EEPlace
<1>4. PICK e \in Nat, x \in Nat : e = EndPos(L) /\ x = EndPos(m)
  BY <1>1, EndType
<1>5. written = e /\ taken + 4 * qwc = x /\ size = written - taken
  BY <1>0, <1>1, <1>2, <1>3, <1>4 DEF SidesInv, IOPPlace, Even, EEAt
<1>6. CASE m = L
  BY <1>0, <1>4, <1>5, <1>6
<1>7. CASE m # L
  <2>1. m < L /\ L \in 1 .. Len(packets) /\ L - 1 \in 0 .. L
    BY <1>1, <1>7
  <2>2. PICK y \in Nat : y = EndPos(L - 1)
    BY <1>1, <2>1, EndType
  <2>3. y + 2 <= e
    BY <1>1, <1>4, <2>1, <2>2 DEF SidesInv, Chain
  <2>4. m = L - 1
    <3>1. CASE m < L - 1
      <4>1. x + 2 <= y
        BY <1>1, <1>4, <2>1, <2>2, <3>1 DEF SidesInv, Chain
      <4> QED
        BY <1>0, <1>5, <2>3, <4>1
    <3> QED
      BY <2>1, <3>1
  <2>5. packets[L].start = y + 1
    BY <2>1, <2>2 DEF SidesInv, Chain
  <2>6. PICK q \in Nat : q = (packets[L].words + 3) \div 4 /\ (q = 0 => packets[L].words = 0)
    BY <2>1, PacketType
  <2>7. e = y + 1 + 1 + 4 * q
    <3>1. EndPos(L) = packets[L].start + 1 + 4 * ((packets[L].words + 3) \div 4)
      BY <2>1 DEF EndPos, EndOf
    <3> QED
      BY <1>4, <2>5, <2>6, <3>1
  <2>8. x = y
    BY <1>4, <2>2, <2>4
  <2>9. q = 0 /\ size = 2
    BY <1>0, <1>5, <2>7, <2>8
  <2> QED
    BY <1>1, <2>6, <2>9 DEF BareTag
<1> QED
  BY <1>6, <1>7

LEMMA SettledStep ==
  ASSUME IInv, Calls', [Next]_vars
  PROVE  Settled'
<1>0. /\ TypeOK /\ SidesInv /\ StreamInv /\ Settled
      /\ size \in Nat /\ qwc \in Nat
      /\ STR' => ee'.busy \/ eeInt' \/ queued'
  BY Width DEF IInv, TypeOK, Calls
<1>1. CASE EESkip /\ ~BusyCheck
  <2>1. pc = "ee" /\ UNCHANGED <<fifo, iop, eech, hist>>
    BY <1>1 DEF EESkip
  <2>2. iop.busy => size >= FIFO_SIF_W
    BY <1>0, <1>1, <2>1, Width DEF SidesInv, Calls, sif_free
  <2>3. ee.busy => size < 4 /\ ~(ee.end /\ qwc = 0)
    BY <1>0, <1>1 DEF EESkip, EETurn
  <2>4. ~(iop.busy /\ ee.busy)
    BY <1>0, <2>2, <2>3, Width
  <2>5. ee.busy /\ ~overran => size = 0 \/ BareTag
    BY <1>0, <2>3, <2>4, NothingLeft
  <2> QED
    BY <1>0, <2>1, <2>2, <2>4, <2>5 DEF Settled, BareTag, fifo, eech, hist
<1>2. CASE pc' # "idle"
  BY <1>2 DEF Settled
<1>3. CASE pc = "idle" /\ UNCHANGED <<size, iop, ee, packets, overran>>
  BY <1>0, <1>3 DEF Settled, BareTag
<1>4. CASE sif0Interrupt \/ ForceStop \/ EEsif0Interrupt \/ DisableDMAC
  BY <1>3, <1>4 DEF sif0Interrupt, ForceStop, EEsif0Interrupt, DisableDMAC, fifo, eech, hist
<1>5. CASE UNCHANGED vars
  BY <1>2, <1>3, <1>5 DEF vars, fifo, eech, hist
<1>6. CASE HandleIOPTransfer \/ IOPSkip
  <2>1. pc' = "ee"
    BY <1>6 DEF HandleIOPTransfer, EndIOP, ProcessIOPTag, WriteIOPtoFifo, IOPSkip, IOPDone
  <2> QED
    BY <1>2, <2>1
<1>7. CASE HandleEETransfer
  <2>1. pc' \in {"iop", "eeData", "wild"}
    BY <1>7 DEF HandleEETransfer, EEStopped, EndEE, ProcessEETag, WriteFifoToEE, BusError
  <2> QED
    BY <1>2, <2>1
<1>8. CASE psxDma9
  BY <1>2, <1>8 DEF psxDma9
<1>9. CASE EESkip /\ BusyCheck
  BY <1>2, <1>9 DEF EESkip
<1>10. CASE DmaExec \/ EnableDMAC
  <2>1. pc' = "iop" \/ (pc = "idle" /\ UNCHANGED <<size, iop, ee, packets, overran>>)
    BY <1>10 DEF DmaExec, EnableDMAC, dmaSIF0, fifo, hist
  <2> QED
    BY <1>2, <1>3, <2>1
<1> QED
  BY <1>1, <1>4, <1>5, <1>6, <1>7, <1>8, <1>9, <1>10 DEF Next, SIF0Dma, IOPStep, EEStep

-----------------------------------------------------------------------------
(* The theorems *)

LEMMA InitInv == Init => IInv
<1> SUFFICES ASSUME Init PROVE IInv
  OBVIOUS
<1>1. TypeOK
  BY InitType
<1>2. /\ Len(packets) = 0 /\ written = 0 /\ taken = 0 /\ size = 0 /\ qwc = 0
      /\ iop.counter = 0 /\ iop.writeJunk = 0 /\ ~iop.busy /\ ~ee.busy /\ ~ee.end
      /\ EndPos(0) = 0
  BY DEF Init, EndPos
<1>3. SidesInv
  <2>1. Chain
    BY <1>2 DEF Chain
  <2>2. IOPPlace /\ Even
    BY <1>2 DEF IOPPlace, Even
  <2>3. Calls
    BY DEF Init, Calls
  <2> QED
    BY <2>1, <2>2, <2>3 DEF SidesInv
<1>4. StreamInv
  <2>1. EEAt(0)
    BY <1>2 DEF EEAt
  <2>2. EEPlace
    BY <1>2, <2>1 DEF EEPlace
  <2>3. InFifo
    BY <1>2, Width DEF InFifo, Init
  <2>4. intact /\ pc # "wild"
    BY DEF Init
  <2> QED
    BY <2>2, <2>3, <2>4 DEF StreamInv
<1>5. Settled
  BY <1>2, Width DEF Settled, Init
<1> QED
  BY <1>1, <1>3, <1>4, <1>5 DEF IInv

LEMMA NextInv == IInv /\ [Next]_vars => IInv'
<1> SUFFICES ASSUME IInv, [Next]_vars PROVE IInv'
  OBVIOUS
<1>1. TypeOK /\ SidesInv /\ StreamInv
  BY DEF IInv
<1>2. TypeOK'
  BY <1>1, TypeStep
<1>3. SidesInv'
  BY <1>1, SidesStep, CallsStep DEF SidesInv
<1>4. StreamInv'
  BY <1>1, StreamStep
<1>5. Settled'
  BY <1>3, SettledStep DEF SidesInv
<1> QED
  BY <1>2, <1>3, <1>4, <1>5 DEF IInv

\* The places of the two sides hold in every state of SIF0Dma and between its calls.
THEOREM Invariance == Spec => []IInv
BY InitInv, NextInv, PTL DEF Spec

\* sif0's state stays of its types, whatever the lengths of the packets: in particular
\* the padding of a packet puts the FIFO at most two words over (Sif.h:69).
THEOREM TypeCorrect == Spec => []TypeOK
<1>1. IInv => TypeOK
  BY DEF IInv
<1> QED
  BY <1>1, Invariance, PTL

\* As long as writeJunk wrote over nothing, the EE reads every word SIF0Dma put in, in
\* order and once, finds its tags where the IOP put them, and comes to report completion
\* only with whole packets taken.
THEOREM StreamStaysIntact == Spec => []StreamIntact
<1>1. IInv => StreamIntact
  <2> SUFFICES ASSUME IInv, ~overran
               PROVE  /\ intact /\ pc # "wild"
                      /\ ee.end /\ qwc = 0 =>
                           \E n \in 1 .. Len(packets) :
                              packets[n].last /\ taken = EndOf(packets[n])
    BY DEF StreamIntact
  <2>1. EEPlace /\ intact /\ pc # "wild"
    BY DEF IInv, StreamInv
  <2>2. ASSUME ee.end, qwc = 0
        PROVE  \E n \in 1 .. Len(packets) : packets[n].last /\ taken = EndOf(packets[n])
    <3>1. PICK m \in 0 .. Len(packets) : EEAt(m)
      BY <2>1 DEF EEPlace
    <3>2. Len(packets) \in Nat /\ taken \in Nat
      BY DEF IInv, TypeOK
    <3>3. m \in 1 .. Len(packets) /\ packets[m].last /\ taken = EndPos(m)
      BY <2>2, <3>1, <3>2 DEF EEAt
    <3>4. EndPos(m) = EndOf(packets[m])
      BY <3>3 DEF EndPos
    <3> QED
      BY <3>3, <3>4
  <2> QED
    BY <2>1, <2>2
<1> QED
  BY <1>1, Invariance, PTL

\* A call of SIF0Dma returns with no more to do: not with both sides busy, with the IOP
\* busy only behind a full FIFO, with the EE busy only in front of an empty one or a
\* tag without words; and no start of the EE's channel is forgotten.
THEOREM CallsSettle == Spec => []Settled
<1>1. IInv => Settled
  BY DEF IInv
<1> QED
  BY <1>1, Invariance, PTL
=============================================================================
