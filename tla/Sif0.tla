-------------------------------- MODULE Sif0 --------------------------------
(***************************************************************************)
(* SIF0: the DMA from the IOP to the EE through a FIFO of FIFO_SIF_W words  *)
(* (pcsx2/Sif0.cpp, Sif.h; IopDma.cpp starts the IOP's side, LegacyDmac.cpp *)
(* the EE's).                                                               *)
(*                                                                         *)
(* The IOP's chain is a list of packets: a tag in IOP memory, of which two  *)
(* words go to the EE, and the packet's words, padded to a quadword with    *)
(* junk.  The EE's channel, in chain mode, takes a tag out of the FIFO and  *)
(* then as many quadwords as the tag says.  Both CPUs are interpreted on    *)
(* one thread: a call of SIF0Dma runs to its end, but either side may start *)
(* first, and stay busy between two calls.  The model has one step for each *)
(* half of an iteration of SIF0Dma's loop.  A start of the EE's channel     *)
(* while the DMAC is disabled or suspended is queued and made later.        *)
(*                                                                         *)
(* A word in the FIFO is known by its place in the stream of all words the  *)
(* IOP has put in, padding included; what it holds matters for tags only.   *)
(***************************************************************************)
EXTENDS Integers, Sequences

CONSTANTS
  FIFO_SIF_W,       \* words in the FIFO
  PacketWords,      \* lengths of the packets the IOP sends
  MaxPackets        \* bound: packets sent in a behaviour

ASSUME Sif0Assumption ==
  /\ FIFO_SIF_W \in Nat \ {0} /\ FIFO_SIF_W % 4 = 0
  /\ PacketWords \subseteq Nat
  /\ MaxPackets \in Nat

VARIABLES
  data, readPos, writePos, size,    \* sif0.fifo
  iop,              \* sif0.iop: [busy, end, counter, writeJunk]
  ee,               \* sif0.ee: [busy, end]
  STR, qwc,         \* sif0ch: the EE's channel
  enabled,          \* the DMAC is: DMAC_CTRL's DMAE is set, DMAC_ENABLER's bit 16 is not
  queued,           \* QueuedDMA.SIF0: a start to be made once the DMAC is enabled
  TR,               \* HW_DMA9_CHCR bit 24: the IOP's channel
  eeInt, iopInt,    \* DMAC_SIF0 and IopEvt_SIF0 are scheduled
  pc,               \* where SIF0Dma is; "idle" outside it
  BusyCheck,        \* the IOP's half of this iteration did something
  \* History variables: no step of the code reads them.
  packets,          \* the packets sent: [start, words, last], start the place of
                    \* the tag, last when the tag ends the EE's transfer
  written, taken,   \* words put into the FIFO and read from it
  intact,           \* every word the EE read was the next one of the stream
  overran           \* writeJunk wrote over words the EE had not read

fifo == <<data, readPos, writePos, size>>
int  == <<eeInt, iopInt>>
eech == <<ee, STR, qwc>>
hist == <<packets, written, taken, intact, overran>>
dmac == <<enabled, queued>>
vars == <<fifo, iop, TR, eech, dmac, int, pc, BusyCheck, hist>>

Place == 0 .. FIFO_SIF_W - 1

Init ==
  /\ data = [p \in Place |-> 0]
  /\ readPos = 0 /\ writePos = 0 /\ size = 0
  /\ iop = [busy |-> FALSE, end |-> FALSE, counter |-> 0, writeJunk |-> 0]
  /\ ee = [busy |-> FALSE, end |-> FALSE]
  /\ STR = FALSE /\ qwc = 0 /\ TR = FALSE
  /\ enabled = FALSE /\ queued = FALSE
  /\ eeInt = FALSE /\ iopInt = FALSE
  /\ pc = "idle" /\ BusyCheck = FALSE
  /\ packets = << >> /\ written = 0 /\ taken = 0
  /\ intact = TRUE /\ overran = FALSE

-----------------------------------------------------------------------------
(* The FIFO *)

sif_free == FIFO_SIF_W - size
Lesser(a, b) == IF a < b THEN a ELSE b

\* Put n words in; write and writeJunk differ in where they take them from.
write(n) ==
  LET k(p) == (p - writePos) % FIFO_SIF_W   \* which of the n words goes to p
  IN
  /\ data' = [p \in Place |-> IF k(p) < n THEN written + k(p) + 1 ELSE data[p]]
  /\ writePos' = (writePos + n) % FIFO_SIF_W
  /\ size' = size + n
  /\ written' = written + n
  /\ UNCHANGED readPos

read(n) ==
  /\ readPos' = (readPos + n) % FIFO_SIF_W
  /\ size' = size - n
  /\ taken' = taken + n
  /\ intact' = (intact /\ \A i \in 0 .. n - 1 :
                            data[(readPos + i) % FIFO_SIF_W] = taken + i + 1)
  /\ UNCHANGED <<data, writePos>>

-----------------------------------------------------------------------------
(* The IOP's half of an iteration: HandleIOPTransfer *)

IOPTurn == pc = "iop" /\ iop.busy /\ (sif_free > 0 \/ (iop.end /\ iop.counter = 0))
IOPDone == pc' = "ee" /\ BusyCheck' = TRUE

\* EndIOP: PSX_INT(IopEvt_SIF0).
EndIOP ==
  /\ IOPTurn /\ iop.counter <= 0 /\ iop.end
  /\ iop' = [iop EXCEPT !.end = FALSE, !.busy = FALSE]
  /\ iopInt' = TRUE
  /\ IOPDone
  /\ UNCHANGED <<fifo, TR, eech, dmac, eeInt, hist>>

\* Mutant: the case of no padding is forgotten.
ProcessIOPTag_FullJunk ==
  /\ IOPTurn /\ iop.counter <= 0 /\ ~iop.end
  /\ \E words \in PacketWords, end, last \in BOOLEAN :
       /\ Len(packets) + 1 = MaxPackets => end
       /\ write(2)
       /\ iop' = [iop EXCEPT !.counter = words, !.writeJunk = 4 - (words % 4), !.end = end]
       /\ packets' = Append(packets, [start |-> written + 1, words |-> words, last |-> last])
  /\ IOPDone
  /\ UNCHANGED <<TR, eech, dmac, int, taken, intact, overran>>

\* The IOP's next tag: how long the packet is, whether it is the IOP's last, and,
\* in the two words sent on, how many quadwords that is and whether the EE's
\* transfer ends with it (TAG_END, or an IRQ tag with TIE).
ProcessIOPTag ==
  /\ IOPTurn /\ iop.counter <= 0 /\ ~iop.end
  /\ \E words \in PacketWords, end, last \in BOOLEAN :
       /\ Len(packets) + 1 = MaxPackets => end
       /\ write(2)
       /\ iop' = [iop EXCEPT !.counter = words, !.writeJunk = (4 - words) % 4, !.end = end]
       /\ packets' = Append(packets, [start |-> written + 1, words |-> words, last |-> last])
  /\ IOPDone
  /\ UNCHANGED <<TR, eech, dmac, int, taken, intact, overran>>

\* What fits of the packet, and the junk after its last word.
WriteIOPtoFifo ==
  LET writeSize == Lesser(iop.counter, sif_free)
      junk      == IF iop.counter = writeSize THEN iop.writeJunk ELSE 0
  IN
  /\ IOPTurn /\ iop.counter > 0 /\ sif_free > 0
  /\ write(writeSize + junk)
  /\ iop' = [iop EXCEPT !.counter = @ - writeSize, !.writeJunk = @ - junk]
  /\ overran' = (overran \/ size + writeSize + junk > FIFO_SIF_W)
  /\ IOPDone
  /\ UNCHANGED <<TR, eech, dmac, int, packets, taken, intact>>

IOPSkip ==
  /\ pc = "iop" /\ ~IOPTurn
  /\ BusyCheck' = FALSE
  /\ pc' = "ee"
  /\ UNCHANGED <<fifo, iop, TR, eech, dmac, int, hist>>

-----------------------------------------------------------------------------
(* The EE's half: HandleEETransfer *)

EETurn == pc = "ee" /\ ee.busy /\ (size >= 4 \/ (ee.end /\ qwc = 0))

\* The EE has stopped the channel, or its address was no memory.
EEStopped ==
  /\ EETurn /\ ~STR
  /\ ee' = [busy |-> FALSE, end |-> FALSE]
  /\ pc' = "iop"
  /\ UNCHANGED <<fifo, iop, TR, STR, qwc, dmac, int, BusyCheck, hist>>

\* EndEE: CPU_INT(DMAC_SIF0).
EndEE ==
  /\ EETurn /\ STR /\ qwc <= 0 /\ ee.end
  /\ ee' = [busy |-> FALSE, end |-> FALSE]
  /\ eeInt' = TRUE
  /\ pc' = "iop"
  /\ UNCHANGED <<fifo, iop, TR, STR, qwc, dmac, iopInt, BusyCheck, hist>>

\* Mutant: the whole quadword of the tag is taken, as ProcessIOPTag once sent it.
ProcessEETag_Four ==
  LET tags == { n \in 1 .. Len(packets) : packets[n].start = data[readPos] }
  IN
  /\ EETurn /\ STR /\ qwc <= 0 /\ ~ee.end /\ size >= 4
  /\ read(4)
  /\ \/ /\ tags = {}
        /\ pc' = "wild"
        /\ UNCHANGED <<ee, qwc>>
     \/ \E n \in tags :
          /\ qwc' = (packets[n].words + 3) \div 4
          /\ ee' = [ee EXCEPT !.end = packets[n].last]
          /\ pc' = IF qwc' > 0 THEN "eeData" ELSE "iop"
  /\ UNCHANGED <<iop, TR, STR, dmac, int, BusyCheck, packets, written, overran>>

\* Two words are taken for a tag, whatever they are: words that are no tag make
\* the rest of the transfer undefined ("wild").
ProcessEETag ==
  LET tags == { n \in 1 .. Len(packets) : packets[n].start = data[readPos] }
  IN
  /\ EETurn /\ STR /\ qwc <= 0 /\ ~ee.end /\ size >= 4
  /\ read(2)
  /\ \/ /\ tags = {}
        /\ pc' = "wild"
        /\ UNCHANGED <<ee, qwc>>
     \/ \E n \in tags :
          /\ qwc' = (packets[n].words + 3) \div 4
          /\ ee' = [ee EXCEPT !.end = packets[n].last]
          /\ pc' = IF qwc' > 0 THEN "eeData" ELSE "iop"
  /\ UNCHANGED <<iop, TR, STR, dmac, int, BusyCheck, packets, written, overran>>

\* The quadwords that are there.  It follows a tag in the same call.
WriteFifoToEE ==
  LET readSize == Lesser(qwc, size \div 4)
  IN
  /\ pc = "eeData" \/ (EETurn /\ STR)
  /\ qwc > 0
  /\ read(4 * readSize)
  /\ qwc' = qwc - readSize
  /\ pc' = "iop"
  /\ UNCHANGED <<iop, TR, ee, STR, dmac, int, BusyCheck, packets, written, overran>>

\* Mutant: the channel is left running.
BusError_KeepSTR ==
  /\ pc = "eeData" \/ (EETurn /\ STR)
  /\ qwc > 0
  /\ pc' = "iop"
  /\ UNCHANGED <<fifo, iop, TR, eech, dmac, int, BusyCheck, hist>>

\* The address in the tag is no memory: getAddr stops the channel.
BusError ==
  /\ pc = "eeData" \/ (EETurn /\ STR)
  /\ qwc > 0
  /\ STR' = FALSE
  /\ pc' = "iop"
  /\ UNCHANGED <<fifo, iop, TR, ee, qwc, dmac, int, BusyCheck, hist>>

\* Nothing for the EE.  The loop ends when nobody did anything.
EESkip ==
  /\ pc = "ee" /\ ~EETurn
  /\ pc' = IF BusyCheck THEN "iop" ELSE "idle"
  /\ UNCHANGED <<fifo, iop, TR, eech, dmac, int, BusyCheck, hist>>

-----------------------------------------------------------------------------
(* What the two CPUs do between calls of SIF0Dma *)

\* The IOP starts its channel once the last transfer's interrupt has come.
psxDma9 ==
  /\ pc = "idle" /\ ~TR /\ Len(packets) < MaxPackets
  /\ TR' = TRUE
  /\ iop' = [iop EXCEPT !.busy = TRUE, !.end = FALSE]
  /\ pc' = "iop"
  /\ UNCHANGED <<fifo, eech, dmac, int, BusyCheck, hist>>

sif0Interrupt ==
  /\ pc = "idle" /\ iopInt
  /\ iopInt' = FALSE /\ TR' = FALSE
  /\ UNCHANGED <<fifo, iop, eech, dmac, eeInt, pc, BusyCheck, hist>>

dmaSIF0 ==
  /\ ee' = [busy |-> TRUE, end |-> FALSE]
  /\ pc' = "iop"

\* Mutant: the EE's start leaves the transfer to the IOP's next start.
DmaExec_NoCall ==
  /\ pc = "idle" /\ ~STR
  /\ STR' = TRUE
  /\ IF enabled
       THEN ee' = [busy |-> TRUE, end |-> FALSE] /\ UNCHANGED <<queued, pc>>
       ELSE queued' = TRUE /\ UNCHANGED <<ee, pc>>
  /\ UNCHANGED <<fifo, iop, TR, qwc, enabled, int, BusyCheck, hist>>

\* The EE writes CHCR.STR = 1 with the channel stopped.
DmaExec ==
  /\ pc = "idle" /\ ~STR
  /\ STR' = TRUE
  /\ IF enabled
       THEN dmaSIF0 /\ UNCHANGED queued
       ELSE queued' = TRUE /\ UNCHANGED <<ee, pc>>
  /\ UNCHANGED <<fifo, iop, TR, qwc, enabled, int, BusyCheck, hist>>

\* StartQueuedDMA, from a write to DMAC_CTRL or DMAC_ENABLEW.  A start whose channel
\* has stopped meanwhile stays queued.
EnableDMAC ==
  /\ pc = "idle" /\ ~enabled
  /\ enabled' = TRUE
  /\ IF queued /\ STR
       THEN dmaSIF0 /\ queued' = FALSE
       ELSE UNCHANGED <<queued, ee, pc>>
  /\ UNCHANGED <<fifo, iop, TR, STR, qwc, int, BusyCheck, hist>>

DisableDMAC ==
  /\ pc = "idle" /\ enabled
  /\ enabled' = FALSE
  /\ UNCHANGED <<fifo, iop, TR, eech, queued, int, pc, BusyCheck, hist>>

\* The EE writes CHCR.STR = 0 with the channel running: the interrupt and a queued
\* start are called off, and SIF0Dma learns of it when it next looks.
ForceStop ==
  /\ pc = "idle" /\ STR
  /\ STR' = FALSE /\ eeInt' = FALSE /\ queued' = FALSE
  /\ UNCHANGED <<fifo, iop, TR, ee, qwc, enabled, iopInt, pc, BusyCheck, hist>>

\* The EE's interrupts are not looked at while the DMAC is disabled.
EEsif0Interrupt ==
  /\ pc = "idle" /\ enabled /\ eeInt
  /\ eeInt' = FALSE /\ STR' = FALSE
  /\ UNCHANGED <<fifo, iop, TR, ee, qwc, dmac, iopInt, pc, BusyCheck, hist>>

-----------------------------------------------------------------------------
HandleIOPTransfer == EndIOP \/ ProcessIOPTag \/ WriteIOPtoFifo
HandleEETransfer  == EEStopped \/ EndEE \/ ProcessEETag \/ WriteFifoToEE \/ BusError
SIF0Dma == HandleIOPTransfer \/ IOPSkip \/ HandleEETransfer \/ EESkip

IOPStep == psxDma9 \/ sif0Interrupt
EEStep  == DmaExec \/ EnableDMAC \/ DisableDMAC \/ ForceStop \/ EEsif0Interrupt

Next == SIF0Dma \/ IOPStep \/ EEStep

Spec == Init /\ [][Next]_vars

\* A call of SIF0Dma goes on: it is a loop on one thread.
FairSpec == Spec /\ WF_vars(SIF0Dma)

-----------------------------------------------------------------------------
(* Properties *)

TypeOK ==
  /\ data \in [Place -> Nat]
  /\ readPos \in Place /\ writePos \in Place
  /\ size \in 0 .. FIFO_SIF_W + 2
  /\ iop \in [busy : BOOLEAN, end : BOOLEAN, counter : Nat, writeJunk : 0 .. 3]
  /\ ee \in [busy : BOOLEAN, end : BOOLEAN]
  /\ STR \in BOOLEAN /\ qwc \in Nat /\ TR \in BOOLEAN
  /\ enabled \in BOOLEAN /\ queued \in BOOLEAN
  /\ eeInt \in BOOLEAN /\ iopInt \in BOOLEAN
  /\ pc \in {"idle", "iop", "ee", "eeData", "wild"} /\ BusyCheck \in BOOLEAN
  /\ packets \in Seq([start : Nat, words : PacketWords, last : BOOLEAN])
  /\ written \in Nat /\ taken \in Nat
  /\ intact \in BOOLEAN /\ overran \in BOOLEAN

\* The place of a packet's last word.
EndOf(p) == p.start + 1 + 4 * ((p.words + 3) \div 4)

\* The EE gets the IOP's words in order, each once, whatever the sides' lengths
\* and starts: it reads a tag where the IOP put one (never "wild"), and when it is
\* about to report its transfer complete (EndEE) it has taken exactly the packets
\* up to one that ends it.  The exception is the overrun: writeJunk does not look
\* at the room left (Sif.h:69).
StreamIntact ==
  ~overran => /\ intact
              /\ pc # "wild"
              /\ ee.busy /\ ee.end /\ qwc = 0 =>
                   \E n \in 1 .. Len(packets) :
                      packets[n].last /\ taken = EndOf(packets[n])

\* A tag without words, which the EE does not look at by itself (Sif0.cpp:337).
BareTag == size = 2 /\ packets[Len(packets)].words = 0

\* Nobody calls SIF0Dma but the two starts, so a call may only leave a side busy
\* that the other side must first start for: never both, the IOP only with the
\* FIFO full, and the EE only when it has everything the IOP sent, a tag without
\* words at the end excepted.  A running channel of the EE is served, about to be
\* reported complete, or queued for the DMAC: no start is forgotten.
Settled ==
  pc = "idle" =>
    /\ ~(iop.busy /\ ee.busy)
    /\ iop.busy => size >= FIFO_SIF_W
    /\ ee.busy /\ ~overran => size = 0 \/ BareTag
    /\ STR => ee.busy \/ eeInt \/ queued

\* SIF0Dma's loop ends: no BusyCheck is counted for a turn that changes nothing.
LoopEnds == pc # "idle" ~> pc \in {"idle", "wild"}
=============================================================================
