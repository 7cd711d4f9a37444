------------------------------ MODULE GifPath ------------------------------
(***************************************************************************)
(* GIF path 1 when VU1 has a thread (Gif_Path in pcsx2/Gif_Unit.h): VU1     *)
(* copies the GS data of its XGKICKs into the path's buffer, closes the     *)
(* packet at the end of a VU program and queues it; the GS thread, for each *)
(* MTVU packet in its own ring, waits for semaXGkick, transfers the next    *)
(* queued packet out of the buffer and gives its bytes back by lowering     *)
(* readAmount.  The EE never touches the buffer: it only sends the MTVU     *)
(* packets, one "fake packet" for each program.                             *)
(*                                                                         *)
(* The buffer is not a ring of slots: data must be contiguous, so a packet  *)
(* that would cross the end is moved to the front, and the only thing VU1   *)
(* knows of the reader is the number of bytes not yet read.  Sizes are in   *)
(* quadwords.  A word of the buffer records the program that wrote it and   *)
(* its place in the program's output.                                       *)
(***************************************************************************)
EXTENDS Integers, Sequences

CONSTANTS
  buffSize,         \* the buffer
  buffLimit,        \* where a new packet is moved to the front
  Kicks,            \* sizes of an XGKICK
  MaxOutput,        \* what one VU program kicks at most
  QueueSize,        \* packets that fit in gsPackQueue
  MaxPrograms       \* bound: VU programs in a behaviour

\* An XGKICK (16 KB) fits in the safe zone behind buffLimit (1 MB), and what a
\* program kicks in all fits twice below buffLimit (8 MB): a longer packet that
\* had to be moved would wait for room that only its own completion can give.
ASSUME GifPathAssumption ==
  /\ buffSize \in Nat /\ buffLimit \in Nat /\ MaxOutput \in Nat
  /\ QueueSize \in Nat \ {0} /\ MaxPrograms \in Nat
  /\ Kicks \subseteq Nat \ {0} /\ Kicks # {}
  /\ \A k \in Kicks : buffLimit + k <= buffSize
  /\ 2 * MaxOutput <= buffLimit

VARIABLES
  buffer, curSize, curOffset,   \* the path: its words, where data ends, where parsing is
  gsPack,                       \* the packet being built: [offset, size, readAmount]
  readAmount,                   \* shared: what the GS still has to read
  gsPackQueue,                  \* shared: packets for the GS
  fakePackets,                  \* EE: programs whose MTVU packet is not sent yet
  programs,                     \* programs in the MTVU ring
  gsRing,                       \* MTVU packets in the MTGS ring
  semaXGkick,
  vuPc,                         \* VU1: step
  vuCopies,                     \* VU1: the copies of this XGKICK still to do
  vuStart,                      \* VU1: startP1Packs of WaitGS
  gsPc, gsCur,                  \* GS: step, packet being transferred
  \* History variables: no step of the code reads them.
  output,           \* what the running program has kicked
  finished,         \* the programs whose packet was closed, with its size
  transferred       \* what the GS got: a program's packet, or size -1 for foreign words

path    == <<buffer, curSize, curOffset, gsPack>>
ends    == <<fakePackets, programs, gsRing>>
vu      == <<vuPc, vuCopies, vuStart>>
gs      == <<gsPc, gsCur>>
pathVars == <<path, readAmount, gsPackQueue, ends, semaXGkick, vu, gs, output, finished,
              transferred>>

Addr       == 0 .. buffSize - 1
Word(n, i) == [prog |-> n, idx |-> i]
Pack(o, s, r) == [offset |-> o, size |-> s, readAmount |-> r]

PathInit ==
  /\ buffer = [a \in Addr |-> Word(0, 0)] /\ curSize = 0 /\ curOffset = 0
  /\ gsPack = Pack(0, 0, 0) /\ readAmount = 0 /\ gsPackQueue = << >>
  /\ fakePackets = 0 /\ programs = 0 /\ gsRing = 0 /\ semaXGkick = 0
  /\ vuPc = "idle" /\ vuCopies = << >> /\ vuStart = 0
  /\ gsPc = "idle" /\ gsCur = Pack(0, 0, 0)
  /\ output = 0 /\ finished = << >> /\ transferred = << >>

-----------------------------------------------------------------------------
(* VU1 *)

getReadAmount == readAmount + gsPack.readAmount
PackStart     == curOffset - gsPack.size     \* "offset" in the code

VUBegin ==
  /\ vuPc = "idle"
  /\ programs > 0
  /\ programs' = programs - 1
  /\ output' = 0
  /\ vuPc' = "run"
  /\ UNCHANGED <<path, readAmount, gsPackQueue, fakePackets, gsRing, semaXGkick, vuCopies,
                 vuStart, gs, finished, transferred>>

\* CopyGSPacketData, up to its loop.
CopyStep(used, size) == IF used + size > buffSize THEN "realign" ELSE "room"

\* mVU_XGKICK_: data that wraps around the end of VU1's memory is copied in two
\* pieces, before any of it is parsed.
VUXGkick ==
  /\ vuPc = "run"
  /\ \E k \in Kicks :
       /\ output + k <= MaxOutput
       /\ output' = output + k
       /\ \E first \in 1 .. k : vuCopies' = IF first = k THEN <<k>> ELSE <<first, k - first>>
  /\ vuPc' = CopyStep(curSize, Head(vuCopies'))
  /\ UNCHANGED <<path, readAmount, gsPackQueue, ends, semaXGkick, vuStart, gs, finished,
                 transferred>>

\* mtgsReadWait: WaitGS notes how many packets are queued.
CallReadWait(pc) == vuPc' = pc /\ vuStart' = Len(gsPackQueue)

\* What a packet moved to the front leaves unused below buffLimit.
Gap(offset) == IF offset < buffLimit THEN buffLimit - offset ELSE 0

FrontFree(offset, sizeToAdd) ==
  LET intersect == IF sizeToAdd > offset THEN sizeToAdd - offset ELSE 0
  IN  offset - getReadAmount >= sizeToAdd - intersect

\* RealignPacket, called before a copy, or by ExecuteGSPacketMTVU after the last one.
VURealign ==
  LET offset    == PackStart
      sizeToAdd == curSize - offset
  IN
  /\ vuPc = "realign"
  /\ IF FrontFree(offset, sizeToAdd)
       THEN /\ gsPack' = Pack(0, gsPack.size, gsPack.readAmount + Gap(offset))
            /\ buffer' = [a \in Addr |-> IF a < sizeToAdd THEN buffer[offset + a] ELSE buffer[a]]
            /\ curSize' = sizeToAdd /\ curOffset' = gsPack.size
            /\ vuPc' = IF vuCopies = << >> THEN "parse" ELSE "room"
            /\ UNCHANGED vuStart
       ELSE /\ CallReadWait("realignWait")
            /\ UNCHANGED path
  /\ UNCHANGED <<readAmount, gsPackQueue, ends, semaXGkick, vuCopies, gs, output,
                 finished, transferred>>

\* The GS reads in front of the packet being built, or far enough behind it.
HasRoom(size) ==
  LET readPos == PackStart - getReadAmount
  IN  readPos >= 0 \/ buffLimit + readPos > curSize + size

\* ExecuteGSPacketMTVU, up to its loop.
ExecuteStep == IF curOffset > buffLimit THEN "realign" ELSE "parse"

\* The loop of CopyGSPacketData, and the copy.
VURoom ==
  LET size  == Head(vuCopies)
      first == curSize - PackStart      \* place of the copy in the program's output
  IN
  /\ vuPc = "room"
  /\ IF HasRoom(size)
       THEN /\ buffer' = [a \in Addr |-> IF a \in curSize .. curSize + size - 1
                                           THEN Word(Len(finished) + 1, first + a - curSize)
                                           ELSE buffer[a]]
            /\ curSize' = curSize + size
            /\ vuCopies' = Tail(vuCopies)
            /\ vuPc' = IF vuCopies' = << >> THEN ExecuteStep
                                            ELSE CopyStep(curSize', Head(vuCopies'))
            /\ UNCHANGED vuStart
       ELSE /\ CallReadWait("roomWait")
            /\ UNCHANGED <<buffer, curSize, vuCopies>>
  /\ UNCHANGED <<curOffset, gsPack, readAmount, gsPackQueue, ends, semaXGkick, gs,
                 output, finished, transferred>>

\* WaitGS(false, true, true), its loop: the GS has taken a packet, or has none.
VUReadWait ==
  /\ vuPc \in {"realignWait", "roomWait"}
  /\ Len(gsPackQueue) # vuStart \/ gsPackQueue = << >>
  /\ vuPc' = IF vuPc = "roomWait" THEN "room" ELSE "realign"
  /\ vuStart' = 0
  /\ UNCHANGED <<path, readAmount, gsPackQueue, ends, semaXGkick, vuCopies, gs, output,
                 finished, transferred>>

\* The loop over the GIF tags: an XGKICK is parsed to its end.
VUParse ==
  /\ vuPc = "parse"
  /\ curOffset' = curSize
  /\ gsPack' = [gsPack EXCEPT !.size = @ + (curSize - curOffset)]
  /\ vuPc' = "run"
  /\ UNCHANGED <<buffer, curSize, readAmount, gsPackQueue, ends, semaXGkick, vuCopies,
                 vuStart, gs, output, finished, transferred>>

\* FinishGSPacketMTVU: count the packet, then queue it.
VUFinish ==
  /\ vuPc = "run"
  /\ readAmount' = readAmount + gsPack.size + gsPack.readAmount
  /\ vuPc' = "push"
  /\ UNCHANGED <<path, gsPackQueue, ends, semaXGkick, vuCopies, vuStart, gs, output,
                 finished, transferred>>

\* Mutant: the next packet is taken to start where the last one did.
VUPush_SameStart ==
  /\ vuPc = "push"
  /\ Len(gsPackQueue) < QueueSize
  /\ gsPackQueue' = Append(gsPackQueue, gsPack)
  /\ finished' = Append(finished, gsPack.size)
  /\ gsPack' = Pack(gsPack.offset, 0, 0)
  /\ vuPc' = "post"
  /\ UNCHANGED <<buffer, curSize, curOffset, readAmount, ends, semaXGkick, vuCopies, vuStart, gs,
                 output, transferred>>

\* Mutant: the push is not repeated until there is room; the queue is taken to grow.
VUPush_NoLimit ==
  /\ vuPc = "push"
  /\ gsPackQueue' = Append(gsPackQueue, gsPack)
  /\ finished' = Append(finished, gsPack.size)
  /\ gsPack' = Pack(curOffset, 0, 0)
  /\ vuPc' = "post"
  /\ UNCHANGED <<buffer, curSize, curOffset, readAmount, ends, semaXGkick, vuCopies, vuStart, gs,
                 output, transferred>>

\* while (!gsPackQueue.push(gsPack)); then a new packet begins.
VUPush ==
  /\ vuPc = "push"
  /\ Len(gsPackQueue) < QueueSize
  /\ gsPackQueue' = Append(gsPackQueue, gsPack)
  /\ finished' = Append(finished, gsPack.size)
  /\ gsPack' = Pack(curOffset, 0, 0)
  /\ vuPc' = "post"
  /\ UNCHANGED <<buffer, curSize, curOffset, readAmount, ends, semaXGkick, vuCopies, vuStart, gs,
                 output, transferred>>

\* Mutant: no post for a program without XGKICK.
VUPost_Kicked ==
  /\ vuPc = "post"
  /\ semaXGkick' = IF output > 0 THEN semaXGkick + 1 ELSE semaXGkick
  /\ vuPc' = "idle"
  /\ UNCHANGED <<path, readAmount, gsPackQueue, ends, vuCopies, vuStart, gs, output, finished,
                 transferred>>

VUPost ==
  /\ vuPc = "post"
  /\ semaXGkick' = semaXGkick + 1
  /\ vuPc' = "idle"
  /\ UNCHANGED <<path, readAmount, gsPackQueue, ends, vuCopies, vuStart, gs, output,
                 finished, transferred>>

-----------------------------------------------------------------------------
(* The GS thread: GS_RINGTYPE_MTVU_GSPACKET *)

\* Mutant: the GS does not wait for the VU program.
GSWaitXGkick_NoWait ==
  /\ gsPc = "idle"
  /\ gsRing > 0
  /\ gsPc' = "get"
  /\ UNCHANGED <<path, readAmount, gsPackQueue, ends, semaXGkick, vu, gsCur, output, finished,
                 transferred>>

\* The next packet in the ring: wait for the program to be complete.
GSWaitXGkick ==
  /\ gsPc = "idle"
  /\ gsRing > 0
  /\ semaXGkick > 0
  /\ semaXGkick' = semaXGkick - 1
  /\ gsPc' = "get"
  /\ UNCHANGED <<path, readAmount, gsPackQueue, ends, vu, gsCur, output, finished, transferred>>

\* The words of packet p are those program n kicked.
Intact(n, p) == \A i \in 0 .. p.size - 1 : buffer[p.offset + i] = Word(n, i)

\* GetGSPacketMTVU (an empty queue gives an empty packet) and the transfer.
GSTransfer ==
  LET p == IF gsPackQueue = << >> THEN Pack(0, 0, 0) ELSE Head(gsPackQueue)
  IN
  /\ gsPc = "get"
  /\ gsCur' = p
  /\ transferred' = Append(transferred, IF Intact(Len(transferred) + 1, p) THEN p.size ELSE -1)
  /\ gsPc' = "release"
  /\ UNCHANGED <<path, readAmount, gsPackQueue, ends, semaXGkick, vu, output, finished>>

GSRelease ==
  /\ gsPc = "release"
  /\ readAmount' = readAmount - (gsCur.size + gsCur.readAmount)
  /\ gsPc' = "pop"
  /\ UNCHANGED <<path, gsPackQueue, ends, semaXGkick, vu, gsCur, output, finished, transferred>>

\* The queue's front is dropped, then the packet leaves the ring.
GSPop ==
  /\ gsPc = "pop"
  /\ gsPackQueue' = Tail(gsPackQueue)
  /\ gsRing' = gsRing - 1
  /\ gsPc' = "idle" /\ gsCur' = Pack(0, 0, 0)
  /\ UNCHANGED <<path, readAmount, fakePackets, programs, semaXGkick, vu, output, finished,
                 transferred>>

GSRuns == GSWaitXGkick \/ GSTransfer \/ GSRelease \/ GSPop

-----------------------------------------------------------------------------
(* Properties *)

VUSteps == {"idle", "run", "realign", "realignWait", "room", "roomWait", "parse", "push",
            "post"}
Packets == [offset : 0 .. buffSize, size : 0 .. MaxOutput, readAmount : 0 .. buffLimit]

\* The type invariant; curSize <= buffSize is CopyGSPacketData's assertion "Gif Path
\* Buffer Overflow!".
PathTypeOK ==
  /\ buffer \in [Addr -> [prog : 0 .. MaxPrograms, idx : 0 .. MaxOutput]]
  /\ curSize \in 0 .. buffSize /\ curOffset \in 0 .. curSize
  /\ gsPack \in Packets /\ gsCur \in Packets /\ gsPackQueue \in Seq(Packets)
  /\ Len(gsPackQueue) <= QueueSize
  /\ readAmount \in Nat
  /\ fakePackets \in 0 .. MaxPrograms /\ programs \in 0 .. MaxPrograms
  /\ gsRing \in 0 .. MaxPrograms /\ semaXGkick \in 0 .. MaxPrograms
  /\ vuPc \in VUSteps /\ vuStart \in 0 .. QueueSize
  /\ vuCopies \in Seq(Nat \ {0})
  /\ gsPc \in {"idle", "get", "release", "pop"}
  /\ output \in 0 .. MaxOutput

\* What VU1 knows of the reader is a byte count; still it never writes over data
\* the GS has to read: every queued packet whose bytes were not given back is in
\* the buffer, word for word, and so is the packet being built.
PacketsIntact ==
  LET done == Len(finished) - Len(gsPackQueue)
  IN
  /\ \A k \in 1 .. Len(gsPackQueue) :
       (k > 1 \/ gsPc # "pop") => Intact(done + k, gsPackQueue[k])
  /\ \A i \in 0 .. curSize - PackStart - 1 :
       buffer[PackStart + i] = Word(Len(finished) + 1, i)

FIFO == INSTANCE PacketFIFO
          WITH Packet <- 0 .. MaxOutput, produced <- finished, consumed <- transferred

\* The GS gets each program's packet once, in order, and whole.
ImplementsFIFO == FIFO!Spec
=============================================================================
