-------------------------------- MODULE MTGS --------------------------------
(***************************************************************************)
(* The ring between the EE thread and the GS (pcsx2/MTGS.cpp), as the       *)
(* libretro core builds it: the GS side is no thread of its own but runs    *)
(* inside retro_run, on the frontend's thread, and returns to the frontend  *)
(* after every GS_RINGTYPE_VSYNC.  m_RingBufferIsBusy is never set and the  *)
(* busy mutexes are never held in this build.                               *)
(*                                                                         *)
(* A command takes one slot, a vsync one slot and its data; packets wrap    *)
(* around the end of the ring.  A slot records which packet wrote it (seq)  *)
(* and which slot of the packet it is (off, 0 for the tag).  With           *)
(* THREAD_VU1 the VU1 thread also calls WaitGS, and with it SetEvent.       *)
(***************************************************************************)
EXTENDS Integers, Sequences, FiniteSets

CONSTANTS
  RingBufferSize,   \* slots in the ring
  VsyncSize,        \* slots of a vsync packet, its tag included
  SpinLimit,        \* 0x80: how much must be freed before a stall sleeps, not spins
  TallyLimit,       \* 0x2000: amount queued that makes a packet wake the GS
  VsyncQueueSize,   \* frames that may be queued before the EE waits
  GSWeight,         \* what a GS packet adds to the tally
  THREAD_VU1,       \* VU1 has a thread
  MaxPackets,       \* bound: packets sent in a behaviour
  MaxFinish,        \* bound: calls of FinishTaskInThread
  MaxVUWaits        \* bound: calls of WaitGS by the VU1 thread

ASSUME MTGSAssumption ==
  /\ RingBufferSize \in Nat /\ VsyncSize \in Nat
  /\ 2 <= VsyncSize /\ VsyncSize < RingBufferSize    \* a tag and data
  /\ SpinLimit \in Nat /\ TallyLimit \in Nat /\ VsyncQueueSize \in Nat /\ GSWeight \in Nat
  /\ THREAD_VU1 \in BOOLEAN
  /\ MaxPackets \in Nat /\ MaxFinish \in Nat /\ MaxVUWaits \in Nat

VARIABLES
  RingBuffer, m_ReadPos, m_WritePos,
  m_SignalRingEnable, m_SignalRingPosition,   \* "wake me when this much is free"
  m_QueuedFrameCount, m_VsyncSignalListener,
  m_CopyDataTally,                            \* queued since the last SetEvent
  m_sem_event, m_sem_OnRingReset, m_sem_Vsync,
  eePc, eeOp,       \* EE: step, packet being sent [cmd, size]
  gsPc, gsOp,       \* GS: step, packet being processed
  vuPc,             \* VU1: step of SetEvent
  \* History variables: no step of the code reads them.
  sent,             \* the packets written, with their place: [cmd, size, pos]
  committed,        \* how many of them are published
  executed,         \* what the GS processed: a seq, or 0 for a packet with foreign slots
  finishes, vuWaits \* calls counted against MaxFinish and MaxVUWaits

ringvars == <<RingBuffer, m_ReadPos, m_WritePos>>
signals  == <<m_SignalRingEnable, m_SignalRingPosition, m_QueuedFrameCount,
              m_VsyncSignalListener, m_CopyDataTally>>
sems     == <<m_sem_event, m_sem_OnRingReset, m_sem_Vsync>>
ee       == <<eePc, eeOp>>
gs       == <<gsPc, gsOp>>
vu       == <<vuPc, vuWaits>>
hist     == <<sent, committed, executed>>
vars     == <<ringvars, signals, sems, ee, gs, vu, hist, finishes>>

Slot == 0 .. RingBufferSize - 1
Word(n, k) == [seq |-> n, off |-> k]

\* RESET and FRAMESKIP are the two packets of ResetGS; SIMPLE is every other
\* SendSimplePacket and SendPointerPacket.
Simple(cmd) == [cmd |-> cmd, size |-> 1]
GSPacket    == [cmd |-> "GSPACKET", size |-> 1]
Vsync       == [cmd |-> "VSYNC", size |-> VsyncSize]

Init ==
  /\ RingBuffer = [s \in Slot |-> Word(0, 0)]
  /\ m_ReadPos = 0 /\ m_WritePos = 0
  /\ m_SignalRingEnable = FALSE /\ m_SignalRingPosition = 0
  /\ m_QueuedFrameCount = 0 /\ m_VsyncSignalListener = FALSE
  /\ m_CopyDataTally = 0
  /\ m_sem_event = 0 /\ m_sem_OnRingReset = 0 /\ m_sem_Vsync = 0
  /\ eePc = "idle" /\ eeOp = Simple("SIMPLE")
  /\ gsPc = "out" /\ gsOp = Simple("SIMPLE")
  /\ vuPc = "idle" /\ vuWaits = 0 /\ finishes = 0
  /\ sent = << >> /\ committed = 0 /\ executed = << >>

-----------------------------------------------------------------------------
(* The EE thread *)

EEGoto(pc) == eePc' = pc /\ UNCHANGED eeOp

\* SetEvent by the EE: wake the GS and forget the tally.
EESetEvent ==
  /\ m_sem_event' = m_sem_event + 1
  /\ m_CopyDataTally' = 0
  /\ UNCHANGED <<m_SignalRingEnable, m_SignalRingPosition, m_QueuedFrameCount,
                 m_VsyncSignalListener, m_sem_OnRingReset, m_sem_Vsync>>

\* SendSimplePacket, SendPointerPacket, SendSimpleGSPacket and PostVsyncStart
\* (PrepDataPacket) begin with GenericStall(size of the packet).
EESend ==
  /\ eePc = "idle"
  /\ Len(sent) < MaxPackets
  /\ eeOp' \in {Simple("SIMPLE"), GSPacket, Vsync}
  /\ eePc' = "stall"
  /\ UNCHANGED <<ringvars, signals, sems, gs, vu, hist, finishes>>

\* ResetGS, called by gsReset once the ring is empty: it forgets the queued
\* frames, then sends two packets and wakes the GS.
EEResetGS ==
  /\ eePc = "idle"
  /\ Len(sent) + 1 < MaxPackets
  /\ m_ReadPos = m_WritePos
  /\ m_ReadPos' = m_WritePos
  /\ m_QueuedFrameCount' = 0 /\ m_VsyncSignalListener' = FALSE
  /\ eeOp' = Simple("RESET")
  /\ eePc' = "stall"
  /\ UNCHANGED <<RingBuffer, m_WritePos, m_SignalRingEnable, m_SignalRingPosition,
                 m_CopyDataTally, sems, gs, vu, hist, finishes>>

\* Mutant: one slot too many, so that a full ring looks empty.
FreeRoom_OffByOne ==
  IF m_WritePos < m_ReadPos THEN m_ReadPos - m_WritePos + 1
  ELSE RingBufferSize - (m_WritePos - m_ReadPos) + 1

FreeRoom == IF m_WritePos < m_ReadPos THEN m_ReadPos - m_WritePos
            ELSE RingBufferSize - (m_WritePos - m_ReadPos)

\* somedone: how much GenericStall wants freed before it is woken.
SomeDone(size) ==
  LET quarter == (RingBufferSize - FreeRoom) \div 4
  IN  IF quarter < size + 1 THEN size + 1 ELSE quarter

EEGenericStall ==
  /\ eePc = "stall"
  /\ IF FreeRoom > eeOp.size
       THEN EEGoto("write") /\ UNCHANGED m_SignalRingPosition
     ELSE IF SomeDone(eeOp.size) > SpinLimit
       THEN EEGoto("enable") /\ m_SignalRingPosition' = SomeDone(eeOp.size)
     ELSE EEGoto("spinEvent") /\ UNCHANGED m_SignalRingPosition
  /\ UNCHANGED <<ringvars, m_SignalRingEnable, m_QueuedFrameCount, m_VsyncSignalListener,
                 m_CopyDataTally, sems, gs, vu, hist, finishes>>

EEStallEnable ==
  /\ eePc = "enable"
  /\ m_SignalRingEnable' = TRUE
  /\ EEGoto("stallEvent")
  /\ UNCHANGED <<ringvars, m_SignalRingPosition, m_QueuedFrameCount, m_VsyncSignalListener,
                 m_CopyDataTally, sems, gs, vu, hist, finishes>>

\* Mutant: the EE goes to sleep without waking the GS.
EEStallEvent_NoWake ==
  /\ eePc = "stallEvent"
  /\ EEGoto("stallWait")
  /\ UNCHANGED <<ringvars, signals, sems, gs, vu, hist, finishes>>

EEStallEvent ==
  /\ eePc = "stallEvent"
  /\ EESetEvent
  /\ EEGoto("stallWait")
  /\ UNCHANGED <<ringvars, gs, vu, hist, finishes>>

EEStallWait ==
  /\ eePc = "stallWait"
  /\ m_sem_OnRingReset > 0
  /\ m_sem_OnRingReset' = m_sem_OnRingReset - 1
  /\ EEGoto("recheck")
  /\ UNCHANGED <<ringvars, signals, m_sem_event, m_sem_Vsync, gs, vu, hist, finishes>>

EEStallRecheck ==
  /\ eePc = "recheck"
  /\ EEGoto(IF FreeRoom > eeOp.size THEN "write" ELSE "enable")
  /\ UNCHANGED <<ringvars, signals, sems, gs, vu, hist, finishes>>

EESpinEvent ==
  /\ eePc = "spinEvent"
  /\ EESetEvent
  /\ EEGoto("spin")
  /\ UNCHANGED <<ringvars, gs, vu, hist, finishes>>

EESpin ==
  /\ eePc = "spin"
  /\ FreeRoom > eeOp.size
  /\ EEGoto("write")
  /\ UNCHANGED <<ringvars, signals, sems, gs, vu, hist, finishes>>

\* The packet's slots.  A vsync's data wraps around the end of the ring.
EEWrite ==
  LET n    == Len(sent) + 1
      k(s) == (s - m_WritePos) % RingBufferSize   \* which slot of the packet s is
  IN
  /\ eePc = "write"
  /\ RingBuffer' = [s \in Slot |-> IF k(s) < eeOp.size THEN Word(n, k(s)) ELSE RingBuffer[s]]
  /\ sent' = Append(sent, [cmd |-> eeOp.cmd, size |-> eeOp.size, pos |-> m_WritePos])
  /\ EEGoto("commit")
  /\ UNCHANGED <<m_ReadPos, m_WritePos, signals, sems, gs, vu, committed, executed, finishes>>

\* Mutant: m_WritePos is not masked.
EECommit_NoMask ==
  /\ eePc = "commit"
  /\ m_WritePos' = m_WritePos + eeOp.size
  /\ committed' = Len(sent)
  /\ EEGoto("tally")
  /\ UNCHANGED <<RingBuffer, m_ReadPos, signals, sems, gs, vu, sent, executed, finishes>>

\* Mutant: m_WritePos is published before the packet's last slot is accounted for.
EECommit_Short ==
  /\ eePc = "commit"
  /\ m_WritePos' = (m_WritePos + eeOp.size - 1) % RingBufferSize
  /\ committed' = Len(sent)
  /\ EEGoto("tally")
  /\ UNCHANGED <<RingBuffer, m_ReadPos, signals, sems, gs, vu, sent, executed, finishes>>

\* _FinishSimplePacket and SendDataPacket publish m_WritePos.
EECommit ==
  /\ eePc = "commit"
  /\ m_WritePos' = (m_WritePos + eeOp.size) % RingBufferSize
  /\ committed' = Len(sent)
  /\ EEGoto("tally")
  /\ UNCHANGED <<RingBuffer, m_ReadPos, signals, sems, gs, vu, sent, executed, finishes>>

\* ++m_CopyDataTally of _FinishSimplePacket, or SendDataPacket's addition.  ResetGS
\* goes on with its second packet, then with SetEvent.
EETally ==
  /\ eePc = "tally"
  /\ m_CopyDataTally' = m_CopyDataTally + (IF eeOp.cmd = "VSYNC" THEN VsyncSize - 1 ELSE 1)
  /\ CASE eeOp.cmd = "VSYNC"     -> EEGoto("tallyTest")
       [] eeOp.cmd = "GSPACKET"  -> EEGoto("tallyMore")
       [] eeOp.cmd = "RESET"     -> eePc' = "stall" /\ eeOp' = Simple("FRAMESKIP")
       [] eeOp.cmd = "FRAMESKIP" -> EEGoto("tallyEvent")
       [] OTHER                  -> EEGoto("idle")
  /\ UNCHANGED <<ringvars, m_SignalRingEnable, m_SignalRingPosition, m_QueuedFrameCount,
                 m_VsyncSignalListener, sems, gs, vu, hist, finishes>>

\* SendSimpleGSPacket adds the size of the data.
EETallyMore ==
  /\ eePc = "tallyMore"
  /\ m_CopyDataTally' = m_CopyDataTally + GSWeight
  /\ EEGoto("tallyTest")
  /\ UNCHANGED <<ringvars, m_SignalRingEnable, m_SignalRingPosition, m_QueuedFrameCount,
                 m_VsyncSignalListener, sems, gs, vu, hist, finishes>>

\* The test reads the tally again: VU1 may have cleared it since.
EETallyTest ==
  /\ eePc = "tallyTest"
  /\ EEGoto(IF m_CopyDataTally > TallyLimit THEN "tallyEvent"
            ELSE IF eeOp.cmd = "VSYNC" THEN "vsyncTest" ELSE "idle")
  /\ UNCHANGED <<ringvars, signals, sems, gs, vu, hist, finishes>>

EETallyEvent ==
  /\ eePc = "tallyEvent"
  /\ EESetEvent
  /\ EEGoto(IF eeOp.cmd = "VSYNC" THEN "vsyncTest" ELSE "idle")
  /\ UNCHANGED <<ringvars, gs, vu, hist, finishes>>

\* Mutant: a vsync wakes the GS only when the tally limit is reached.
EEVsyncTest_NoWake ==
  /\ eePc = "vsyncTest"
  /\ EEGoto("frame")
  /\ UNCHANGED <<ringvars, signals, sems, gs, vu, hist, finishes>>

\* The rest of PostVsyncStart, from "if (m_CopyDataTally != 0) SetEvent()".
EEVsyncTest ==
  /\ eePc = "vsyncTest"
  /\ EEGoto(IF m_CopyDataTally # 0 THEN "vsyncEvent" ELSE "frame")
  /\ UNCHANGED <<ringvars, signals, sems, gs, vu, hist, finishes>>

EEVsyncEvent ==
  /\ eePc = "vsyncEvent"
  /\ EESetEvent
  /\ EEGoto("frame")
  /\ UNCHANGED <<ringvars, gs, vu, hist, finishes>>

\* Mutant: PostVsyncStart never waits for the queue to shrink.
EEQueueFrame_NoWait ==
  /\ eePc = "frame"
  /\ m_QueuedFrameCount' = m_QueuedFrameCount + 1
  /\ EEGoto("idle")
  /\ UNCHANGED <<ringvars, m_SignalRingEnable, m_SignalRingPosition, m_VsyncSignalListener,
                 m_CopyDataTally, sems, gs, vu, hist, finishes>>

EEQueueFrame ==
  /\ eePc = "frame"
  /\ m_QueuedFrameCount' = m_QueuedFrameCount + 1
  /\ EEGoto(IF m_QueuedFrameCount < VsyncQueueSize THEN "idle" ELSE "listen")
  /\ UNCHANGED <<ringvars, m_SignalRingEnable, m_SignalRingPosition, m_VsyncSignalListener,
                 m_CopyDataTally, sems, gs, vu, hist, finishes>>

EEVsyncListen ==
  /\ eePc = "listen"
  /\ m_VsyncSignalListener' = TRUE
  /\ EEGoto("vsyncPost")
  /\ UNCHANGED <<ringvars, m_SignalRingEnable, m_SignalRingPosition, m_QueuedFrameCount,
                 m_CopyDataTally, sems, gs, vu, hist, finishes>>

\* Mutant: no post after the listener is set; the GS may already have gone to sleep.
EEVsyncPost_NoPost ==
  /\ eePc = "vsyncPost"
  /\ EEGoto("vsyncWait")
  /\ UNCHANGED <<ringvars, signals, sems, gs, vu, hist, finishes>>

EEVsyncPost ==
  /\ eePc = "vsyncPost"
  /\ m_sem_event' = m_sem_event + 1
  /\ EEGoto("vsyncWait")
  /\ UNCHANGED <<ringvars, signals, m_sem_OnRingReset, m_sem_Vsync, gs, vu, hist, finishes>>

EEVsyncWait ==
  /\ eePc = "vsyncWait"
  /\ m_sem_Vsync > 0
  /\ m_sem_Vsync' = m_sem_Vsync - 1
  /\ EEGoto("idle")
  /\ UNCHANGED <<ringvars, signals, m_sem_event, m_sem_OnRingReset, gs, vu, hist, finishes>>

\* WaitGS: one SetEvent when there is something to do, then spin.
EECallWaitGS ==
  /\ eePc = "idle"
  /\ EEGoto(IF m_ReadPos # m_WritePos THEN "waitEvent" ELSE "waitGS")
  /\ UNCHANGED <<ringvars, signals, sems, gs, vu, hist, finishes>>

\* Mutant: WaitGS spins without waking the GS.
EEWaitEvent_NoWake ==
  /\ eePc = "waitEvent"
  /\ EEGoto("waitGS")
  /\ UNCHANGED <<ringvars, signals, sems, gs, vu, hist, finishes>>

EEWaitEvent ==
  /\ eePc = "waitEvent"
  /\ EESetEvent
  /\ EEGoto("waitGS")
  /\ UNCHANGED <<ringvars, gs, vu, hist, finishes>>

EEWaitGS ==
  /\ eePc = "waitGS"
  /\ m_ReadPos = m_WritePos
  /\ EEGoto("idle")
  /\ UNCHANGED <<ringvars, signals, sems, gs, vu, hist, finishes>>

-----------------------------------------------------------------------------
(* The frontend's thread: ExecuteTaskInThread *)

GSGoto(pc) == gsPc' = pc /\ UNCHANGED gsOp

\* retro_run
GSEnter ==
  /\ gsPc = "out"
  /\ GSGoto("sleep")
  /\ UNCHANGED <<ringvars, signals, sems, ee, vu, hist, finishes>>

GSWake ==
  /\ gsPc = "sleep"
  /\ m_sem_event > 0
  /\ m_sem_event' = m_sem_event - 1
  /\ GSGoto("check")
  /\ UNCHANGED <<ringvars, signals, m_sem_OnRingReset, m_sem_Vsync, ee, vu, hist, finishes>>

GSCheck ==
  /\ gsPc = "check"
  /\ GSGoto(IF m_ReadPos # m_WritePos THEN "exec" ELSE "empty")
  /\ UNCHANGED <<ringvars, signals, sems, ee, vu, hist, finishes>>

\* Packet n, seen from the slot its tag is in.
PacketIntact(n, pos) ==
  \A k \in 0 .. sent[n].size - 1 : RingBuffer[(pos + k) % RingBufferSize] = Word(n, k)

\* The switch on tag.command.  What the GS does with the packet is not modelled.
\* A slot that is no tag makes the switch undefined (jNO_DEFAULT): "wild".
GSExecute ==
  LET w == RingBuffer[m_ReadPos] IN
  /\ gsPc = "exec"
  /\ IF w.seq = 0 \/ w.off # 0
       THEN GSGoto("wild") /\ UNCHANGED <<executed, m_QueuedFrameCount>>
       ELSE /\ gsOp' = [cmd |-> sent[w.seq].cmd, size |-> sent[w.seq].size]
            /\ executed' = Append(executed, IF PacketIntact(w.seq, m_ReadPos) THEN w.seq ELSE 0)
            /\ IF sent[w.seq].cmd = "VSYNC"
                 THEN gsPc' = "vsync" /\ m_QueuedFrameCount' = m_QueuedFrameCount - 1
                 ELSE gsPc' = "advance" /\ UNCHANGED m_QueuedFrameCount
  /\ UNCHANGED <<ringvars, m_SignalRingEnable, m_SignalRingPosition, m_VsyncSignalListener,
                 m_CopyDataTally, sems, ee, vu, sent, committed, finishes>>

\* if (m_VsyncSignalListener.exchange(false)) m_sem_Vsync.Post()
AnswerListener ==
  /\ m_VsyncSignalListener' = FALSE
  /\ m_sem_Vsync' = IF m_VsyncSignalListener THEN m_sem_Vsync + 1 ELSE m_sem_Vsync

GSVsync ==
  /\ gsPc = "vsync"
  /\ AnswerListener
  /\ GSGoto("advance")
  /\ UNCHANGED <<ringvars, m_SignalRingEnable, m_SignalRingPosition, m_QueuedFrameCount,
                 m_CopyDataTally, m_sem_event, m_sem_OnRingReset, ee, vu, hist, finishes>>

GSAdvance ==
  /\ gsPc = "advance"
  /\ m_ReadPos' = (m_ReadPos + gsOp.size) % RingBufferSize
  /\ GSGoto("signal")
  /\ UNCHANGED <<RingBuffer, m_WritePos, signals, sems, ee, vu, hist, finishes>>

\* The EE asked to be woken after some amount of data.  When this packet fires
\* the signal the loop goes on, even after a vsync.
GSSignal ==
  /\ gsPc = "signal"
  /\ LET fires == m_SignalRingEnable /\ m_SignalRingPosition <= 0 IN
     /\ m_SignalRingPosition' = IF m_SignalRingEnable THEN m_SignalRingPosition - gsOp.size
                                ELSE m_SignalRingPosition
     /\ IF fires
          THEN /\ m_SignalRingEnable' = FALSE
               /\ m_sem_OnRingReset' = m_sem_OnRingReset + 1
               /\ GSGoto("check")
          ELSE /\ UNCHANGED <<m_SignalRingEnable, m_sem_OnRingReset>>
               /\ GSGoto(IF gsOp.cmd = "VSYNC" THEN "return" ELSE "check")
  /\ UNCHANGED <<ringvars, m_QueuedFrameCount, m_VsyncSignalListener, m_CopyDataTally,
                 m_sem_event, m_sem_Vsync, ee, vu, hist, finishes>>

\* Mutant: the flag is tested but not exchanged.
AnswerRingSignal_NoClear ==
  /\ IF m_SignalRingEnable
       THEN m_SignalRingPosition' = 0 /\ m_sem_OnRingReset' = m_sem_OnRingReset + 1
       ELSE UNCHANGED <<m_SignalRingPosition, m_sem_OnRingReset>>
  /\ UNCHANGED <<m_SignalRingEnable, m_QueuedFrameCount, m_VsyncSignalListener,
                 m_CopyDataTally, m_sem_event, m_sem_Vsync>>

\* The "dangling RingSignal" handler, the same text in three places.
AnswerRingSignal ==
  /\ m_SignalRingEnable' = FALSE
  /\ IF m_SignalRingEnable
       THEN m_SignalRingPosition' = 0 /\ m_sem_OnRingReset' = m_sem_OnRingReset + 1
       ELSE UNCHANGED <<m_SignalRingPosition, m_sem_OnRingReset>>
  /\ UNCHANGED <<m_QueuedFrameCount, m_VsyncSignalListener, m_CopyDataTally,
                 m_sem_event, m_sem_Vsync>>

\* After a vsync: back to the frontend.
GSReturn ==
  /\ gsPc = "return"
  /\ AnswerRingSignal
  /\ GSGoto("out")
  /\ UNCHANGED <<ringvars, ee, vu, hist, finishes>>

\* The ring is empty: answer whoever still waits, then sleep again.
GSEmpty ==
  /\ gsPc = "empty"
  /\ AnswerRingSignal
  /\ GSGoto("emptyVsync")
  /\ UNCHANGED <<ringvars, ee, vu, hist, finishes>>

GSEmptyVsync ==
  /\ gsPc = "emptyVsync"
  /\ AnswerListener
  /\ GSGoto("sleep")
  /\ UNCHANGED <<ringvars, m_SignalRingEnable, m_SignalRingPosition, m_QueuedFrameCount,
                 m_CopyDataTally, m_sem_event, m_sem_OnRingReset, ee, vu, hist, finishes>>

\* FinishTaskInThread, called by the frontend between two retro_run.
GSFinishTask ==
  /\ gsPc = "out"
  /\ finishes < MaxFinish
  /\ finishes' = finishes + 1
  /\ AnswerRingSignal
  /\ GSGoto("finish")
  /\ UNCHANGED <<ringvars, ee, vu, hist>>

GSFinishVsync ==
  /\ gsPc = "finish"
  /\ AnswerListener
  /\ GSGoto("out")
  /\ UNCHANGED <<ringvars, m_SignalRingEnable, m_SignalRingPosition, m_QueuedFrameCount,
                 m_CopyDataTally, m_sem_event, m_sem_OnRingReset, ee, vu, hist, finishes>>

-----------------------------------------------------------------------------
(* The VU1 thread waits for room in GIF path 1: WaitGS(false, true, true),   *)
(* whose SetEvent posts m_sem_event and then clears the EE's tally.  The tally *)
(* is a plain int: a clear between the load and the store of an addition by   *)
(* the EE is lost.                                                            *)

VUSetEventPost ==
  /\ THREAD_VU1
  /\ vuPc = "idle"
  /\ vuWaits < MaxVUWaits
  /\ vuWaits' = vuWaits + 1
  /\ m_sem_event' = m_sem_event + 1
  /\ vuPc' = "clear"
  /\ UNCHANGED <<ringvars, signals, m_sem_OnRingReset, m_sem_Vsync, ee, gs, hist, finishes>>

VUSetEventClear ==
  /\ vuPc = "clear"
  /\ \/ m_CopyDataTally' = 0
     \/ eePc \in {"tally", "tallyMore"} /\ UNCHANGED m_CopyDataTally
  /\ vuPc' = "idle"
  /\ UNCHANGED <<ringvars, m_SignalRingEnable, m_SignalRingPosition, m_QueuedFrameCount,
                 m_VsyncSignalListener, sems, ee, gs, vuWaits, hist, finishes>>

-----------------------------------------------------------------------------
EECall == EESend \/ EEResetGS \/ EECallWaitGS
EEStep == \/ EEGenericStall \/ EEStallEnable \/ EEStallEvent \/ EEStallWait
          \/ EEStallRecheck \/ EESpinEvent \/ EESpin \/ EEWrite \/ EECommit \/ EETally
          \/ EETallyMore \/ EETallyTest \/ EETallyEvent \/ EEVsyncTest \/ EEVsyncEvent
          \/ EEQueueFrame \/ EEVsyncListen \/ EEVsyncPost \/ EEVsyncWait
          \/ EEWaitEvent \/ EEWaitGS
GSStep == \/ GSEnter \/ GSWake \/ GSCheck \/ GSExecute \/ GSVsync \/ GSAdvance
          \/ GSSignal \/ GSReturn \/ GSEmpty \/ GSEmptyVsync \/ GSFinishVsync
VUStep == VUSetEventPost \/ VUSetEventClear

Next == EECall \/ EEStep \/ GSStep \/ GSFinishTask \/ VUStep

Spec == Init /\ [][Next]_vars

\* The EE keeps running while not blocked; the frontend keeps calling retro_run
\* and ExecuteTaskInThread keeps going while not blocked.
FairSpec == Spec /\ WF_vars(EEStep) /\ WF_vars(GSStep)

-----------------------------------------------------------------------------
(* Properties *)

Cmds  == {"SIMPLE", "RESET", "FRAMESKIP", "GSPACKET", "VSYNC"}
EEPcs == {"idle", "stall", "enable", "stallEvent", "stallWait", "recheck", "spinEvent",
          "spin", "write", "commit", "tally", "tallyMore", "tallyTest", "tallyEvent",
          "vsyncTest", "vsyncEvent", "frame", "listen", "vsyncPost",
          "vsyncWait", "waitEvent", "waitGS"}
GSPcs == {"out", "sleep", "check", "exec", "vsync", "advance", "signal", "return",
          "empty", "emptyVsync", "finish", "wild"}
Op    == [cmd : Cmds, size : Nat \ {0}]

TypeOK ==
  /\ RingBuffer \in [Slot -> [seq : Nat, off : Nat]]
  /\ m_ReadPos \in Slot /\ m_WritePos \in Slot
  /\ m_SignalRingEnable \in BOOLEAN /\ m_SignalRingPosition \in Int
  /\ m_QueuedFrameCount \in Int /\ m_VsyncSignalListener \in BOOLEAN
  /\ m_CopyDataTally \in Nat
  /\ m_sem_event \in Nat /\ m_sem_OnRingReset \in Nat /\ m_sem_Vsync \in Nat
  /\ eePc \in EEPcs /\ eeOp \in Op
  /\ gsPc \in GSPcs /\ gsOp \in Op
  /\ vuPc \in {"idle", "clear"} /\ vuWaits \in Nat /\ finishes \in Nat
  /\ sent \in Seq([cmd : Cmds, size : Nat \ {0}, pos : Slot])
  /\ committed \in 0 .. Len(sent)
  /\ executed \in Seq(Nat)

\* A published packet that the GS has not processed is in the ring slot for
\* slot: GenericStall never lets the EE overtake m_ReadPos, wrapped or not.
RingIntact ==
  \A n \in Len(executed) + 1 .. committed : PacketIntact(n, sent[n].pos)

\* The dev assertions of GenericStall: nobody has armed the ring signal when the
\* EE arms it, and the request is used up when the EE goes on.  With them: no
\* post of either semaphore is left over for a later wait to take by mistake.
SignalsPaired ==
  /\ eePc = "enable" => ~m_SignalRingEnable
  /\ (eePc = "recheck" /\ FreeRoom > eeOp.size) => m_SignalRingPosition <= 0
  /\ m_sem_OnRingReset + (IF m_SignalRingEnable THEN 1 ELSE 0)
       = (IF eePc \in {"stallEvent", "stallWait"} THEN 1 ELSE 0)
  /\ m_sem_Vsync + (IF m_VsyncSignalListener THEN 1 ELSE 0)
       = (IF eePc \in {"vsyncPost", "vsyncWait"} THEN 1 ELSE 0)

QueuedVsyncs == Cardinality({n \in Len(executed) + 1 .. committed : sent[n].cmd = "VSYNC"})

\* PostVsyncStart has published a vsync and not returned.
PostingVsync == /\ eeOp.cmd = "VSYNC"
                /\ eePc \in {"tally", "tallyTest", "tallyEvent", "vsyncTest", "vsyncEvent",
                             "frame", "listen", "vsyncPost", "vsyncWait"}

\* The limit on the vsyncs in the ring (a queue of frames "creates input lag"):
\* PostVsyncStart returns with VsyncQueueSize of them there, and one more because
\* the GS answers the listener some time after it has taken a frame off the count;
\* each FinishTaskInThread can let another one through, and so can a vsync the EE
\* still waits for.  The limit rests on a count that both threads change on their
\* own side of the publishing: it must not drift, down either, and is one short
\* only while a published vsync is not counted.
VsyncQueueBounded ==
  /\ QueuedVsyncs <= VsyncQueueSize + 1 + finishes + (IF PostingVsync THEN 1 ELSE 0)
  /\ m_QueuedFrameCount \in {QueuedVsyncs - 1, QueuedVsyncs}

GSAwake == gsPc \notin {"out", "sleep", "finish"}

EEBlocked ==
  \/ eePc \in {"spin", "waitGS"} /\ m_ReadPos # m_WritePos
  \/ eePc = "stallWait" /\ m_sem_OnRingReset = 0
  \/ eePc = "vsyncWait" /\ m_sem_Vsync = 0

\* While the EE is blocked on the GS there are enough posts of m_sem_event for
\* the GS to get through every queued vsync, after each of which it returns to
\* the frontend and waits again, and once more for the rest of the ring.  This
\* needs every vsync to have posted its own (PostVsyncStart): no VU1 thread.
WakeUpsSuffice ==
  EEBlocked => m_sem_event + (IF GSAwake THEN 1 ELSE 0) >= QueuedVsyncs + 1

\* PostVsyncStart's wait for the queue to shrink ends.
VsyncWaitEnds == eePc = "vsyncWait" ~> eePc = "idle"

\* GenericStall's sleep and its spin both end in the packet being written.
StallEnds == eePc \in {"enable", "spinEvent"} ~> eePc = "write"

\* WaitGS, "Waits for the GS to empty out the entire ring buffer contents", returns.
WaitGSReturns == eePc = "waitEvent" ~> eePc = "idle"

FIFO == INSTANCE PacketFIFO WITH
          Packet   <- 1 .. MaxPackets,
          produced <- [i \in 1 .. committed |-> i],
          consumed <- executed

\* The GS gets the EE's packets in order, each once, none overwritten.
ImplementsFIFO == FIFO!Spec
=============================================================================
