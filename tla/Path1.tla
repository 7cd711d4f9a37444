------------------------------- MODULE Path1 -------------------------------
(***************************************************************************)
(* Path 1 of the GIF with a VU1 thread, end to end: the EE starts VU        *)
(* programs (VU_Thread::ExecuteVU), VU1 kicks GS data into the path's       *)
(* buffer (module GifPath) and posts the SIGNAL, FINISH and LABEL writes it *)
(* meets there (module GSInterrupts), the GS thread transfers the packets,  *)
(* and the EE collects the posts.  The parts meet in two places: a register *)
(* write is posted in the middle of parsing an XGKICK, and a SIGNAL that    *)
(* stalls keeps the EE from sending the MTVU packets (CanDoGif).            *)
(*                                                                         *)
(* The MTVU ring and the MTGS ring are modules of their own; here they are  *)
(* the counters `programs` and `gsRing`.  The other two paths are idle and  *)
(* GIF_STAT.PSE and DIR are 0.                                              *)
(***************************************************************************)
EXTENDS GSInterrupts, GifPath

CONSTANT MaxEvents       \* bound: programs and A+D writes together in a behaviour

ASSUME Path1Assumption == MaxEvents \in Nat

VARIABLES eePc, eeRet,   \* EE: step, step after Gif_Unit::Execute
          started        \* programs started, counted against the bounds

ee   == <<eePc, eeRet, started>>
vars == <<gsiVars, pathVars, ee>>

MoreEvents == started + writes < MaxEvents

Init == GSIInit /\ PathInit /\ eePc = "idle" /\ eeRet = "idle" /\ started = 0

CanDoGif == ~gsSIGNAL.queued

-----------------------------------------------------------------------------
(* The EE thread.  Its steps wait for the end of Get_GSChanges. *)

\* ExecuteBlock of VU1, called by the EE's event test.
EEPoll ==
  /\ eePc = "idle"
  /\ GCLoad
  /\ UNCHANGED <<pathVars, ee>>

\* ExecuteVU: "Clear any pending interrupts".
EEExecuteVU ==
  /\ eePc = "idle"
  /\ started < MaxPrograms /\ MoreEvents
  /\ GCLoad
  /\ eePc' = "commit" /\ started' = started + 1
  /\ UNCHANGED <<pathVars, eeRet>>

\* Mutant: a stalled SIGNAL makes TransferGSPacketData drop the packet.
EECommit_Drop ==
  /\ eePc = "commit" /\ gcPc = "idle"
  /\ programs' = programs + 1
  /\ fakePackets' = IF CanDoGif THEN fakePackets + 1 ELSE fakePackets
  /\ eePc' = IF CanDoGif THEN "gif" ELSE "collect"
  /\ eeRet' = "collect"
  /\ UNCHANGED <<gsiVars, path, readAmount, gsPackQueue, gsRing, semaXGkick, vu, gs, output,
                 finished, transferred, started>>

\* The program is in the ring; then TransferGSPacketData(GIF_TRANS_MTVU).
EECommit ==
  /\ eePc = "commit" /\ gcPc = "idle"
  /\ programs' = programs + 1
  /\ fakePackets' = fakePackets + 1
  /\ eePc' = IF CanDoGif THEN "gif" ELSE "collect"
  /\ eeRet' = "collect"
  /\ UNCHANGED <<gsiVars, path, readAmount, gsPackQueue, gsRing, semaXGkick, vu, gs, output,
                 finished, transferred, started>>

\* A turn of the loop in Gif_Unit::Execute: ExecuteGSPacket hands out a fake packet,
\* which goes to the MTGS ring as GS_RINGTYPE_MTVU_GSPACKET.
EEExecuteGif ==
  /\ eePc = "gif"
  /\ fakePackets' = fakePackets - 1 /\ gsRing' = gsRing + 1
  /\ eePc' = IF fakePackets' = 0 THEN eeRet ELSE "gif"
  /\ UNCHANGED <<gsiVars, path, readAmount, gsPackQueue, programs, semaXGkick, vu, gs, output,
                 finished, transferred, eeRet, started>>

\* The Get_GSChanges at the end of ExecuteVU.
EECollect ==
  /\ eePc = "collect"
  /\ GCLoad
  /\ eePc' = "idle"
  /\ UNCHANGED <<pathVars, eeRet, started>>

EEGetGSChanges == ChangesRun /\ UNCHANGED <<pathVars, ee>>

\* The program's writes to GS_CSR and GIF_CTRL.  Acknowledging SIGNAL resumes the
\* GIF; a reset does not.
EECSRSignal ==
  /\ eePc = "idle" /\ gcPc = "idle"
  /\ CSRSignal
  /\ eePc' = IF fakePackets > 0 THEN "gif" ELSE "idle"
  /\ eeRet' = "idle"
  /\ UNCHANGED <<pathVars, started>>

EECSRWrite ==
  /\ eePc = "idle" /\ gcPc = "idle"
  /\ CSRFinish \/ CSRReset \/ GIFReset
  /\ UNCHANGED <<pathVars, ee>>

EERuns ==
  \/ EEPoll \/ EEExecuteVU \/ EECommit \/ EEExecuteGif \/ EECollect
  \/ EEGetGSChanges \/ EECSRSignal \/ EECSRWrite

-----------------------------------------------------------------------------
(* The VU1 thread: the handler runs inside the parsing of an XGKICK *)

VUPathSteps ==
  \/ VUBegin \/ VUXGkick \/ VURealign \/ VURoom \/ VUReadWait
  \/ (VUParse /\ adPc = "idle")
  \/ VUFinish \/ VUPush \/ VUPost

VURuns ==
  \/ VUPathSteps /\ UNCHANGED <<gsiVars, ee>>
  \/ vuPc = "parse" /\ ((HandlerStarts /\ MoreEvents) \/ HandlerRuns) /\ UNCHANGED <<pathVars, ee>>

GSThread == GSRuns /\ UNCHANGED <<gsiVars, ee>>

-----------------------------------------------------------------------------
Next == EERuns \/ VURuns \/ GSThread

Spec == Init /\ [][Next]_vars

-----------------------------------------------------------------------------
(* Properties *)

\* The type invariant of the composition.
TypeOK ==
  /\ GSITypeOK /\ PathTypeOK
  /\ eePc \in {"idle", "commit", "gif", "collect"} /\ eeRet \in {"idle", "collect"}
  /\ started \in 0 .. MaxPrograms

Count(b) == IF b THEN 1 ELSE 0

\* Every VU program has one MTVU packet on its way to the GS and every queued path 1
\* packet one count of semaXGkick, so that the GS never finds the queue empty
\* ("Expected gsPackQueue to have elements!") or waits for a program that does not
\* exist; and the EE keeps MTVU packets back only while a SIGNAL is stalled, or
\* after a reset has forgotten the stalled SIGNAL without resuming the GIF.
ProgramsPaired ==
  /\ gsRing + fakePackets = programs + Len(gsPackQueue) + Count(vuPc \notin {"idle", "post"})
  /\ Len(gsPackQueue) = semaXGkick + Count(gsPc \in {"get", "release", "pop"})
                                   + Count(vuPc = "post")
  /\ (eePc = "idle" /\ fakePackets > 0) => gsSIGNAL.queued \/ overrun

\* VU1 is in a loop of RealignPacket, CopyGSPacketData or FinishGSPacketMTVU that
\* goes round again.
VUStuck ==
  \/ vuPc \in {"realign", "realignWait"} /\ ~FrontFree(PackStart, curSize - PackStart)
  \/ vuPc \in {"room", "roomWait"} /\ ~HasRoom(Head(vuCopies))
  \/ vuPc = "push" /\ Len(gsPackQueue) = QueueSize

GSCanMove ==
  \/ gsRing > 0 /\ semaXGkick > 0
  \/ gsPc # "idle"

\* VU1 never waits in the buffer for what nobody will do: while it does, the GS
\* thread has a packet to work on, or the EE has the packet's MTVU tag and is about
\* to send it or keeps it back for a SIGNAL.  In particular the GS does not wait for
\* the program that waits for it, and the gap a realigned packet leaves is not
\* counted as unread once everything was read.
VUWaitsForGS ==
  VUStuck => GSCanMove \/ eePc # "idle" \/ (fakePackets > 0 /\ (gsSIGNAL.queued \/ overrun))
=============================================================================
