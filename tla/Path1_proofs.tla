---------------------------- MODULE Path1_proofs ----------------------------
(***************************************************************************)
(* Path 1 end to end: the invariants of the mailbox and of the path's       *)
(* buffer, put together with what the EE counts.  The theorems hold for     *)
(* every buffer, safe zone, XGKICK, output and queue size, and for every    *)
(* set of A+D writes that the assumptions of the modules allow.             *)
(***************************************************************************)
EXTENDS Path1, GSInterrupts_proofs, GifPath_proofs

\* The EE's programs and their MTVU packets, one for one.
Sent ==
  /\ eePc \in {"idle", "commit", "gif", "collect"} /\ eeRet \in {"idle", "collect"}
  /\ started \in 0 .. MaxPrograms /\ fakePackets \in Nat /\ gsRing \in Nat
  /\ gsRing + fakePackets = programs + Len(gsPackQueue) + One(Busy)
  /\ Len(finished) + programs + One(Busy) + One(eePc = "commit") = started
  /\ eePc = "gif" => fakePackets > 0
  /\ gsPc # "idle" => gsRing > 0

\* Why the EE keeps MTVU packets back.
KeptBack == (eePc \in {"idle", "collect"} /\ fakePackets > 0) => gsSIGNAL.queued \/ overrun

IInv == MailInv /\ PathInv /\ Sent /\ KeptBack

-----------------------------------------------------------------------------
(* What a step does to the parts *)

\* Every step is a step of the mailbox, or leaves it alone.
LEMMA NextMail ==
  ASSUME [Next]_vars
  PROVE  MailStep
<1> USE DEF MailStep
<1>1. CASE EERuns
  BY <1>1 DEF EERuns, EEPoll, EEExecuteVU, EECommit, EEExecuteGif, EECollect, EEGetGSChanges,
              ChangesRun, EECSRSignal, EECSRWrite
<1>2. CASE VURuns
  BY <1>2 DEF VURuns, HandlerStarts, HandlerRuns
<1>3. CASE GSThread
  BY <1>3 DEF GSThread
<1>4. CASE UNCHANGED vars
  BY <1>4 DEF vars
<1> QED
  BY <1>1, <1>2, <1>3, <1>4 DEF Next

\* Every step but EECommit is a step of the path, or leaves it alone.
LEMMA NextPath ==
  ASSUME [Next]_vars, ~EECommit
  PROVE  PathStep
<1> USE DEF PathStep, pathVars, ends
<1>1. CASE EERuns
  BY <1>1 DEF EERuns, EEPoll, EEExecuteVU, EEExecuteGif, EECollect, EEGetGSChanges,
              EECSRSignal, EECSRWrite
<1>2. CASE VURuns
  BY <1>2 DEF VURuns, VUPathSteps
<1>3. CASE GSThread
  BY <1>3 DEF GSThread
<1>4. CASE UNCHANGED vars
  BY <1>4 DEF vars
<1> QED
  BY <1>1, <1>2, <1>3, <1>4 DEF Next

\* A program put into the ring: there is room for it in the bound.
LEMMA CommitPath ==
  ASSUME PathInv, Sent, EECommit
  PROVE  PathInv'
<1>1. UNCHANGED <<buffer, curSize, curOffset, gsPack, readAmount, gsPackQueue, semaXGkick,
                  vuPc, vuCopies, vuStart, gsPc, gsCur, output, finished, transferred>>
      /\ programs' = programs + 1
  BY DEF EECommit, path, vu, gs
<1>2. Gaps' /\ Layout' /\ PacketsIntact'
  <2>1. Unread' = Unread
    BY <1>1 DEF Unread
  <2> QED
    BY <1>1, <2>1, SameLayout DEF path
<1>3. PathShape'
  BY <1>1 DEF PathInv, PathShape
<1>4. Budget'
  <2>1. programs \in Nat /\ started \in 0 .. MaxPrograms /\ Len(finished) \in Nat
    BY PathFacts DEF Sent, PathInv, PathShape
  <2>2. Len(finished) + programs + One(Busy) + 1 = started
    BY DEF Sent, EECommit, One
  <2>3. PICK b \in Nat : b = One(Busy)
    BY DEF One
  <2>4. Len(finished) + (programs + 1) + b <= MaxPrograms
    BY <2>1, <2>2, <2>3, GifPathAssumption
  <2>5. One(Busy)' = b
    BY <1>1, <2>3 DEF One, Busy
  <2> QED
    BY <1>1, <2>4, <2>5 DEF Budget
<1>5. Building' /\ Counted'
  BY <1>1 DEF PathInv, Building, Kicking, CopiesLeft, Counted
<1> QED
  BY <1>2, <1>3, <1>4, <1>5 DEF PathInv

\* The steps of the mailbox but for the acknowledgement of a SIGNAL.
NoAcknowledge ==
  \/ HandlerStarts \/ HandlerRuns \/ GCLoad \/ ChangesRun
  \/ CSRFinish \/ CSRReset \/ GIFReset \/ UNCHANGED gsiVars

\* A stalled SIGNAL leaves the EE only by being acknowledged, or it is noted.
LEMMA StallNoted ==
  ASSUME NoAcknowledge, gsSIGNAL.queued \/ overrun
  PROVE  gsSIGNAL'.queued \/ overrun'
<1> USE DEF csr, eeHist
<1>1. CASE GCSignalClear
  BY <1>1 DEF GCSignalClear
<1>2. CASE CSRReset
  BY <1>2 DEF CSRReset
<1>3. CASE GIFReset
  BY <1>3 DEF GIFReset
<1>4. CASE CSRFinish
  BY <1>4 DEF CSRFinish
<1>5. CASE \/ ADSignal \/ ADSignalStore \/ ADSignalFlag \/ ADFinish
           \/ ADLabel \/ ADLabelSwap \/ ADLabelFlag
  BY <1>5 DEF ADSignal, ADSignalStore, ADSignalFlag, ADFinish, ADLabel, ADLabelSwap, ADLabelFlag
<1>6. CASE GCLoad \/ GCSignalLoad \/ GCFinish \/ GCLabelClear \/ GCLabelTake \/ UNCHANGED gsiVars
  BY <1>6 DEF GCLoad, GCSignalLoad, GCFinish, GCLabelClear, GCLabelTake, gsiVars
<1> QED
  BY <1>1, <1>2, <1>3, <1>4, <1>5, <1>6 DEF NoAcknowledge, HandlerStarts, HandlerRuns, ChangesRun

\* The path's counts, when a step leaves them all alone.
LEMMA SentSame ==
  ASSUME Sent, UNCHANGED <<programs, gsPackQueue, finished, fakePackets, gsRing, ee>>,
         Busy' = Busy, gsPc' # "idle" => gsPc # "idle"
  PROVE  Sent'
BY DEF Sent, ee, One

\* Steps of VU1.
LEMMA SentVU ==
  ASSUME PathInv, Sent, VUPathSteps, UNCHANGED ee
  PROVE  Sent'
<1>0. /\ Len(gsPackQueue) \in Nat /\ Len(finished) \in Nat /\ programs \in Nat
      /\ gsPackQueue \in Seq(Packets) /\ finished \in Seq(0 .. MaxOutput)
  BY PathFacts DEF PathInv, PathShape
<1>1. CASE VUBegin
  <2>1. /\ UNCHANGED <<gsPackQueue, finished, fakePackets, gsRing, gsPc, eePc, eeRet, started>>
        /\ programs' = programs - 1 /\ programs > 0 /\ One(Busy) = 0 /\ One(Busy)' = 1
    BY <1>1 DEF VUBegin, gs, ee, Busy, One
  <2> QED
    BY <1>0, <2>1 DEF Sent, One
<1>2. CASE VUPush
  <2>1. /\ UNCHANGED <<programs, fakePackets, gsRing, gsPc, eePc, eeRet, started>>
        /\ gsPackQueue' = Append(gsPackQueue, gsPack) /\ finished' = Append(finished, gsPack.size)
        /\ One(Busy) = 1 /\ One(Busy)' = 0
    BY <1>2 DEF VUPush, gs, ee, ends, Busy, One
  <2>2. Len(gsPackQueue') = Len(gsPackQueue) + 1 /\ Len(finished') = Len(finished) + 1
    <3>1. gsPack \in Packets /\ gsPack.size \in 0 .. MaxOutput
      BY DEF PathInv, PathShape, Packets
    <3> QED
      BY <1>0, <2>1, <3>1, AppendProperties
  <2>3. PICK n \in Nat, l \in Nat : n = Len(gsPackQueue) /\ l = Len(finished)
    BY <1>0
  <2>4. gsRing + fakePackets = programs + n + 1 /\ l + programs + 1 + One(eePc = "commit") = started
    BY <2>1, <2>3 DEF Sent
  <2>5. PICK b \in Nat : b = One(eePc = "commit") /\ b = One(eePc = "commit")'
    BY <2>1 DEF One
  <2>6. gsRing + fakePackets = programs + (n + 1) + 0 /\ (l + 1) + programs + 0 + b = started
    <3>1. programs \in Nat
      BY <1>0
    <3> QED
      BY <2>4, <2>5, <3>1
  <2> QED
    BY <2>1, <2>2, <2>3, <2>5, <2>6 DEF Sent
<1>3. CASE \/ VUXGkick \/ VURealign \/ VURoom \/ VUReadWait \/ VUParse \/ VUFinish \/ VUPost
  <2>1. /\ UNCHANGED <<programs, gsPackQueue, finished, fakePackets, gsRing, ee, gsPc>>
    BY <1>3 DEF VUXGkick, VURealign, VURoom, VUReadWait, VUParse, VUFinish, VUPost, ends, gs
  <2>2. Busy' = Busy
    BY <1>3 DEF VUXGkick, VURealign, VURoom, VUReadWait, VUParse, VUFinish, VUPost, Busy,
                CopyStep, ExecuteStep, CallReadWait
  <2> QED
    BY <2>1, <2>2, SentSame
<1> QED
  BY <1>1, <1>2, <1>3 DEF VUPathSteps

\* Steps of the GS thread.
LEMMA SentGS ==
  ASSUME PathInv, Sent, GSRuns, UNCHANGED ee
  PROVE  Sent'
<1>1. CASE GSPop
  <2>1. /\ UNCHANGED <<programs, fakePackets, finished, vuPc, eePc, eeRet, started>>
        /\ gsPackQueue' = Tail(gsPackQueue) /\ gsRing' = gsRing - 1 /\ gsPc' = "idle"
        /\ gsPc = "pop" /\ Busy' = Busy
    BY <1>1 DEF GSPop, vu, ee, Busy
  <2>2. gsPackQueue \in Seq(Packets) /\ gsPackQueue # << >> /\ programs \in Nat
    <3>1. Len(gsPackQueue) > 0
      <4>1. Len(gsPackQueue) = semaXGkick + 1 + One(vuPc = "post") /\ semaXGkick \in Nat
        BY <2>1 DEF PathInv, Counted, PathShape, One
      <4>2. One(vuPc = "post") \in Nat
        BY DEF One
      <4> QED
        BY <4>1, <4>2
    <3> QED
      BY <3>1 DEF PathInv, PathShape
  <2>3. PICK n \in Nat : Len(gsPackQueue) = n + 1 /\ Len(gsPackQueue') = n
    <3>1. Len(Tail(gsPackQueue)) = Len(gsPackQueue) - 1 /\ Len(Tail(gsPackQueue)) \in Nat
          /\ Len(gsPackQueue) \in Nat
      BY <2>2, HeadTailProperties, LenProperties
    <3>2. PICK m \in Nat, k \in Nat : m = Len(gsPackQueue) /\ k = Len(Tail(gsPackQueue)) /\ k = m - 1
      BY <3>1
    <3>3. m = k + 1
      BY <3>2
    <3> QED
      BY <2>1, <3>2, <3>3
  <2>4. PICK b \in Nat : b = One(Busy) /\ b = One(Busy)'
    BY <2>1 DEF One
  <2>5. gsRing + fakePackets = programs + (n + 1) + b /\ gsRing > 0 /\ gsRing \in Nat /\ fakePackets \in Nat
    BY <2>1, <2>3, <2>4 DEF Sent
  <2>6. (gsRing - 1) + fakePackets = programs + n + b /\ gsRing - 1 \in Nat
    BY <2>2, <2>5
  <2> QED
    BY <2>1, <2>3, <2>4, <2>6 DEF Sent
<1>2. CASE GSWaitXGkick
  <2>1. /\ UNCHANGED <<programs, gsPackQueue, finished, fakePackets, gsRing, eePc, eeRet, started, vuPc>>
        /\ gsRing > 0 /\ Busy' = Busy
    BY <1>2 DEF GSWaitXGkick, ends, vu, ee, Busy
  <2> QED
    BY <2>1 DEF Sent, One
<1>3. CASE GSTransfer \/ GSRelease
  <2>1. /\ UNCHANGED <<programs, gsPackQueue, finished, fakePackets, gsRing, ee, vuPc>>
        /\ gsPc # "idle" /\ Busy' = Busy
    BY <1>3 DEF GSTransfer, GSRelease, ends, vu, Busy
  <2> QED
    BY <2>1, SentSame
<1> QED
  BY <1>1, <1>2, <1>3 DEF GSRuns

\* Steps of the EE.
LEMMA SentEE ==
  ASSUME PathInv, Sent, EERuns
  PROVE  Sent'
<1>0. /\ programs \in Nat /\ fakePackets \in Nat /\ gsRing \in Nat /\ started \in Nat
      /\ Len(gsPackQueue) \in Nat /\ Len(finished) \in Nat
  BY PathFacts, GifPathAssumption DEF Sent, PathInv, PathShape
<1>1. PICK b \in Nat : b = One(Busy)
  BY DEF One
<1> USE DEF ee, pathVars, path, ends, vu, gs
<1>2. CASE EEPoll \/ EEGetGSChanges \/ EECSRWrite
  <2>1. UNCHANGED <<programs, gsPackQueue, finished, fakePackets, gsRing, ee, vuPc, gsPc>>
    BY <1>2 DEF EEPoll, EEGetGSChanges, EECSRWrite
  <2>2. Busy' = Busy
    BY <2>1 DEF Busy
  <2> QED
    BY <2>1, <2>2, SentSame
<1>3. CASE EEExecuteVU
  <2>1. /\ UNCHANGED <<programs, gsPackQueue, finished, fakePackets, gsRing, eeRet, vuPc, gsPc>>
        /\ started < MaxPrograms /\ started' = started + 1
        /\ eePc' = "commit" /\ One(eePc = "commit") = 0 /\ One(eePc = "commit")' = 1
    BY <1>3 DEF EEExecuteVU, One
  <2>2. One(Busy)' = b
    BY <1>1, <2>1 DEF One, Busy
  <2>3. Len(finished) + programs + b + 1 = started + 1 /\ started + 1 \in 0 .. MaxPrograms
    BY <1>0, <1>1, <2>1, GifPathAssumption DEF Sent
  <2> QED
    BY <1>1, <2>1, <2>2, <2>3 DEF Sent
<1>4. CASE EECommit
  <2>1. /\ UNCHANGED <<gsPackQueue, finished, gsRing, started, vuPc, gsPc>>
        /\ programs' = programs + 1 /\ fakePackets' = fakePackets + 1
        /\ eePc' \in {"gif", "collect"} /\ eeRet' = "collect"
        /\ One(eePc = "commit") = 1 /\ One(eePc = "commit")' = 0
    BY <1>4 DEF EECommit, One
  <2>2. One(Busy)' = b
    BY <1>1, <2>1 DEF One, Busy
  <2>3. /\ Len(finished) + (programs + 1) + b + 0 = started
        /\ gsRing + (fakePackets + 1) = (programs + 1) + Len(gsPackQueue) + b
        /\ fakePackets + 1 > 0 /\ fakePackets + 1 \in Nat
    <3>1. PICK n \in Nat, l \in Nat : n = Len(gsPackQueue) /\ l = Len(finished)
      BY <1>0
    <3>2. l + programs + b + 1 = started /\ gsRing + fakePackets = programs + n + b
      BY <1>1, <2>1, <3>1 DEF Sent
    <3>3. /\ l + (programs + 1) + b + 0 = started
          /\ gsRing + (fakePackets + 1) = (programs + 1) + n + b
          /\ fakePackets + 1 > 0 /\ fakePackets + 1 \in Nat
      BY <1>0, <3>2
    <3> QED
      BY <3>1, <3>3
  <2> QED
    BY <1>1, <2>1, <2>2, <2>3 DEF Sent
<1>5. CASE EEExecuteGif
  <2>1. /\ UNCHANGED <<programs, gsPackQueue, finished, started, vuPc, gsPc, eeRet>>
        /\ gsRing' = gsRing + 1 /\ fakePackets' = fakePackets - 1
        /\ eePc = "gif" /\ eePc' = IF fakePackets' = 0 THEN eeRet ELSE "gif"
    BY <1>5 DEF EEExecuteGif
  <2>2. One(Busy)' = b
    BY <1>1, <2>1 DEF One, Busy
  <2>3. /\ (gsRing + 1) + (fakePackets - 1) = programs + Len(gsPackQueue) + b
        /\ fakePackets - 1 \in Nat /\ gsRing + 1 \in Nat /\ gsRing + 1 > 0
        /\ fakePackets - 1 # 0 => fakePackets - 1 > 0
    BY <1>0, <1>1, <2>1 DEF Sent
  <2>4. One(eePc = "commit") = 0 /\ One(eePc = "commit")' = 0
    BY <2>1 DEF One, Sent
  <2>5. eePc' \in {"idle", "gif", "collect"}
    BY <2>1 DEF Sent
  <2> QED
    BY <1>1, <2>1, <2>2, <2>3, <2>4, <2>5 DEF Sent
<1>6. CASE EECollect
  <2>1. /\ UNCHANGED <<programs, gsPackQueue, finished, fakePackets, gsRing, eeRet, started, vuPc, gsPc>>
        /\ eePc' = "idle" /\ One(eePc = "commit") = 0 /\ One(eePc = "commit")' = 0
    BY <1>6 DEF EECollect, One
  <2>2. One(Busy)' = b
    BY <1>1, <2>1 DEF One, Busy
  <2> QED
    BY <1>1, <2>1, <2>2 DEF Sent
<1>7. CASE EECSRSignal
  <2>1. /\ UNCHANGED <<programs, gsPackQueue, finished, fakePackets, gsRing, started, vuPc, gsPc>>
        /\ eePc' \in {"gif", "idle"} /\ eeRet' = "idle" /\ (eePc' = "gif" => fakePackets > 0)
        /\ One(eePc = "commit") = 0 /\ One(eePc = "commit")' = 0
    BY <1>7 DEF EECSRSignal, One
  <2>2. One(Busy)' = b
    BY <1>1, <2>1 DEF One, Busy
  <2> QED
    BY <1>1, <2>1, <2>2 DEF Sent
<1> QED
  BY <1>2, <1>3, <1>4, <1>5, <1>6, <1>7 DEF EERuns

\* Every step keeps the counts.
LEMMA SentStep ==
  ASSUME PathInv, Sent, [Next]_vars
  PROVE  Sent'
<1>1. CASE VURuns
  <2>1. CASE UNCHANGED <<pathVars, ee>>
    BY <2>1, SentSame DEF pathVars, ends, vu, gs, Busy
  <2> QED
    BY <1>1, <2>1, SentVU DEF VURuns
<1>2. CASE GSThread
  BY <1>2, SentGS DEF GSThread
<1>3. CASE UNCHANGED vars
  BY <1>3, SentSame DEF vars, pathVars, ends, vu, gs, Busy
<1> QED
  BY <1>1, <1>2, <1>3, SentEE DEF Next

\* Every step keeps the reason why packets are kept back.
LEMMA KeptStep ==
  ASSUME Sent, KeptBack, [Next]_vars
  PROVE  KeptBack'
<1> USE DEF ee, pathVars, path, ends
<1>1. CASE EECSRSignal
  <2>1. eePc' = (IF fakePackets > 0 THEN "gif" ELSE "idle") /\ fakePackets' = fakePackets
    BY <1>1 DEF EECSRSignal
  <2> QED
    BY <2>1 DEF KeptBack
<1>2. CASE EECommit
  <2>1. gsSIGNAL' = gsSIGNAL
    BY <1>2 DEF EECommit, gsiVars, csr
  <2> QED
    BY <1>2, <2>1 DEF EECommit, CanDoGif, KeptBack
<1>3. CASE EEExecuteGif
  <2>1. eePc' = (IF fakePackets' = 0 THEN eeRet ELSE "gif")
    BY <1>3 DEF EEExecuteGif
  <2>2. fakePackets' = 0 => ~(fakePackets' > 0)
    OBVIOUS
  <2> QED
    BY <2>1, <2>2 DEF KeptBack
<1>4. CASE EEExecuteVU
  BY <1>4 DEF EEExecuteVU, KeptBack
<1>5. CASE \/ EEPoll \/ EECollect \/ EEGetGSChanges \/ EECSRWrite \/ VURuns \/ GSThread
           \/ UNCHANGED vars
  <2>1. fakePackets' = fakePackets
    BY <1>5 DEF EEPoll, EECollect, EEGetGSChanges, EECSRWrite, VURuns, GSThread, vars,
       VUPathSteps, VUBegin, VUXGkick, VURealign, VURoom, VUReadWait, VUParse, VUFinish, VUPush,
       VUPost, GSRuns, GSWaitXGkick, GSTransfer, GSRelease, GSPop
  <2>2. eePc' \in {"idle", "collect"} => eePc \in {"idle", "collect"}
    BY <1>5 DEF EEPoll, EECollect, EEGetGSChanges, EECSRWrite, VURuns, GSThread, vars
  <2>3. NoAcknowledge
    BY <1>5 DEF NoAcknowledge, EEPoll, EECollect, EEGetGSChanges, EECSRWrite, VURuns, GSThread, vars
  <2> QED
    BY <2>1, <2>2, <2>3, StallNoted DEF KeptBack
<1> QED
  BY <1>1, <1>2, <1>3, <1>4, <1>5 DEF Next, EERuns

-----------------------------------------------------------------------------
(* Waiting for the GS *)

\* With nothing queued, all the GS had to read was read: VU1 is not stuck.
LEMMA StuckHasQueue ==
  ASSUME PathInv, VUStuck
  PROVE  gsPackQueue # << >>
<1> SUFFICES ASSUME gsPackQueue = << >> PROVE FALSE
  OBVIOUS
<1>0. PathShape /\ Building /\ Counted /\ Gaps /\ Layout
  BY DEF PathInv
<1>1. PICK o \in Nat, c \in Nat, r \in Nat :
        o = gsPack.offset /\ c = curSize /\ r = gsPack.readAmount
  BY PathFacts
<1>2. Len(gsPackQueue) = 0 /\ At(gsPackQueue, gsPack, 1) = gsPack
  BY DEF At
<1>3. Unread = r
  <2>1. PICK f \in 1 .. 1, w \in 1 .. 1 :
          LaidOut(gsPackQueue, gsPack, curSize, Unread, FirstUnread, f, w)
    BY <1>0, <1>2 DEF Layout
  <2>2. Unread = r + o - o
    BY <1>1, <1>2, <2>1 DEF LaidOut
  <2> QED
    BY <2>2
<1>4. r > 0 => o = 0 /\ r + MaxOutput < buffLimit
  <2>1. 1 \in 1 .. Len(gsPackQueue) + 1
    BY <1>2
  <2> QED
    BY <1>0, <1>1, <1>2, <2>1 DEF Gaps
<1>5. PackStart = o
  BY <1>1, PathFacts
<1>6. CASE vuPc \in {"realign", "realignWait"}
  <2>1. o > MaxOutput /\ c - o <= MaxOutput /\ r = 0
    BY <1>1, <1>6, RealignPlace
  <2>2. getReadAmount = 0
    BY <1>1, <1>3, <1>6, <2>1, PathFacts DEF Unread, getReadAmount
  <2>3. ~(c - o > o) /\ o - 0 >= c - o - 0
    BY <2>1, GifPathAssumption
  <2>4. FrontFree(PackStart, curSize - PackStart)
    BY <1>1, <1>5, <2>2, <2>3 DEF FrontFree
  <2> QED
    BY <1>6, <2>4 DEF VUStuck
<1>7. CASE vuPc \in {"room", "roomWait"}
  <2>1. getReadAmount = r
    BY <1>1, <1>3, <1>7 DEF Unread, getReadAmount
  <2>2. vuCopies \in Seq(Nat \ {0}) /\ vuCopies # << >> /\ Len(vuCopies) <= 2
    BY <1>0, <1>7 DEF Building, PathShape
  <2>3. PICK m \in Nat, s \in Nat : m = CopiesLeft /\ s = vuCopies[1] /\ s <= m
    BY <2>2, LeftNat DEF CopiesLeft
  <2>4. Head(vuCopies) = s
    BY <2>2, <2>3
  <2>5. c - o + m = output /\ output \in Nat /\ output <= MaxOutput
    <3>1. curSize - gsPack.offset + CopiesLeft = output
      BY <1>0, <1>7 DEF Building, Kicking
    <3> QED
      BY <1>1, <2>3, <3>1, PathFacts
  <2>6. o - r >= 0 \/ buffLimit + (o - r) > c + s
    BY <1>4, <2>3, <2>5, GifPathAssumption
  <2>7. HasRoom(s)
    BY <1>1, <1>5, <2>1, <2>6 DEF HasRoom
  <2> QED
    BY <1>7, <2>4, <2>7 DEF VUStuck
<1>8. CASE vuPc = "push"
  <2>1. Len(gsPackQueue) # QueueSize
    BY <1>2, GifPathAssumption
  <2> QED
    BY <1>8, <2>1 DEF VUStuck
<1> QED
  BY <1>6, <1>7, <1>8 DEF VUStuck

-----------------------------------------------------------------------------
(* The inductive invariant and what follows from it *)

\* The invariant holds initially.
LEMMA InitInv == Init => IInv
<1> SUFFICES ASSUME Init PROVE IInv
  OBVIOUS
<1>1. MailInv /\ PathInv
  BY MailInit, PathStart DEF Init
<1>2. Sent
  <2>1. started \in 0 .. MaxPrograms
    BY GifPathAssumption DEF Init
  <2> QED
    BY <2>1 DEF Sent, Init, PathInit, One, Busy
<1>3. KeptBack
  BY DEF KeptBack, Init, PathInit
<1> QED
  BY <1>1, <1>2, <1>3 DEF IInv

\* Every step keeps it.
LEMMA StepInv == IInv /\ [Next]_vars => IInv'
<1> SUFFICES ASSUME IInv, [Next]_vars PROVE IInv'
  OBVIOUS
<1>0. MailInv /\ PathInv /\ Sent /\ KeptBack
  BY DEF IInv
<1>1. MailInv'
  BY <1>0, NextMail, MailboxStep
<1>2. PathInv'
  BY <1>0, NextPath, PathKept, CommitPath
<1>3. Sent' /\ KeptBack'
  BY <1>0, SentStep, KeptStep
<1> QED
  BY <1>1, <1>2, <1>3 DEF IInv

\* The inductive invariant: the mailbox's, the buffer's and the EE's counts together.
THEOREM Invariance == Spec => []IInv
BY InitInv, StepInv, PTL DEF Spec

\* Where the counts stand, within the bounds.
LEMMA SentBounds ==
  ASSUME PathInv, Sent
  PROVE  /\ fakePackets \in 0 .. MaxPrograms /\ programs \in 0 .. MaxPrograms
         /\ gsRing \in 0 .. MaxPrograms /\ semaXGkick \in 0 .. MaxPrograms
<1>1. PICK n \in Nat, l \in Nat, b \in Nat, d \in Nat :
        n = Len(gsPackQueue) /\ l = Len(finished) /\ b = One(Busy) /\ d = One(eePc = "commit")
  BY PathFacts DEF One
<1>2. PICK x \in Nat, y \in Nat : x = One(gsPc # "idle") /\ y = One(vuPc = "post")
  BY DEF One
<1>3. n = semaXGkick + x + y /\ n <= l /\ semaXGkick \in Nat /\ programs \in Nat
  BY <1>1, <1>2 DEF PathInv, Counted, PathShape
<1>4. /\ gsRing + fakePackets = programs + n + b /\ l + programs + b + d = started
      /\ gsRing \in Nat /\ fakePackets \in Nat /\ started \in 0 .. MaxPrograms
  BY <1>1 DEF Sent
<1> QED
  BY <1>3, <1>4, GifPathAssumption

\* The type invariant; with it CopyGSPacketData's "Gif Path Buffer Overflow!" never
\* fires (curSize <= buffSize), and the queue of packets never holds more than its
\* size.
THEOREM TypeCorrect == Spec => []TypeOK
<1>1. IInv => TypeOK
  <2> SUFFICES ASSUME IInv PROVE TypeOK
    OBVIOUS
  <2>1. GSITypeOK /\ PathShape /\ PathInv /\ Sent
    BY DEF IInv, MailInv, PathInv
  <2>2. PathTypeOK
    BY <2>1, SentBounds DEF PathTypeOK, PathShape
  <2> QED
    BY <2>1, <2>2 DEF TypeOK, Sent
<1> QED
  BY <1>1, Invariance, PTL

\* VU1, which knows of the reader only a count of quadwords, never writes over data
\* the GS has to read, nor over what the running program has kicked.
THEOREM BufferIntact == Spec => []PacketsIntact
<1>1. IInv => PacketsIntact
  BY DEF IInv, PathInv
<1> QED
  BY <1>1, Invariance, PTL

\* Every VU program has one MTVU packet on its way to the GS, every queued packet one
\* count of semaXGkick, and MTVU packets are kept back only for a stalled SIGNAL.
THEOREM Paired == Spec => []ProgramsPaired
<1>1. IInv => ProgramsPaired
  <2> SUFFICES ASSUME IInv PROVE ProgramsPaired
    OBVIOUS
  <2>0. PathShape /\ Counted /\ Sent /\ KeptBack
    BY DEF IInv, PathInv
  <2>1. gsRing + fakePackets = programs + Len(gsPackQueue) + Count(vuPc \notin {"idle", "post"})
    BY <2>0 DEF Sent, One, Busy, Count
  <2>2. Len(gsPackQueue) = semaXGkick + Count(gsPc \in {"get", "release", "pop"})
                                      + Count(vuPc = "post")
    <3>1. gsPc # "idle" <=> gsPc \in {"get", "release", "pop"}
      BY <2>0 DEF PathShape
    <3> QED
      BY <2>0, <3>1 DEF Counted, One, Count
  <2> QED
    BY <2>0, <2>1, <2>2 DEF ProgramsPaired, KeptBack
<1> QED
  BY <1>1, Invariance, PTL

\* VU1 never waits in the buffer for what nobody will do.
THEOREM WaitsForGS == Spec => []VUWaitsForGS
<1>1. IInv => VUWaitsForGS
  <2> SUFFICES ASSUME IInv, VUStuck, ~GSCanMove, eePc = "idle"
               PROVE  fakePackets > 0 /\ (gsSIGNAL.queued \/ overrun)
    BY DEF VUWaitsForGS
  <2>0. PathInv /\ PathShape /\ Counted /\ Sent /\ KeptBack
    BY DEF IInv, PathInv
  <2>1. PICK n \in Nat : n = Len(gsPackQueue) /\ n > 0
    <3>1. gsPackQueue # << >> /\ gsPackQueue \in Seq(Packets)
      BY <2>0, StuckHasQueue DEF PathShape
    <3>2. Len(gsPackQueue) \in Nat /\ Len(gsPackQueue) # 0
      BY <3>1, EmptySeq
    <3>3. PICK n \in Nat : n = Len(gsPackQueue) /\ n # 0
      BY <3>2
    <3> QED
      BY <3>3
  <2>2. gsPc = "idle" /\ vuPc # "post"
    BY DEF GSCanMove, VUStuck
  <2>3. n = semaXGkick + 0 + 0 /\ semaXGkick \in Nat
    BY <2>0, <2>1, <2>2 DEF Counted, One, PathShape
  <2>4. semaXGkick > 0
    BY <2>1, <2>3
  <2>5. ~(gsRing > 0)
    BY <2>4 DEF GSCanMove
  <2>6. /\ gsRing \in Nat /\ fakePackets \in Nat /\ programs \in Nat
        /\ gsRing + fakePackets = programs + n + One(Busy)
    BY <2>0, <2>1 DEF Sent, PathShape
  <2>7. One(Busy) \in Nat
    BY DEF One
  <2>8. fakePackets > 0
    BY <2>1, <2>5, <2>6, <2>7
  <2> QED
    BY <2>0, <2>8 DEF KeptBack
<1> QED
  BY <1>1, Invariance, PTL

\* No SIGNAL is lost, repeated or altered on its way to SIGID, but in the three cases
\* the code gives up.
THEOREM SignalsKept == Spec => []SignalsInOrder
<1>1. IInv => SignalsInOrder
  BY DEF IInv, MailInv
<1> QED
  BY <1>1, Invariance, PTL

\* Coalescing LABEL writes loses none, no value waits without its flag, and no FINISH
\* is cleared unseen.
THEOREM PostsArrive == Spec => []PostsKept
<1>1. IInv => PostsKept
  BY DEF IInv, MailInv
<1> QED
  BY <1>1, Invariance, PTL

\* The GS gets each program's packet once, in order and whole: a push is the FIFO's
\* Put, a transfer its Get, and every other step leaves both ends alone.
THEOREM PathImplementsFIFO == Spec => ImplementsFIFO
<1>1. Init => FIFO!Init
  BY DEF Init, PathInit, FIFO!Init
<1>2. IInv /\ [Next]_vars => [FIFO!Next]_<<finished, transferred>>
  <2> SUFFICES ASSUME IInv, [Next]_vars PROVE [FIFO!Next]_<<finished, transferred>>
    OBVIOUS
  <2>0. PathInv /\ PathShape
    BY DEF IInv, PathInv
  <2>1. CASE VUPush
    <3>1. /\ finished' = Append(finished, gsPack.size) /\ transferred' = transferred
          /\ gsPack.size \in 0 .. MaxOutput
      BY <2>0, <2>1 DEF VUPush, PathShape, Packets
    <3> QED
      BY <3>1 DEF FIFO!Next, FIFO!Put
  <2>2. CASE GSTransfer
    <3>1. /\ Len(transferred) < Len(finished) /\ finished' = finished
          /\ transferred' = Append(transferred, finished[Len(transferred) + 1])
      BY <2>0, <2>2, TransferStep DEF GSTransfer
    <3> QED
      BY <3>1 DEF FIFO!Next, FIFO!Get
  <2>3. CASE ~VUPush /\ ~GSTransfer
    <3>1. CASE EECommit
      BY <3>1 DEF EECommit
    <3>2. CASE ~EECommit
      <4>1. PathStep
        BY <3>2, NextPath
      <4> QED
        BY <2>3, <4>1 DEF PathStep, VUBegin, VUXGkick, VURealign, VURoom, VUReadWait, VUParse,
                          VUFinish, VUPost, GSRuns, GSWaitXGkick, GSRelease, GSPop
    <3> QED
      BY <3>1, <3>2
  <2> QED
    BY <2>1, <2>2, <2>3
<1> QED
  BY <1>1, <1>2, Invariance, PTL DEF Spec, ImplementsFIFO, FIFO!Spec
=============================================================================
