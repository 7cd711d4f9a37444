------------------------- MODULE SysThreadBase_proofs -------------------------
(***************************************************************************)
(* Theorems about Suspend, Pause and Resume: types for any controllers, and *)
(* for one controller that waits for "check" that a call returns with the   *)
(* worker parked, for any number of calls.                                  *)
(*                                                                         *)
(* The invariant for one controller says what the worker may be doing at    *)
(* each step of a call; the operators below name these phases.              *)
(***************************************************************************)
EXTENDS SysThreadBase, TLAPS

AtPaused == wPc \in {"paused", "waitPaused"}
AtClosed == wPc \in {"closed", "waitClosed"}

\* The worker's steps with m_RunningLock held.
Owning == {"event", "state", "setPaused", "setClosed", "releasePaused", "releaseClosed",
           "resumed", "run"}

\* The worker's steps outside its waits, up to the store that parks it.  Only this
\* store sets ExecMode_Paused or ExecMode_Closed.
Active == {"event", "state", "setPaused", "setClosed", "wakePaused", "wakeClosed",
           "resumed", "run"}

\* For any controllers.
BaseInv ==
  /\ TypeOK
  /\ m_RunningLock <=> wPc \in Owning
  /\ IsRunning => m_ExecMode # "NoThreadYet"
  /\ wPc \in Active => m_ExecMode \notin {"Paused", "Closed"}
  /\ wPc \in {"releasePaused", "paused", "waitPaused"} => m_ExecMode # "Closed"
  /\ wPc \in {"releaseClosed", "closed", "waitClosed"} => m_ExecMode # "Paused"

Unstarted == m_ExecMode = "NoThreadYet" /\ wPc = "none"
Stopped   == (m_ExecMode = "Closed" /\ AtClosed) \/ (m_ExecMode = "Paused" /\ AtPaused)
Running   == m_ExecMode = "Opened" /\ wPc \in {"run", "state"}

\* Resume has opened the worker, which may still be on its way out of its wait.
Released ==
  /\ m_ExecMode = "Opened"
  /\ AtPaused \/ AtClosed \/ wPc \in {"wakePaused", "wakeClosed", "resumed", "run", "state"}

\* A running (or new) worker has been asked to close, or to pause.
ToClose ==
  \/ m_ExecMode = "Closing" /\ wPc \in {"event", "run", "state", "setClosed"}
  \/ m_ExecMode = "Closed" /\ (wPc = "releaseClosed" \/ AtClosed)
ToPause ==
  \/ m_ExecMode = "Pausing" /\ wPc \in {"run", "state", "setPaused"}
  \/ m_ExecMode = "Paused" /\ (wPc = "releasePaused" \/ AtPaused)

\* A paused worker has been asked to close: it answers once, when it has seen it.
Unanswered ==
  /\ m_ExecMode = "Closing"
  /\ AtPaused \/ wPc \in {"wakePaused", "resumed"}
  /\ m_sem_ChangingExecMode = 0
Answered ==
  /\ \/ m_ExecMode = "Closing" /\ wPc = "setClosed"
     \/ m_ExecMode = "Closed" /\ (wPc = "releaseClosed" \/ AtClosed)
  /\ m_sem_ChangingExecMode = 1
Switching == Unanswered \/ Answered

\* What the worker is doing while the only controller, c, is at each of its steps.
Phase(c) ==
  /\ ctPc[c] = "idle" => Unstarted \/ Stopped \/ Released
  /\ ctPc[c] \in {"lock", "Suspend", "Pause", "Resume"} => Unstarted \/ Stopped \/ Running
  /\ ctPc[c] = "started" => wPc = "starting" \/ ToClose
  /\ ctPc[c] = "resumeWait" => ToClose
  /\ ctPc[c] = "open" => Stopped
  /\ ctPc[c] = "postResume" /\ ctOp[c] # "Suspend" => Released
  /\ ctPc[c] = "postResume" /\ ctOp[c] = "Suspend" => Switching
  /\ ctPc[c] = "waitChanging" => Switching
  /\ ctPc[c] \in {"postEvent", "waitRunning"} => ToClose \/ ToPause

\* Which operation it is in, where the steps do not tell.
InOp(c) ==
  /\ ctPc[c] \in {"lock", "Pause"} /\ ctOp[c] = "Pause" => m_ExecMode # "NoThreadYet"
  /\ ctPc[c] = "Suspend" => ctOp[c] = "Suspend"
  /\ ctPc[c] = "Pause" => ctOp[c] = "Pause"
  /\ ctPc[c] \in {"Resume", "started", "resumeWait", "open"} => ctOp[c] = "Resume"
  /\ ~(ctPc[c] = "waitChanging" \/ (ctPc[c] = "postResume" /\ ctOp[c] = "Suspend"))
       => m_sem_ChangingExecMode = 0

SoleInv(c) == BaseInv /\ Phase(c) /\ InOp(c)

-----------------------------------------------------------------------------
(* Types *)

LEMMA InitBase == Init => BaseInv
<1> SUFFICES ASSUME Init PROVE BaseInv
  OBVIOUS
<1>1. "idle" \in CtPcs /\ "Suspend" \in Ops /\ 0 \in Nat
  BY DEF CtPcs, Ops
<1>2. ctPc \in [Controllers -> CtPcs] /\ ctOp \in [Controllers -> Ops]
  BY <1>1 DEF Init
<1>3. calls \in [Controllers -> Nat]
  BY <1>1 DEF Init
<1> QED
  BY <1>2, <1>3 DEF Init, BaseInv, TypeOK, Modes, WPcs, Owning, Active, IsRunning

LEMMA WorkerBase ==
  ASSUME BaseInv, WStep
  PROVE  BaseInv'
<1> USE DEF BaseInv, TypeOK, ct, sems, Modes, WPcs, Owning, Active, IsRunning
<1>1. CASE WStart
  BY <1>1 DEF WStart
<1>2. CASE WEvent
  BY <1>2 DEF WEvent
<1>3. CASE WStateCheck
  <2>1. m_ExecMode \in {"Opened", "Pausing", "Closing"} /\ wPc = "state"
    BY <1>3 DEF WStateCheck
  <2>2. wPc' \in {"run", "setPaused", "setClosed"}
    BY <1>3, <2>1 DEF WStateCheck
  <2>3. UNCHANGED <<m_ExecMode, m_RunningLock, sems, ct>>
    BY <1>3 DEF WStateCheck
  <2>4. TypeOK'
    BY <2>2, <2>3
  <2> QED
    BY <2>1, <2>2, <2>3, <2>4
<1>4. CASE WSetPaused
  BY <1>4 DEF WSetPaused
<1>5. CASE WSetClosed
  BY <1>5 DEF WSetClosed
<1>6. CASE WRelease
  BY <1>6 DEF WRelease
<1>7. CASE WParked
  BY <1>7 DEF WParked
<1>8. CASE WWaitResume
  BY <1>8 DEF WWaitResume
<1>9. CASE WAcquire
  BY <1>9 DEF WAcquire
<1>10. CASE WResumed
  BY <1>10 DEF WResumed
<1>11. CASE WRun
  BY <1>11 DEF WRun
<1> QED
  BY <1>1, <1>2, <1>3, <1>4, <1>5, <1>6, <1>7, <1>8, <1>9, <1>10, <1>11 DEF WStep

LEMMA ControllerBase ==
  ASSUME BaseInv, NEW c \in Controllers, Call(c) \/ CtStep(c)
  PROVE  BaseInv'
<1> USE DEF BaseInv, TypeOK, sems, Modes, CtPcs, Ops, Goto, Unlock
<1>1. CASE Call(c)
  BY <1>1 DEF Call, IsRunning
<1>2. CASE Lock(c)
  BY <1>2 DEF Lock, IsRunning
<1>3. CASE Suspend(c)
  BY <1>3 DEF Suspend, IsRunning
<1>4. CASE PostResume(c)
  BY <1>4 DEF PostResume, IsRunning
<1>5. CASE WaitChanging(c)
  BY <1>5 DEF WaitChanging, IsRunning
<1>6. CASE Pause(c)
  BY <1>6 DEF Pause, IsRunning
<1>7. CASE PostEvent(c)
  BY <1>7 DEF PostEvent, IsRunning
<1>8. CASE WaitRunning(c)
  BY <1>8 DEF WaitRunning, IsRunning
<1>9. CASE Resume(c)
  BY <1>9 DEF Resume, IsRunning, WPcs, Owning, Active
<1>10. CASE Started(c)
  BY <1>10 DEF Started, IsRunning
<1>11. CASE ResumeWait(c)
  BY <1>11 DEF ResumeWait, IsRunning
<1>12. CASE Open(c)
  BY <1>12 DEF Open, IsRunning
<1> QED
  BY <1>1, <1>2, <1>3, <1>4, <1>5, <1>6, <1>7, <1>8, <1>9, <1>10, <1>11, <1>12 DEF CtStep

LEMMA NextBase == BaseInv /\ [Next]_vars => BaseInv'
<1> SUFFICES ASSUME BaseInv, [Next]_vars PROVE BaseInv'
  OBVIOUS
<1>1. CASE UNCHANGED vars
  BY <1>1 DEF vars, sems, BaseInv, TypeOK, IsRunning
<1> QED
  BY <1>1, WorkerBase, ControllerBase DEF Next

\* SysThreadBase's state stays of its types, and StateCheckInThread never meets
\* ExecMode_NoThreadYet, for which its switch has no case.
THEOREM TypeCorrect == Spec => []TypeOK
<1>1. BaseInv => TypeOK
  BY DEF BaseInv
<1> QED
  BY <1>1, InitBase, NextBase, PTL DEF Spec

-----------------------------------------------------------------------------
(* One controller *)

LEMMA InitSole ==
  ASSUME NEW c \in Controllers, Init
  PROVE  SoleInv(c)
<1>1. BaseInv
  BY InitBase
<1>2. ctPc[c] = "idle" /\ Unstarted /\ m_sem_ChangingExecMode = 0
  BY DEF Init, Unstarted
<1>3. Phase(c)
  BY <1>2 DEF Phase
<1>4. InOp(c)
  BY <1>2 DEF InOp
<1> QED
  BY <1>1, <1>3, <1>4 DEF SoleInv

\* A step of the worker keeps it within its phase.
LEMMA WorkerPhase ==
  ASSUME BaseInv, WStep
  PROVE  /\ ~Unstarted
         /\ Stopped => Stopped'
         /\ Released => Released'
         /\ Running => Running'
         /\ ToClose => ToClose'
         /\ ToPause => ToPause'
         /\ Switching => Switching'
         /\ wPc = "starting" => ToClose'
<1> USE DEF AtPaused, AtClosed, Unstarted, Stopped, Released, Running, ToClose, ToPause,
            Switching, Unanswered, Answered
<1>0. m_sem_ChangingExecMode \in Nat
  BY DEF BaseInv, TypeOK
<1>1. CASE WStart
  BY <1>1 DEF WStart
<1>2. CASE WEvent
  BY <1>2 DEF WEvent
<1>3. CASE WStateCheck
  BY <1>3 DEF WStateCheck, sems
<1>4. CASE WSetPaused
  BY <1>4 DEF WSetPaused, sems
<1>5. CASE WSetClosed
  BY <1>5 DEF WSetClosed, sems
<1>6. CASE WRelease
  BY <1>6 DEF WRelease, sems
<1>7. CASE WParked
  BY <1>7 DEF WParked, sems
<1>8. CASE WWaitResume
  BY <1>8 DEF WWaitResume
<1>9. CASE WAcquire
  BY <1>9 DEF WAcquire, sems
<1>10. CASE WResumed
  BY <1>0, <1>10 DEF WResumed
<1>11. CASE WRun
  BY <1>11 DEF WRun, sems
<1> QED
  BY <1>1, <1>2, <1>3, <1>4, <1>5, <1>6, <1>7, <1>8, <1>9, <1>10, <1>11 DEF WStep

LEMMA WorkerSole ==
  ASSUME NEW c \in Controllers, SoleInv(c), WStep
  PROVE  SoleInv(c)'
<1>1. BaseInv'
  BY WorkerBase DEF SoleInv
<1>2. UNCHANGED <<ctPc, ctOp>>
  BY DEF WStep, WStart, WEvent, WStateCheck, WSetPaused, WSetClosed, WRelease, WParked,
         WWaitResume, WAcquire, WResumed, WRun, ct
<1>3. Phase(c)'
  <2>1. /\ ~Unstarted /\ (Stopped => Stopped') /\ (Released => Released')
        /\ (Running => Running') /\ (ToClose => ToClose') /\ (ToPause => ToPause')
        /\ (Switching => Switching') /\ (wPc = "starting" => ToClose')
    BY WorkerPhase DEF SoleInv
  <2> QED
    BY <1>2, <2>1 DEF SoleInv, Phase
<1>4. InOp(c)'
  <2>1. m_ExecMode' # "NoThreadYet"
    <3>1. m_ExecMode # "NoThreadYet" \/ wPc = "starting"
      BY DEF WStep, WStart, WEvent, WStateCheck, WSetPaused, WSetClosed, WRelease, WParked,
             WWaitResume, WAcquire, WResumed, WRun, SoleInv, BaseInv, IsRunning
    <3> QED
      BY <3>1 DEF WStep, WStart, WEvent, WStateCheck, WSetPaused, WSetClosed, WRelease,
             WParked, WWaitResume, WAcquire, WResumed, WRun
  <2>2. WResumed /\ m_ExecMode = "Closing"
          => ctPc[c] = "waitChanging" \/ (ctPc[c] = "postResume" /\ ctOp[c] = "Suspend")
    <3>1. ctPc[c] \in CtPcs
      BY DEF SoleInv, BaseInv, TypeOK
    <3>2. SUFFICES ASSUME wPc = "resumed", m_ExecMode = "Closing"
                   PROVE  ctPc[c] = "waitChanging" \/ (ctPc[c] = "postResume" /\ ctOp[c] = "Suspend")
      BY DEF WResumed
    <3>3. ~Unstarted /\ ~Stopped /\ ~Running /\ ~Released /\ ~ToClose /\ ~ToPause
      BY <3>2 DEF Unstarted, Stopped, Running, Released, ToClose, ToPause
    <3> QED
      BY <3>1, <3>2, <3>3 DEF SoleInv, Phase, CtPcs
  <2>3. ~(WResumed /\ m_ExecMode = "Closing")
          => UNCHANGED m_sem_ChangingExecMode
    BY DEF WStep, WStart, WEvent, WStateCheck, WSetPaused, WSetClosed, WRelease, WParked,
           WWaitResume, WAcquire, WResumed, WRun, sems
  <2> QED
    BY <1>2, <2>1, <2>2, <2>3 DEF SoleInv, InOp
<1> QED
  BY <1>1, <1>3, <1>4 DEF SoleInv

\* A step of a call takes it from one phase to the next.
LEMMA ControllerSole ==
  ASSUME WaitFor = "check", NEW c \in Controllers, SoleInv(c), Call(c) \/ CtStep(c)
  PROVE  SoleInv(c)'
<1> DEFINE Phases == <<m_ExecMode, m_RunningLock, m_sem_ChangingExecMode, wPc>>
<1>0. /\ BaseInv /\ Phase(c) /\ InOp(c)
      /\ c \in DOMAIN ctPc /\ c \in DOMAIN ctOp /\ ctPc[c] \in CtPcs /\ ctOp[c] \in Ops
      /\ m_sem_ChangingExecMode \in Nat
  BY DEF SoleInv, BaseInv, TypeOK
<1>1. BaseInv'
  BY <1>0, ControllerBase
<1> USE DEF Goto, Unlock, sems, AtPaused, AtClosed, Phase, InOp
<1>2. CASE Call(c)
  <2>1. UNCHANGED Phases /\ ctPc[c] = "idle" /\ Awake
    BY <1>2 DEF Call
  <2>2. PICK op \in Ops :
          /\ ctOp' = [ctOp EXCEPT ![c] = op]
          /\ ctPc'[c] = "idle" \/ (ctPc'[c] = "lock" /\ (op = "Pause" => IsRunning))
    BY <1>0, <1>2 DEF Call, Ops
  <2>3. Unstarted \/ Stopped \/ Released
    BY <1>0, <2>1
  <2>4. Unstarted \/ Stopped \/ Running
    BY <1>0, <2>1, <2>3
       DEF Unstarted, Stopped, Released, Running, Awake, Waking, BaseInv, Owning, IsRunning
  <2>5. (Unstarted \/ Stopped \/ Released)' /\ (Unstarted \/ Stopped \/ Running)'
    BY <2>1, <2>3, <2>4 DEF Unstarted, Stopped, Released, Running
  <2>6. ctOp'[c] = op /\ (IsRunning => m_ExecMode' # "NoThreadYet")
    BY <1>0, <2>1, <2>2 DEF BaseInv
  <2>7. m_sem_ChangingExecMode' = 0
    BY <1>0, <2>1
  <2>8. Phase(c)'
    BY <2>2, <2>5
  <2>9. InOp(c)'
    BY <2>2, <2>6, <2>7
  <2> QED
    BY <1>1, <2>8, <2>9 DEF SoleInv
<1>3. CASE Lock(c)
  <2>1. /\ UNCHANGED Phases /\ ctPc[c] = "lock" /\ ctPc'[c] = ctOp[c] /\ ctOp' = ctOp
    BY <1>0, <1>3 DEF Lock
  <2>2. (Unstarted \/ Stopped \/ Running)' /\ m_sem_ChangingExecMode' = 0
    BY <1>0, <2>1 DEF Unstarted, Stopped, Running
  <2>3. Phase(c)'
    BY <1>0, <2>1, <2>2 DEF Ops
  <2>4. InOp(c)'
    BY <1>0, <2>1, <2>2 DEF Ops
  <2> QED
    BY <1>1, <2>3, <2>4 DEF SoleInv
<1>4. CASE Suspend(c)
  <2>1. /\ UNCHANGED <<wPc, m_sem_ChangingExecMode>> /\ ctPc[c] = "Suspend"
        /\ ctOp' = ctOp /\ ctOp[c] = "Suspend" /\ m_sem_ChangingExecMode = 0
        /\ Unstarted \/ Stopped \/ Running
    BY <1>0, <1>4 DEF Suspend
  <2>2. CASE Unlock(c, "idle") /\ UNCHANGED m_ExecMode
    <3>1. ctPc'[c] = "idle" /\ (Unstarted \/ Stopped \/ Released)'
      BY <1>0, <2>1, <2>2 DEF Unstarted, Stopped, Running, Released
    <3> QED
      BY <1>1, <2>1, <3>1 DEF SoleInv
  <2>3. CASE m_ExecMode = "Paused" /\ m_ExecMode' = "Closing" /\ Goto(c, "postResume")
    <3>1. ctPc'[c] = "postResume" /\ Switching'
      BY <1>0, <2>1, <2>3 DEF Unstarted, Stopped, Running, Switching, Unanswered
    <3> QED
      BY <1>1, <2>1, <3>1 DEF SoleInv
  <2>4. CASE m_ExecMode = "Opened" /\ m_ExecMode' = "Closing" /\ Goto(c, "postEvent")
    <3>1. ctPc'[c] = "postEvent" /\ ToClose'
      BY <1>0, <2>1, <2>4 DEF Unstarted, Stopped, Running, ToClose
    <3> QED
      BY <1>1, <2>1, <3>1 DEF SoleInv
  <2>5. m_ExecMode \notin {"Pausing", "Closing"}
    BY <2>1 DEF Unstarted, Stopped, Running
  <2> QED
    BY <1>4, <2>2, <2>3, <2>4, <2>5 DEF Suspend
<1>5. CASE PostResume(c)
  <2>1. UNCHANGED Phases /\ ctPc[c] = "postResume" /\ ctOp' = ctOp
    BY <1>5 DEF PostResume
  <2>2. CASE ctOp[c] = "Suspend"
    <3>1. ctPc'[c] = "waitChanging" /\ Switching'
      BY <1>0, <1>5, <2>1, <2>2 DEF PostResume, Switching, Unanswered, Answered
    <3> QED
      BY <1>1, <3>1 DEF SoleInv
  <2>3. CASE ctOp[c] # "Suspend"
    <3>1. ctPc'[c] = "idle" /\ Released' /\ m_sem_ChangingExecMode' = 0
      BY <1>0, <1>5, <2>1, <2>3 DEF PostResume, Released
    <3> QED
      BY <1>1, <3>1 DEF SoleInv
  <2> QED
    BY <2>2, <2>3
<1>6. CASE WaitChanging(c)
  <2>1. /\ UNCHANGED <<m_ExecMode, wPc>> /\ ctPc[c] = "waitChanging"
        /\ m_sem_ChangingExecMode > 0 /\ m_sem_ChangingExecMode' = m_sem_ChangingExecMode - 1
        /\ ctPc'[c] = "postEvent"
    BY <1>0, <1>6 DEF WaitChanging
  <2>2. Answered
    <3>1. Unanswered => m_sem_ChangingExecMode = 0
      BY DEF Unanswered
    <3>2. Switching
      BY <1>0, <2>1
    <3> QED
      BY <2>1, <3>1, <3>2 DEF Switching
  <2>3. m_sem_ChangingExecMode' = 0
    BY <2>1, <2>2 DEF Answered
  <2>4. ToClose'
    BY <2>1, <2>2 DEF Answered, ToClose
  <2> QED
    BY <1>1, <2>1, <2>3, <2>4 DEF SoleInv
<1>7. CASE Pause(c)
  <2>1. /\ UNCHANGED <<wPc, m_sem_ChangingExecMode>> /\ ctPc[c] = "Pause"
        /\ ctOp' = ctOp /\ ctOp[c] = "Pause" /\ m_sem_ChangingExecMode = 0
        /\ m_ExecMode # "NoThreadYet" /\ (Unstarted \/ Stopped \/ Running)
    BY <1>0, <1>7 DEF Pause
  <2>2. CASE Unlock(c, "idle") /\ UNCHANGED m_ExecMode
    <3>1. ctPc'[c] = "idle" /\ (Unstarted \/ Stopped \/ Released)'
      BY <1>0, <2>1, <2>2 DEF Unstarted, Stopped, Running, Released
    <3> QED
      BY <1>1, <2>1, <3>1 DEF SoleInv
  <2>3. CASE m_ExecMode = "Opened" /\ m_ExecMode' = "Pausing" /\ Goto(c, "postEvent")
    <3>1. ctPc'[c] = "postEvent" /\ ToPause'
      BY <1>0, <2>1, <2>3 DEF Unstarted, Stopped, Running, ToPause
    <3> QED
      BY <1>1, <2>1, <3>1 DEF SoleInv
  <2>4. m_ExecMode \in {"Closed", "Paused", "Opened"}
    BY <2>1 DEF Unstarted, Stopped, Running
  <2> QED
    BY <1>7, <2>2, <2>3, <2>4 DEF Pause
<1>8. CASE PostEvent(c)
  <2>1. UNCHANGED Phases /\ ctPc[c] = "postEvent" /\ ctPc'[c] = "waitRunning"
    BY <1>0, <1>8 DEF PostEvent
  <2>2. (ToClose \/ ToPause)' /\ m_sem_ChangingExecMode' = 0
    BY <1>0, <2>1 DEF ToClose, ToPause
  <2> QED
    BY <1>1, <2>1, <2>2 DEF SoleInv
<1>9. CASE WaitRunning(c)
  <2>1. UNCHANGED Phases /\ ctPc[c] = "waitRunning" /\ ctPc'[c] = "idle" /\ ~m_RunningLock
    BY <1>0, <1>9 DEF WaitRunning
  <2>2. ToClose \/ ToPause
    BY <1>0, <2>1
  <2>3. Stopped' /\ m_sem_ChangingExecMode' = 0
    BY <1>0, <2>1, <2>2 DEF ToClose, ToPause, Stopped, BaseInv, Owning
  <2> QED
    BY <1>1, <2>1, <2>3 DEF SoleInv
<1>10. CASE Resume(c)
  <2>1. /\ UNCHANGED <<m_ExecMode, m_sem_ChangingExecMode>> /\ ctPc[c] = "Resume"
        /\ ctOp' = ctOp /\ ctOp[c] = "Resume" /\ m_sem_ChangingExecMode = 0
        /\ Unstarted \/ Stopped \/ Running
    BY <1>0, <1>10 DEF Resume
  <2>2. CASE m_ExecMode = "Opened" /\ Unlock(c, "idle") /\ UNCHANGED wPc
    <3>1. ctPc'[c] = "idle" /\ Released'
      BY <1>0, <2>1, <2>2 DEF Unstarted, Stopped, Running, Released
    <3> QED
      BY <1>1, <2>1, <3>1 DEF SoleInv
  <2>3. CASE wPc' = "starting" /\ Goto(c, "started")
    <3>1. ctPc'[c] = "started"
      BY <1>0, <2>3
    <3> QED
      BY <1>1, <2>1, <2>3, <3>1 DEF SoleInv
  <2>4. CASE m_ExecMode \in {"Paused", "Closed"} /\ Goto(c, "open") /\ UNCHANGED wPc
    <3>1. ctPc'[c] = "open" /\ Stopped'
      BY <1>0, <2>1, <2>4 DEF Unstarted, Stopped, Running
    <3> QED
      BY <1>1, <2>1, <3>1 DEF SoleInv
  <2>5. m_ExecMode \notin {"Pausing", "Closing"}
    BY <2>1 DEF Unstarted, Stopped, Running
  <2> QED
    BY <1>10, <2>2, <2>3, <2>4, <2>5 DEF Resume
<1>11. CASE Started(c)
  <2>1. /\ UNCHANGED Phases /\ ctPc[c] = "started" /\ ctPc'[c] = "resumeWait" /\ IsRunning
        /\ ctOp' = ctOp
    BY <1>0, <1>11 DEF Started
  <2>2. ToClose' /\ m_sem_ChangingExecMode' = 0 /\ ctOp'[c] = "Resume"
    BY <1>0, <2>1 DEF ToClose, IsRunning
  <2> QED
    BY <1>1, <2>1, <2>2 DEF SoleInv
<1>12. CASE ResumeWait(c)
  <2>1. /\ UNCHANGED Phases /\ ctPc[c] = "resumeWait" /\ ~m_RunningLock /\ ctOp' = ctOp
    BY <1>12 DEF ResumeWait
  <2>2. Stopped /\ m_ExecMode \in {"Closed", "Paused"}
    BY <1>0, <2>1 DEF ToClose, Stopped, BaseInv, Owning
  <2>3. Stopped' /\ m_sem_ChangingExecMode' = 0 /\ ctOp'[c] = "Resume"
    BY <1>0, <2>1, <2>2 DEF Stopped
  <2>4. ctPc'[c] = "open"
    BY <1>0, <1>12, <2>2 DEF ResumeWait
  <2> QED
    BY <1>1, <2>3, <2>4 DEF SoleInv
<1>13. CASE Open(c)
  <2>1. /\ UNCHANGED <<m_sem_ChangingExecMode, wPc>> /\ m_ExecMode' = "Opened" /\ ctOp' = ctOp
        /\ ctPc[c] = "open" /\ ctPc'[c] = "postResume"
    BY <1>0, <1>13 DEF Open
  <2>2. Released' /\ m_sem_ChangingExecMode' = 0 /\ ctOp'[c] = "Resume"
    BY <1>0, <2>1 DEF Stopped, Released
  <2> QED
    BY <1>1, <2>1, <2>2 DEF SoleInv
<1> QED
  BY <1>2, <1>3, <1>4, <1>5, <1>6, <1>7, <1>8, <1>9, <1>10, <1>11, <1>12, <1>13 DEF CtStep

LEMMA NextSole ==
  ASSUME WaitFor = "check", NEW c \in Controllers, Controllers = {c}
  PROVE  SoleInv(c) /\ [Next]_vars => SoleInv(c)'
<1> SUFFICES ASSUME SoleInv(c), [Next]_vars PROVE SoleInv(c)'
  OBVIOUS
<1>1. CASE WStep
  BY <1>1, WorkerSole
<1>2. CASE Call(c) \/ CtStep(c)
  BY <1>2, ControllerSole
<1>3. CASE UNCHANGED vars
  <2>1. BaseInv'
    BY <1>3, NextBase DEF SoleInv
  <2>2. Phase(c)'
    BY <1>3 DEF vars, sems, SoleInv, Phase, Unstarted, Stopped, Released, Running, ToClose,
                ToPause, Switching, Unanswered, Answered, AtPaused, AtClosed
  <2>3. InOp(c)'
    BY <1>3 DEF vars, sems, SoleInv, InOp
  <2> QED
    BY <2>1, <2>2, <2>3 DEF SoleInv
<1> QED
  BY <1>1, <1>2, <1>3 DEF Next

\* Suspend and Pause come back with the worker parked, however many calls the one
\* controller makes, if it leaves a resumed worker time to leave StateCheckInThread.
THEOREM ParksBeforeReturn ==
  ASSUME WaitFor = "check", NEW c \in Controllers, Controllers = {c}
  PROVE  Spec => ParkedOnReturn
<1>1. Init => SoleInv(c)
  BY InitSole
<1>2. SoleInv(c) /\ [Next]_vars => SoleInv(c)'
  BY NextSole
<1>3. SoleInv(c) /\ [Next]_vars => [ReturnsParked]_vars
  <2> SUFFICES ASSUME SoleInv(c), Next, ctPc[c] = "waitRunning", ctPc'[c] = "idle"
               PROVE  wPc \in {"paused", "closed", "waitPaused", "waitClosed"}
    BY DEF ReturnsParked
  <2>1. CASE WStep
    <3>1. ctPc' = ctPc
      BY <2>1 DEF WStep, WStart, WEvent, WStateCheck, WSetPaused, WSetClosed, WRelease,
                  WParked, WWaitResume, WAcquire, WResumed, WRun, ct
    <3> QED
      BY <3>1
  <2>2. CASE WaitRunning(c)
    <3>1. ToClose \/ ToPause
      BY DEF SoleInv, Phase
    <3>2. wPc \notin Owning
      BY <2>2 DEF WaitRunning, SoleInv, BaseInv
    <3> QED
      BY <3>1, <3>2 DEF ToClose, ToPause, AtPaused, AtClosed, Owning
  <2>3. Call(c) \/ CtStep(c) => WaitRunning(c)
    BY DEF Call, CtStep, Lock, Suspend, PostResume, WaitChanging, Pause, PostEvent,
           Resume, Started, ResumeWait, Open
  <2> QED
    BY <2>1, <2>2, <2>3 DEF Next
<1>4. Spec => []SoleInv(c)
  BY <1>1, <1>2, PTL DEF Spec
<1> QED
  BY <1>3, <1>4, PTL DEF Spec, ParkedOnReturn
===============================================================================
