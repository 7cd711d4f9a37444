--------------------------- MODULE SysThreadBase ---------------------------
(***************************************************************************)
(* Suspend, Pause and Resume of an emulation thread                         *)
(* (pcsx2/System/SysThreadBase.cpp; SysCoreThread is the worker).           *)
(*                                                                         *)
(* Controllers call Suspend(true), Pause and Resume; the worker looks at    *)
(* m_ExecMode in StateCheckInThread and parks itself.  m_RunningLock is     *)
(* held by the worker while it is not parked: a controller waits on it to   *)
(* learn that the worker has parked.  m_ExecModeMutex keeps controllers     *)
(* apart, but the worker changes m_ExecMode without it.                     *)
(*                                                                         *)
(* A worker that Resume has released owns m_RunningLock again only once it  *)
(* has woken up, and then looks at m_ExecMode once more before it goes on.  *)
(* WaitFor says how long controllers leave it alone before the next call;   *)
(* nothing in the code makes them.                                          *)
(***************************************************************************)
EXTENDS Naturals

CONSTANTS
  Controllers,      \* threads that call Suspend, Pause and Resume
  WaitFor,          \* what controllers let a resumed worker do before they call again
  MaxCalls          \* bound: calls of one controller

ASSUME SysThreadAssumption == WaitFor \in {"nothing", "lock", "check"} /\ MaxCalls \in Nat

VARIABLES
  m_ExecMode,
  m_ExecModeMutex,          \* "none" or the controller that holds it
  m_RunningLock,            \* TRUE while the worker holds it
  m_sem_Resume, m_sem_ChangingExecMode, m_sem_event,
  wPc,                      \* worker: step
  ctPc, ctOp,               \* controller: step, operation it is in or did last
  calls                     \* controller: calls made

sems == <<m_sem_Resume, m_sem_ChangingExecMode, m_sem_event>>
vars == <<m_ExecMode, m_ExecModeMutex, m_RunningLock, sems, wPc, ctPc, ctOp, calls>>

Ops == {"Suspend", "Pause", "Resume"}

Init ==
  /\ m_ExecMode = "NoThreadYet"
  /\ m_ExecModeMutex = "none"
  /\ m_RunningLock = FALSE
  /\ m_sem_Resume = 0 /\ m_sem_ChangingExecMode = 0 /\ m_sem_event = 0
  /\ wPc = "none"
  /\ ctPc = [c \in Controllers |-> "idle"]
  /\ ctOp = [c \in Controllers |-> "Suspend"]
  /\ calls = [c \in Controllers |-> 0]

IsRunning == wPc \notin {"none", "starting"}

\* Resume has told the worker to go on and it does not own m_RunningLock yet.
Waking ==
  /\ ~m_RunningLock
  /\ IsRunning
  /\ m_ExecMode \notin {"Closed", "Paused"}

\* The worker has done what controllers wait for.
Awake == CASE WaitFor = "nothing" -> TRUE
           [] WaitFor = "lock"    -> ~Waking
           [] WaitFor = "check"   -> ~Waking /\ wPc # "resumed"

-----------------------------------------------------------------------------
(* Controllers *)

Goto(c, pc)  == ctPc' = [ctPc EXCEPT ![c] = pc]
Unlock(c, pc) == Goto(c, pc) /\ m_ExecModeMutex' = "none"

\* A call, up to the shortcuts that return without taking the mutex.
Call(c) ==
  /\ ctPc[c] = "idle"
  /\ calls[c] < MaxCalls
  /\ Awake
  /\ calls' = [calls EXCEPT ![c] = @ + 1]
  /\ \E op \in Ops :
       /\ ctOp' = [ctOp EXCEPT ![c] = op]
       /\ LET returns == CASE op = "Suspend" -> ~IsRunning \/ m_ExecMode = "Closed"
                           [] op = "Pause"   -> ~IsRunning \/ m_ExecMode \in {"Closed", "Paused"}
                           [] op = "Resume"  -> m_ExecMode = "Opened"
          IN Goto(c, IF returns THEN "idle" ELSE "lock")
  /\ UNCHANGED <<m_ExecMode, m_ExecModeMutex, m_RunningLock, sems, wPc>>

Lock(c) ==
  /\ ctPc[c] = "lock"
  /\ m_ExecModeMutex = "none"
  /\ m_ExecModeMutex' = c
  /\ Goto(c, ctOp[c])
  /\ UNCHANGED <<m_ExecMode, m_RunningLock, sems, wPc, ctOp, calls>>

\* Suspend's switch on m_ExecMode.
Suspend(c) ==
  /\ ctPc[c] = "Suspend"
  /\ \/ /\ m_ExecMode \in {"NoThreadYet", "Closed"}
        /\ Unlock(c, "idle")
        /\ UNCHANGED m_ExecMode
     \/ /\ m_ExecMode \in {"Pausing", "Paused"}
        /\ m_ExecMode' = "Closing"
        /\ Goto(c, "postResume")
        /\ UNCHANGED m_ExecModeMutex
     \/ /\ m_ExecMode \in {"Opened", "Closing"}
        /\ m_ExecMode' = "Closing"
        /\ Goto(c, "postEvent")
        /\ UNCHANGED m_ExecModeMutex
  /\ UNCHANGED <<m_RunningLock, sems, wPc, ctOp, calls>>

\* Mutant: the parked worker is not woken.
PostResume_NoPost(c) ==
  /\ ctPc[c] = "postResume"
  /\ IF ctOp[c] = "Suspend"
       THEN Goto(c, "waitChanging") /\ UNCHANGED m_ExecModeMutex
       ELSE Unlock(c, "idle")
  /\ UNCHANGED <<m_ExecMode, m_RunningLock, sems, wPc, ctOp, calls>>

\* m_sem_Resume.Post(): Suspend then waits for m_sem_ChangingExecMode, Resume is done.
PostResume(c) ==
  /\ ctPc[c] = "postResume"
  /\ m_sem_Resume' = m_sem_Resume + 1
  /\ IF ctOp[c] = "Suspend"
       THEN Goto(c, "waitChanging") /\ UNCHANGED m_ExecModeMutex
       ELSE Unlock(c, "idle")
  /\ UNCHANGED <<m_ExecMode, m_RunningLock, m_sem_ChangingExecMode, m_sem_event,
                 wPc, ctOp, calls>>

WaitChanging(c) ==
  /\ ctPc[c] = "waitChanging"
  /\ m_sem_ChangingExecMode > 0
  /\ m_sem_ChangingExecMode' = m_sem_ChangingExecMode - 1
  /\ Goto(c, "postEvent")
  /\ UNCHANGED <<m_ExecMode, m_ExecModeMutex, m_RunningLock, m_sem_Resume, m_sem_event,
                 wPc, ctOp, calls>>

Pause(c) ==
  /\ ctPc[c] = "Pause"
  /\ \/ /\ m_ExecMode \in {"Closed", "Paused"}
        /\ Unlock(c, "idle")
        /\ UNCHANGED m_ExecMode
     \/ /\ m_ExecMode \notin {"Closed", "Paused"}
        /\ m_ExecMode' = IF m_ExecMode = "Opened" THEN "Pausing" ELSE m_ExecMode
        /\ Goto(c, "postEvent")
        /\ UNCHANGED m_ExecModeMutex
  /\ UNCHANGED <<m_RunningLock, sems, wPc, ctOp, calls>>

\* The end of Suspend and Pause: m_sem_event.Post(), release the mutex, then
\* m_RunningLock.Wait().
PostEvent(c) ==
  /\ ctPc[c] = "postEvent"
  /\ m_sem_event' = m_sem_event + 1
  /\ Unlock(c, "waitRunning")
  /\ UNCHANGED <<m_ExecMode, m_RunningLock, m_sem_Resume, m_sem_ChangingExecMode,
                 wPc, ctOp, calls>>

\* Mutant: Suspend and Pause return without waiting for the worker.
WaitRunning_NoWait(c) ==
  /\ ctPc[c] = "waitRunning"
  /\ Goto(c, "idle")
  /\ UNCHANGED <<m_ExecMode, m_ExecModeMutex, m_RunningLock, sems, wPc, ctOp, calls>>

WaitRunning(c) ==
  /\ ctPc[c] = "waitRunning"
  /\ ~m_RunningLock
  /\ Goto(c, "idle")
  /\ UNCHANGED <<m_ExecMode, m_ExecModeMutex, m_RunningLock, sems, wPc, ctOp, calls>>

\* Resume's switch.  Start() waits for the new thread's startup semaphore.
Resume(c) ==
  /\ ctPc[c] = "Resume"
  /\ \/ /\ m_ExecMode = "Opened"
        /\ Unlock(c, "idle")
        /\ UNCHANGED wPc
     \/ /\ m_ExecMode = "NoThreadYet"
        /\ wPc' = "starting"
        /\ Goto(c, "started")
        /\ UNCHANGED m_ExecModeMutex
     \/ /\ m_ExecMode \in {"Closing", "Pausing"}
        /\ Goto(c, "resumeWait")
        /\ UNCHANGED <<m_ExecModeMutex, wPc>>
     \/ /\ m_ExecMode \in {"Paused", "Closed"}
        /\ Goto(c, "open")
        /\ UNCHANGED <<m_ExecModeMutex, wPc>>
  /\ UNCHANGED <<m_ExecMode, m_RunningLock, sems, ctOp, calls>>

\* SysThreadBase::Start posts m_sem_event once the thread is up.
Started(c) ==
  /\ ctPc[c] = "started"
  /\ IsRunning
  /\ m_sem_event' = m_sem_event + 1
  /\ Goto(c, "resumeWait")
  /\ UNCHANGED <<m_ExecMode, m_ExecModeMutex, m_RunningLock, m_sem_Resume,
                 m_sem_ChangingExecMode, wPc, ctOp, calls>>

\* m_RunningLock.Wait(), still under m_ExecModeMutex, then the re-check.
ResumeWait(c) ==
  /\ ctPc[c] = "resumeWait"
  /\ ~m_RunningLock
  /\ IF m_ExecMode \in {"Closed", "Paused"}
       THEN Goto(c, "open") /\ UNCHANGED m_ExecModeMutex
       ELSE Unlock(c, "idle")
  /\ UNCHANGED <<m_ExecMode, m_RunningLock, sems, wPc, ctOp, calls>>

\* OnResumeReady(); m_ExecMode = ExecMode_Opened.
Open(c) ==
  /\ ctPc[c] = "open"
  /\ m_ExecMode' = "Opened"
  /\ Goto(c, "postResume")
  /\ UNCHANGED <<m_ExecModeMutex, m_RunningLock, sems, wPc, ctOp, calls>>

-----------------------------------------------------------------------------
(* The worker *)

ct == <<m_ExecModeMutex, ctPc, ctOp, calls>>

\* Mutant: OnStartInThread leaves m_ExecMode alone.
WStart_NoMode ==
  /\ wPc = "starting"
  /\ m_RunningLock' = TRUE
  /\ wPc' = "event"
  /\ UNCHANGED <<m_ExecMode, sems, ct>>

\* OnStartInThread, then the startup post.
WStart ==
  /\ wPc = "starting"
  /\ m_RunningLock' = TRUE
  /\ m_ExecMode' = "Closing"
  /\ wPc' = "event"
  /\ UNCHANGED <<sems, ct>>

\* SysCoreThread::ExecuteTaskInThread begins with one wait of m_sem_event.
WEvent ==
  /\ wPc = "event"
  /\ m_sem_event > 0
  /\ m_sem_event' = m_sem_event - 1
  /\ wPc' = "state"
  /\ UNCHANGED <<m_ExecMode, m_RunningLock, m_sem_Resume, m_sem_ChangingExecMode, ct>>

\* StateCheckInThread's switch: one read of m_ExecMode decides.
WStateCheck ==
  /\ wPc = "state"
  /\ wPc' = CASE m_ExecMode = "Opened"  -> "run"
              [] m_ExecMode = "Pausing" -> "setPaused"
              [] m_ExecMode = "Paused"  -> "paused"
              [] m_ExecMode = "Closing" -> "setClosed"
              [] m_ExecMode = "Closed"  -> "closed"
              [] OTHER                  -> "wild"
  /\ UNCHANGED <<m_ExecMode, m_RunningLock, sems, ct>>

\* OnPauseInThread(); m_ExecMode = ExecMode_Paused; m_RunningLock.Release().
WSetPaused ==
  /\ wPc = "setPaused"
  /\ m_ExecMode' = "Paused"
  /\ wPc' = "releasePaused"
  /\ UNCHANGED <<m_RunningLock, sems, ct>>

\* OnSuspendInThread(); m_ExecMode = ExecMode_Closed; m_RunningLock.Release().
WSetClosed ==
  /\ wPc = "setClosed"
  /\ m_ExecMode' = "Closed"
  /\ wPc' = "releaseClosed"
  /\ UNCHANGED <<m_RunningLock, sems, ct>>

WRelease ==
  /\ wPc \in {"releasePaused", "releaseClosed"}
  /\ m_RunningLock' = FALSE
  /\ wPc' = IF wPc = "releasePaused" THEN "paused" ELSE "closed"
  /\ UNCHANGED <<m_ExecMode, sems, ct>>

\* while (m_ExecMode == Paused/Closed) m_sem_Resume.WaitWithoutYield();
WParked ==
  /\ wPc \in {"paused", "closed"}
  /\ wPc' = IF wPc = "paused" THEN IF m_ExecMode = "Paused" THEN "waitPaused" ELSE "wakePaused"
                              ELSE IF m_ExecMode = "Closed" THEN "waitClosed" ELSE "wakeClosed"
  /\ UNCHANGED <<m_ExecMode, m_RunningLock, sems, ct>>

WWaitResume ==
  /\ wPc \in {"waitPaused", "waitClosed"}
  /\ m_sem_Resume > 0
  /\ m_sem_Resume' = m_sem_Resume - 1
  /\ wPc' = IF wPc = "waitPaused" THEN "paused" ELSE "closed"
  /\ UNCHANGED <<m_ExecMode, m_RunningLock, m_sem_ChangingExecMode, m_sem_event, ct>>

\* m_RunningLock.Acquire() after either loop.
WAcquire ==
  /\ wPc \in {"wakePaused", "wakeClosed"}
  /\ ~m_RunningLock
  /\ m_RunningLock' = TRUE
  /\ wPc' = IF wPc = "wakePaused" THEN "resumed" ELSE "run"
  /\ UNCHANGED <<m_ExecMode, sems, ct>>

\* Mutant: the Suspend that came in the meantime is not answered.
WResumed_NoPost ==
  /\ wPc = "resumed"
  /\ wPc' = IF m_ExecMode # "Closing" THEN "run" ELSE "setClosed"
  /\ UNCHANGED <<m_ExecMode, m_RunningLock, sems, ct>>

\* Out of the pause: go on, or close if Suspend came in the meantime.
WResumed ==
  /\ wPc = "resumed"
  /\ IF m_ExecMode # "Closing"
       THEN wPc' = "run" /\ UNCHANGED m_sem_ChangingExecMode
       ELSE wPc' = "setClosed" /\ m_sem_ChangingExecMode' = m_sem_ChangingExecMode + 1
  /\ UNCHANGED <<m_ExecMode, m_RunningLock, m_sem_Resume, m_sem_event, ct>>

\* Cpu->Execute returns on a pending request (or a reset of the recompilers).
WRun ==
  /\ wPc = "run"
  /\ wPc' = "state"
  /\ UNCHANGED <<m_ExecMode, m_RunningLock, sems, ct>>

-----------------------------------------------------------------------------
CtStep(c) == \/ Lock(c) \/ Suspend(c) \/ PostResume(c) \/ WaitChanging(c) \/ Pause(c) \/ PostEvent(c)
             \/ WaitRunning(c) \/ Resume(c) \/ Started(c) \/ ResumeWait(c) \/ Open(c)
WStep == \/ WStart \/ WEvent \/ WStateCheck \/ WSetPaused \/ WSetClosed \/ WRelease
         \/ WParked \/ WWaitResume \/ WAcquire \/ WResumed \/ WRun

Next == WStep \/ \E c \in Controllers : Call(c) \/ CtStep(c)

Spec == Init /\ [][Next]_vars

\* A call, once made, runs while it is not blocked, and so does the worker.
FairSpec == Spec /\ WF_vars(WStep) /\ \A c \in Controllers : WF_vars(CtStep(c))

-----------------------------------------------------------------------------
(* Properties *)

Modes == {"NoThreadYet", "Closed", "Paused", "Opened", "Closing", "Pausing"}
WPcs  == {"none", "starting", "event", "state", "setPaused", "setClosed", "releasePaused",
          "releaseClosed", "paused", "closed", "waitPaused", "waitClosed", "wakePaused", "wakeClosed", "resumed", "run"}
CtPcs == {"idle", "lock", "Suspend", "Pause", "Resume", "postResume", "waitChanging", "postEvent",
          "waitRunning", "started", "resumeWait", "open"}

TypeOK ==
  /\ m_ExecMode \in Modes
  /\ m_ExecModeMutex \in Controllers \union {"none"}
  /\ m_RunningLock \in BOOLEAN
  /\ m_sem_Resume \in Nat /\ m_sem_ChangingExecMode \in Nat /\ m_sem_event \in Nat
  /\ wPc \in WPcs
  /\ ctPc \in [Controllers -> CtPcs]
  /\ ctOp \in [Controllers -> Ops]
  /\ calls \in [Controllers -> Nat]

\* A controller that comes back from m_RunningLock.Wait() finds the worker parked.
ReturnsParked ==
  \A c \in Controllers :
    ctPc[c] = "waitRunning" /\ ctPc'[c] = "idle" =>
      wPc \in {"paused", "closed", "waitPaused", "waitClosed"}

\* When Suspend or Pause returns, the worker is parked: the callers go on to
\* change what the worker uses (the disc tray, the VM's memory).  It takes
\* WaitFor = "check": when Suspend meets a worker between m_RunningLock.Acquire()
\* and its last look at m_ExecMode, the worker posts m_sem_ChangingExecMode and
\* nobody takes it; a later Suspend of a paused worker takes that post for the
\* answer to its own request.
ParkedOnReturn == [][ReturnsParked]_vars

\* Suspend, Pause and Resume come back to their caller.
CallsReturn == \A c \in Controllers : ctPc[c] # "idle" ~> ctPc[c] = "idle"

\* After a Resume the worker runs, unless its controller makes another call.
ResumeTakesEffect ==
  \A c \in Controllers :
    (ctPc[c] = "idle" /\ ctOp[c] = "Resume" /\ calls[c] > 0) ~>
      (wPc = "run" \/ ctPc[c] # "idle" \/ ctOp[c] # "Resume")
=============================================================================
