----------------------------- MODULE GSJobQueue -----------------------------
(***************************************************************************)
(* A worker of the software renderer (plugins/GS/GSThread_CXX11.h): a       *)
(* single-producer single-consumer ring of jobs                             *)
(* (common/include/Utilities/boost_spsc_queue.hpp) and two condition        *)
(* variables around it.  The owner, the GS thread, pushes jobs, waits for   *)
(* all of them and at last destroys the queue; the worker executes a job in *)
(* place, in its slot, and gives the slot back afterwards.                  *)
(*                                                                         *)
(* The ring's indices are read and written without a lock: m_lock and       *)
(* m_wait_lock only order a notification after the other side's test.       *)
(***************************************************************************)
EXTENDS Integers, Sequences

CONSTANTS
  max_size,         \* slots in the ring; one stays free
  MaxJobs,          \* bound: jobs pushed in a behaviour
  MaxSpurious       \* bound: wake-ups of a condition variable that nobody notified

ASSUME GSJobQueueAssumption ==
  /\ max_size \in Nat /\ max_size >= 2
  /\ MaxJobs \in Nat /\ MaxSpurious \in Nat

VARIABLES
  buffer, write_index_, read_index_,   \* the ring: a slot holds a job's number, 0 for none
  m_exit,
  m_lock, m_wait_lock,                 \* owners: "none", "owner" or "worker"
  m_notempty, m_empty,                 \* who sleeps on the condition variables (sets)
  oPc,              \* the owner's step
  wPc,              \* the worker's step
  \* History variables: no step of the code reads them.
  pushed,           \* the jobs published, in order
  executed,         \* the jobs whose function has returned, as found in their slot
  spurious          \* counted against MaxSpurious

ring  == <<buffer, write_index_, read_index_>>
locks == <<m_lock, m_wait_lock, m_notempty, m_empty>>
hist  == <<pushed, executed>>
vars  == <<ring, locks, m_exit, oPc, wPc, hist, spurious>>

Slot == 0 .. max_size - 1

\* Mutant: no wrap-around.
next_index_NoWrap(i) == IF i = max_size THEN 0 ELSE i + 1

next_index(i) == (i + 1) % max_size
Empty == write_index_ = read_index_

Init ==
  /\ buffer = [s \in Slot |-> 0] /\ write_index_ = 0 /\ read_index_ = 0
  /\ m_exit = FALSE
  /\ m_lock = "none" /\ m_wait_lock = "none" /\ m_notempty = {} /\ m_empty = {}
  /\ oPc = "idle" /\ wPc = "lock"
  /\ pushed = << >> /\ executed = << >> /\ spurious = 0

-----------------------------------------------------------------------------
(* The owner: Push, Wait, the destructor *)

OCallPush ==
  /\ oPc = "idle"
  /\ Len(pushed) < MaxJobs
  /\ oPc' = "push"
  /\ UNCHANGED <<ring, locks, m_exit, wPc, hist, spurious>>

\* Mutant: a full ring is not noticed.
OPushSlot_NoFull ==
  /\ oPc = "push"
  /\ buffer' = [buffer EXCEPT ![write_index_] = Len(pushed) + 1]
  /\ oPc' = "publish"
  /\ UNCHANGED <<write_index_, read_index_, locks, m_exit, wPc, hist, spurious>>

\* push: while the ring is full the owner yields and tries again.
OPushSlot ==
  /\ oPc = "push"
  /\ next_index(write_index_) # read_index_
  /\ buffer' = [buffer EXCEPT ![write_index_] = Len(pushed) + 1]
  /\ oPc' = "publish"
  /\ UNCHANGED <<write_index_, read_index_, locks, m_exit, wPc, hist, spurious>>

OPublish ==
  /\ oPc = "publish"
  /\ write_index_' = next_index(write_index_)
  /\ pushed' = Append(pushed, Len(pushed) + 1)
  /\ oPc' = "passLock"
  /\ UNCHANGED <<buffer, read_index_, locks, m_exit, wPc, executed, spurious>>

\* Mutant: Push notifies without passing through m_lock.
OPassLock_Skip ==
  /\ oPc = "passLock"
  /\ oPc' = "notify"
  /\ UNCHANGED <<ring, locks, m_exit, wPc, hist, spurious>>

\* { std::lock_guard l(m_lock); }: taken and released.
OPassLock ==
  /\ oPc = "passLock"
  /\ m_lock = "none"
  /\ oPc' = "notify"
  /\ UNCHANGED <<ring, locks, m_exit, wPc, hist, spurious>>

ONotify ==
  /\ oPc = "notify"
  /\ m_notempty' = {}
  /\ oPc' = "idle"
  /\ UNCHANGED <<ring, m_lock, m_wait_lock, m_empty, m_exit, wPc, hist, spurious>>

OCallWait ==
  /\ oPc = "idle"
  /\ oPc' = IF Empty THEN "waited" ELSE "waitLock"
  /\ UNCHANGED <<ring, locks, m_exit, wPc, hist, spurious>>

OWaitLock ==
  /\ oPc = "waitLock"
  /\ m_wait_lock = "none"
  /\ m_wait_lock' = "owner"
  /\ oPc' = "waitTest"
  /\ UNCHANGED <<ring, m_lock, m_notempty, m_empty, m_exit, wPc, hist, spurious>>

\* while (!IsEmpty())
OWaitTest ==
  /\ oPc = "waitTest"
  /\ IF Empty
       THEN oPc' = "waited" /\ m_wait_lock' = "none"
       ELSE oPc' = "goWait" /\ UNCHANGED m_wait_lock
  /\ UNCHANGED <<ring, m_lock, m_notempty, m_empty, m_exit, wPc, hist, spurious>>

\* m_empty.wait(l): sleep and give up m_wait_lock, in one step.
OGoWait ==
  /\ oPc = "goWait"
  /\ m_wait_lock' = "none"
  /\ m_empty' = {"owner"}
  /\ oPc' = "waitEmpty"
  /\ UNCHANGED <<ring, m_lock, m_notempty, m_exit, wPc, hist, spurious>>

\* Mutant: if in place of while: a wake-up ends the wait.
OWoken_NoRetest ==
  /\ oPc = "waitEmpty"
  /\ m_empty = {}
  /\ oPc' = "waited"
  /\ UNCHANGED <<ring, locks, m_exit, wPc, hist, spurious>>

OWoken ==
  /\ oPc = "waitEmpty"
  /\ m_empty = {}
  /\ oPc' = "waitLock"
  /\ UNCHANGED <<ring, locks, m_exit, wPc, hist, spurious>>

\* Wait has returned.
OWaited ==
  /\ oPc = "waited"
  /\ oPc' = "idle"
  /\ UNCHANGED <<ring, locks, m_exit, wPc, hist, spurious>>

\* ~GSJobQueue
OExit ==
  /\ oPc = "idle"
  /\ m_lock = "none"
  /\ m_exit' = TRUE
  /\ oPc' = "exitNotify"
  /\ UNCHANGED <<ring, locks, wPc, hist, spurious>>

OExitNotify ==
  /\ oPc = "exitNotify"
  /\ m_notempty' = {}
  /\ oPc' = "join"
  /\ UNCHANGED <<ring, m_lock, m_wait_lock, m_empty, m_exit, wPc, hist, spurious>>

OJoin ==
  /\ oPc = "join"
  /\ wPc = "exited"
  /\ oPc' = "joined"
  /\ UNCHANGED <<ring, locks, m_exit, wPc, hist, spurious>>

-----------------------------------------------------------------------------
(* The worker: ThreadProc *)

WLock ==
  /\ wPc = "lock"
  /\ m_lock = "none"
  /\ m_lock' = "worker"
  /\ wPc' = "test"
  /\ UNCHANGED <<ring, m_wait_lock, m_notempty, m_empty, m_exit, oPc, hist, spurious>>

\* while (m_queue.empty())
WTest ==
  /\ wPc = "test"
  /\ IF Empty
       THEN wPc' = "testExit" /\ UNCHANGED m_lock
       ELSE wPc' = "consume" /\ m_lock' = "none"
  /\ UNCHANGED <<ring, m_wait_lock, m_notempty, m_empty, m_exit, oPc, hist, spurious>>

\* if (m_exit) return;
WTestExit ==
  /\ wPc = "testExit"
  /\ IF m_exit
       THEN wPc' = "exited" /\ m_lock' = "none"
       ELSE wPc' = "goSleep" /\ UNCHANGED m_lock
  /\ UNCHANGED <<ring, m_wait_lock, m_notempty, m_empty, m_exit, oPc, hist, spurious>>

\* m_notempty.wait(l): sleep and give up m_lock, in one step.
WGoSleep ==
  /\ wPc = "goSleep"
  /\ m_lock' = "none"
  /\ m_notempty' = {"worker"}
  /\ wPc' = "sleep"
  /\ UNCHANGED <<ring, m_wait_lock, m_empty, m_exit, oPc, hist, spurious>>

WWoken ==
  /\ wPc = "sleep"
  /\ m_notempty = {}
  /\ wPc' = "lock"
  /\ UNCHANGED <<ring, locks, m_exit, oPc, hist, spurious>>

\* consume_one, its test; the loop ends when the ring looks empty.
WConsume ==
  /\ wPc = "consume"
  /\ wPc' = IF Empty THEN "passWait" ELSE "execute"
  /\ UNCHANGED <<ring, locks, m_exit, oPc, hist, spurious>>

\* m_func has returned; the job was in its slot all the time.
WExecute ==
  /\ wPc = "execute"
  /\ executed' = Append(executed, buffer[read_index_])
  /\ wPc' = "release"
  /\ UNCHANGED <<ring, locks, m_exit, oPc, pushed, spurious>>

\* The job is destroyed and its slot given back.
WRelease ==
  /\ wPc = "release"
  /\ buffer' = [buffer EXCEPT ![read_index_] = 0]
  /\ read_index_' = next_index(read_index_)
  /\ wPc' = "consume"
  /\ UNCHANGED <<write_index_, locks, m_exit, oPc, hist, spurious>>

\* Mutant: notify without passing through m_wait_lock.
WPassWait_Skip ==
  /\ wPc = "passWait"
  /\ wPc' = "notify"
  /\ UNCHANGED <<ring, locks, m_exit, oPc, hist, spurious>>

\* { std::lock_guard wait_guard(m_wait_lock); }
WPassWait ==
  /\ wPc = "passWait"
  /\ m_wait_lock = "none"
  /\ wPc' = "notify"
  /\ UNCHANGED <<ring, locks, m_exit, oPc, hist, spurious>>

WNotify ==
  /\ wPc = "notify"
  /\ m_empty' = {}
  /\ wPc' = "lock"
  /\ UNCHANGED <<ring, m_lock, m_wait_lock, m_notempty, m_exit, oPc, hist, spurious>>

\* External: a condition variable may wake a sleeper that nobody notified.
Spurious ==
  /\ spurious < MaxSpurious
  /\ spurious' = spurious + 1
  /\ \/ m_notempty # {} /\ m_notempty' = {} /\ UNCHANGED m_empty
     \/ m_empty # {} /\ m_empty' = {} /\ UNCHANGED m_notempty
  /\ UNCHANGED <<ring, m_lock, m_wait_lock, m_exit, oPc, wPc, hist>>

-----------------------------------------------------------------------------
\* The steps of a call the owner is in.
OwnerRuns ==
  \/ OPushSlot \/ OPublish \/ OPassLock \/ ONotify
  \/ OWaitLock \/ OWaitTest \/ OGoWait \/ OWoken \/ OWaited
  \/ OExitNotify \/ OJoin

OwnerCalls == OCallPush \/ OCallWait \/ OExit

WorkerRuns ==
  \/ WLock \/ WTest \/ WTestExit \/ WGoSleep \/ WWoken \/ WConsume \/ WExecute
  \/ WRelease \/ WPassWait \/ WNotify

Next == OwnerRuns \/ OwnerCalls \/ WorkerRuns \/ Spurious

Spec == Init /\ [][Next]_vars

FairSpec == Spec /\ WF_vars(OwnerRuns) /\ WF_vars(WorkerRuns)

-----------------------------------------------------------------------------
(* Properties *)

OwnerSteps  == {"idle", "push", "publish", "passLock", "notify", "waitLock", "waitTest",
                "goWait", "waitEmpty", "waited", "exitNotify", "join", "joined"}
WorkerSteps == {"lock", "test", "testExit", "goSleep", "sleep", "consume", "execute",
                "release", "passWait", "notify", "exited"}

\* The type invariant: the indices stay inside the ring.
TypeOK ==
  /\ buffer \in [Slot -> 0 .. MaxJobs] /\ write_index_ \in Slot /\ read_index_ \in Slot
  /\ m_exit \in BOOLEAN
  /\ m_lock \in {"none", "worker"} /\ m_wait_lock \in {"none", "owner"}
  /\ m_notempty \subseteq {"worker"} /\ m_empty \subseteq {"owner"}
  /\ oPc \in OwnerSteps /\ wPc \in WorkerSteps
  /\ pushed \in Seq(1 .. MaxJobs) /\ executed \in Seq(0 .. MaxJobs)
  /\ spurious \in 0 .. MaxSpurious

\* When Wait returns, and when the destructor has joined the worker, the function
\* of every job pushed so far has returned: the renderer reads the frame next.
\* Wait and ThreadProc only look at the ring's indices.
WaitMeansDone == oPc \in {"waited", "joined"} => executed = pushed

FIFO == INSTANCE PacketFIFO WITH Packet <- 1 .. MaxJobs, produced <- pushed, consumed <- executed

\* Jobs are executed once each, in the order of Push, and none is replaced in its
\* slot while it is executed (consume_one gives the slot back last).
ImplementsFIFO == FIFO!Spec

\* Every call of the owner returns: Push finds a slot, Wait is notified although
\* the worker empties the ring without m_wait_lock, the destructor's join ends.
CallsEnd == (oPc \notin {"idle", "joined"}) ~> (oPc \in {"idle", "joined"})

\* A job pushed is executed, even if the owner never waits for it: the notification
\* of Push cannot fall between the worker's test and its sleep.
JobsExecuted == \A n \in 1 .. MaxJobs : (Len(pushed) >= n) ~> (Len(executed) >= n)
=============================================================================
