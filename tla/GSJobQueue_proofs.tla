------------------------- MODULE GSJobQueue_proofs -------------------------
(***************************************************************************)
(* Proofs about the job queue, for every ring size and every number of jobs *)
(* and spurious wake-ups.                                                   *)
(***************************************************************************)
EXTENDS GSJobQueue, TLAPS

\* Jobs whose slot the worker has given back.
Done == IF wPc = "release" THEN Len(executed) - 1 ELSE Len(executed)

\* The slot k places after the one the worker takes next.
Place(k) == IF read_index_ + k < max_size THEN read_index_ + k ELSE read_index_ + k - max_size

\* Both ends number the jobs in the order of Push, and the owner is within its bound.
Numbered ==
  /\ \A n \in 1 .. Len(pushed) : pushed[n] = n
  /\ \A n \in 1 .. Len(executed) : executed[n] = n
  /\ oPc \in {"push", "publish"} => Len(pushed) < MaxJobs

\* The slots from read_index_ to write_index_ hold the jobs not given back, one slot
\* stays free, and a slot written but not published is the next one.
RingInv ==
  /\ Done \in 0 .. Len(pushed) /\ Len(pushed) - Done < max_size
  /\ write_index_ = Place(Len(pushed) - Done)
  /\ \A k \in 0 .. Len(pushed) - Done - 1 : buffer[Place(k)] = Done + 1 + k
  /\ oPc = "publish" => /\ Len(pushed) - Done + 1 < max_size
                        /\ buffer[write_index_] = Len(pushed) + 1
  /\ wPc \in {"execute", "release"} => Done < Len(pushed)

\* Who holds m_lock, and what that means for the exit flag, which is set under it:
\* the worker leaves only when it has seen the ring empty after the last Push.
ExitInv ==
  /\ m_lock = "worker" <=> wPc \in {"test", "testExit", "goSleep"}
  /\ m_exit <=> oPc \in {"exitNotify", "join", "joined"}
  /\ (m_exit /\ wPc = "testExit") => Done = Len(pushed)
  /\ wPc = "exited" => m_exit /\ Done = Len(pushed)
  /\ oPc = "joined" => wPc = "exited"
  /\ oPc = "waited" => Done = Len(pushed)

IInv == TypeOK /\ Numbered /\ RingInv /\ ExitInv

\* What next_index does with an index of the ring.
LEMMA NextIndex ==
  ASSUME NEW i \in Slot
  PROVE  next_index(i) = IF i + 1 = max_size THEN 0 ELSE i + 1
<1> USE GSJobQueueAssumption DEF Slot, next_index
<1>1. CASE i + 1 = max_size
  BY <1>1
<1>2. CASE i + 1 < max_size
  BY <1>2
<1> QED
  BY <1>1, <1>2

\* IsEmpty, which compares two indices, is exact: no job is held back by the ring.
LEMMA EmptyMeansDone ==
  ASSUME TypeOK, RingInv
  PROVE  Empty <=> Done = Len(pushed)
<1>1. /\ read_index_ \in 0 .. max_size - 1 /\ Len(pushed) \in Nat
      /\ Done \in 0 .. Len(pushed) /\ Len(pushed) - Done < max_size
      /\ write_index_ = Place(Len(pushed) - Done)
  BY DEF TypeOK, RingInv, Slot
<1> QED
  BY <1>1, GSJobQueueAssumption DEF Empty, Place

\* The invariant holds initially.
LEMMA InitInv == Init => IInv
<1> SUFFICES ASSUME Init PROVE IInv
  OBVIOUS
<1> USE GSJobQueueAssumption
<1>a. << >> \in Seq(1 .. MaxJobs) /\ << >> \in Seq(0 .. MaxJobs) /\ 0 \in Slot
  BY DEF Slot
<1>b. [s \in Slot |-> 0] \in [Slot -> 0 .. MaxJobs]
  OBVIOUS
<1>1. TypeOK
  BY <1>a, <1>b DEF Init, TypeOK, OwnerSteps, WorkerSteps
<1>2. Numbered
  BY DEF Init, Numbered
<1>3. RingInv
  BY DEF Init, RingInv, Done, Place, Slot
<1>4. ExitInv
  BY DEF Init, ExitInv, Done
<1> QED
  BY <1>1, <1>2, <1>3, <1>4 DEF IInv

\* Steps that leave the ring and both histories alone.
LEMMA QuietRing ==
  ASSUME IInv, UNCHANGED <<ring, hist>>,
         wPc' # wPc => ~(wPc = "release" \/ wPc' = "release"),
         oPc' \in {"push", "publish"} => oPc = oPc' \/ Len(pushed) < MaxJobs,
         oPc' = "publish" => oPc = "publish",
         wPc' = "execute" => wPc = "execute" \/ Done < Len(pushed)
  PROVE  Done' = Done /\ Numbered' /\ RingInv'
<1> USE DEF ring, hist
<1>1. Done' = Done
  BY DEF Done
<1>2. Numbered'
  BY DEF IInv, Numbered
<1>3. Place(Len(pushed) - Done)' = Place(Len(pushed) - Done)
  BY <1>1 DEF Place
<1>4. \A k : Place(k)' = Place(k)
  BY DEF Place
<1>5. RingInv'
  BY <1>1, <1>3, <1>4 DEF IInv, RingInv
<1> QED
  BY <1>1, <1>2, <1>5

\* The owner writes a job into the slot behind the last one.
LEMMA PushSlotInv == ASSUME IInv, OPushSlot PROVE IInv'
<1> USE GSJobQueueAssumption DEF OPushSlot, IInv, locks, hist
<1>1. write_index_ \in Slot /\ read_index_ \in Slot /\ Len(pushed) \in Nat
  BY DEF TypeOK
<1>2. Len(pushed) < MaxJobs
  BY DEF Numbered
<1>3. TypeOK'
  BY <1>1, <1>2 DEF TypeOK, OwnerSteps, WorkerSteps
<1>4. Numbered'
  BY <1>2 DEF Numbered
<1>5. Done' = Done /\ \A k : Place(k)' = Place(k)
  BY DEF Done, Place
<1>6. Done \in 0 .. Len(pushed) /\ Len(pushed) - Done < max_size
  BY DEF RingInv
<1>7. Len(pushed) - Done + 1 < max_size
  <2>1. CASE write_index_ + 1 = max_size
    BY <1>1, <1>6, <2>1, NextIndex DEF RingInv, Place, Slot
  <2>2. CASE write_index_ + 1 # max_size
    BY <1>1, <1>6, <2>2, NextIndex DEF RingInv, Place, Slot
  <2> QED
    BY <2>1, <2>2
<1>8. ASSUME NEW k \in 0 .. Len(pushed) - Done - 1
      PROVE  buffer'[Place(k)] = Done + 1 + k
  <2>1. Place(k) \in Slot /\ Place(k) # write_index_
    BY <1>1, <1>6 DEF RingInv, Place, Slot
  <2>2. buffer'[Place(k)] = buffer[Place(k)]
    BY <1>1, <2>1 DEF TypeOK
  <2> QED
    BY <1>8, <2>2 DEF RingInv
<1>9. buffer'[write_index_] = Len(pushed) + 1
  BY <1>1 DEF TypeOK
<1>10. RingInv'
  BY <1>5, <1>6, <1>7, <1>8, <1>9 DEF RingInv
<1>11. ExitInv'
  BY <1>5 DEF ExitInv
<1> QED
  BY <1>3, <1>4, <1>10, <1>11

\* The owner publishes the job it has written.
LEMMA PublishInv == ASSUME IInv, OPublish PROVE IInv'
<1> USE GSJobQueueAssumption DEF OPublish, IInv, locks, hist
<1>1. write_index_ \in Slot /\ read_index_ \in Slot /\ pushed \in Seq(1 .. MaxJobs)
  BY DEF TypeOK
<1>2. Len(pushed) < MaxJobs /\ Len(pushed) \in Nat
  BY <1>1 DEF Numbered
<1>3. pushed' \in Seq(1 .. MaxJobs) /\ Len(pushed') = Len(pushed) + 1
      /\ \A n \in 1 .. Len(pushed) + 1 : pushed'[n] = IF n <= Len(pushed) THEN pushed[n] ELSE n
  BY <1>1, <1>2
<1>4. write_index_' \in Slot
  BY <1>1, NextIndex DEF Slot
<1>5. TypeOK'
  BY <1>3, <1>4 DEF TypeOK, OwnerSteps, WorkerSteps
<1>6. Numbered'
  BY <1>2, <1>3 DEF Numbered
<1>7. Done' = Done /\ \A k : Place(k)' = Place(k)
  BY DEF Done, Place
<1>8. /\ Done \in 0 .. Len(pushed) /\ Len(pushed) - Done + 1 < max_size
      /\ buffer[write_index_] = Len(pushed) + 1
      /\ write_index_ = Place(Len(pushed) - Done)
  BY DEF RingInv
<1>9. write_index_' = Place(Len(pushed) - Done + 1)
  BY <1>1, <1>2, <1>8, NextIndex DEF Place, Slot
<1>10. ASSUME NEW k \in 0 .. Len(pushed) - Done
       PROVE  buffer[Place(k)] = Done + 1 + k
  <2>1. CASE k = Len(pushed) - Done
    BY <1>2, <1>8, <2>1
  <2>2. CASE k \in 0 .. Len(pushed) - Done - 1
    BY <2>2 DEF RingInv
  <2> QED
    BY <1>2, <1>8, <2>1, <2>2
<1>a. Place(Len(pushed) - Done)' = Place(Len(pushed) - Done + 1)
  BY <1>2, <1>3, <1>7, <1>8 DEF Place
<1>b. Len(pushed') - Done' - 1 = Len(pushed) - Done /\ Done' \in 0 .. Len(pushed')
      /\ Len(pushed') - Done' < max_size
  BY <1>2, <1>3, <1>7, <1>8
<1>c. wPc' \in {"execute", "release"} => Done' < Len(pushed')
  BY <1>2, <1>3, <1>7, <1>8
<1>11. RingInv'
  BY <1>7, <1>9, <1>10, <1>a, <1>b, <1>c DEF RingInv
<1>12. ExitInv'
  BY <1>7 DEF ExitInv
<1> QED
  BY <1>5, <1>6, <1>11, <1>12

\* The worker's function has returned: the job is in its slot, and it is the next one.
LEMMA ExecuteInv ==
  ASSUME IInv, WExecute
  PROVE  IInv' /\ Len(executed) < Len(pushed) /\ buffer[read_index_] = Len(executed) + 1
<1> USE GSJobQueueAssumption DEF WExecute, IInv, ring, locks
<1>1. executed \in Seq(0 .. MaxJobs) /\ read_index_ \in Slot /\ pushed \in Seq(1 .. MaxJobs)
  BY DEF TypeOK
<1>2. Done = Len(executed) /\ Done < Len(pushed) /\ Done \in Nat
  BY <1>1 DEF Done, RingInv
<1>3. buffer[read_index_] = Len(executed) + 1
  <2>1. 0 \in 0 .. Len(pushed) - Done - 1 /\ Place(0) = read_index_
    BY <1>1, <1>2 DEF Place, Slot
  <2>2. buffer[Place(0)] = Done + 1 + 0
    BY <2>1 DEF RingInv
  <2> QED
    BY <1>2, <2>1, <2>2
<1>a. Len(pushed) <= MaxJobs
  <2>1. CASE Len(pushed) = 0
    BY <2>1
  <2>2. CASE Len(pushed) > 0
    <3>1. pushed[Len(pushed)] \in 1 .. MaxJobs
      BY <1>1, <2>2
    <3>2. Len(pushed) \in 1 .. Len(pushed)
      BY <1>1, <2>2
    <3>3. pushed[Len(pushed)] = Len(pushed)
      BY <3>2 DEF Numbered
    <3> QED
      BY <3>1, <3>3
  <2> QED
    BY <1>1, <2>1, <2>2
<1>4. executed' \in Seq(0 .. MaxJobs) /\ Len(executed') = Len(executed) + 1
      /\ \A n \in 1 .. Len(executed) + 1 :
           executed'[n] = IF n <= Len(executed) THEN executed[n] ELSE n
  BY <1>1, <1>2, <1>3, <1>a
<1>5. TypeOK'
  BY <1>4 DEF TypeOK, OwnerSteps, WorkerSteps
<1>6. Numbered'
  BY <1>1, <1>4 DEF Numbered
<1>7. Done' = Done /\ \A k : Place(k)' = Place(k)
  BY <1>1, <1>2, <1>4 DEF Done, Place
<1>8. RingInv'
  BY <1>2, <1>7 DEF RingInv
<1>9. ExitInv'
  BY <1>7 DEF ExitInv
<1> QED
  BY <1>2, <1>3, <1>5, <1>6, <1>8, <1>9

\* The worker gives a slot back.
LEMMA ReleaseInv == ASSUME IInv, WRelease PROVE IInv'
<1> USE GSJobQueueAssumption DEF WRelease, IInv, hist, locks
<1>1. /\ executed \in Seq(0 .. MaxJobs) /\ read_index_ \in Slot /\ write_index_ \in Slot
      /\ pushed \in Seq(1 .. MaxJobs) /\ buffer \in [Slot -> 0 .. MaxJobs]
  BY DEF TypeOK
<1>2. Done = Len(executed) - 1 /\ Done' = Done + 1 /\ Done < Len(pushed)
  BY <1>1 DEF Done, RingInv
<1>3. Done \in Nat /\ Len(pushed) \in Nat /\ Len(pushed) - Done < max_size
  BY <1>1, <1>2 DEF RingInv
<1>4. read_index_' = (IF read_index_ + 1 = max_size THEN 0 ELSE read_index_ + 1) /\ read_index_' \in Slot
  BY <1>1, NextIndex DEF Slot
<1>5. TypeOK'
  BY <1>1, <1>4 DEF TypeOK, OwnerSteps, WorkerSteps
<1>6. Numbered'
  BY DEF Numbered
<1>7. \A k \in 0 .. max_size - 2 : Place(k)' = Place(k + 1)
  BY <1>1, <1>4 DEF Place, Slot
<1>8. \A k \in 1 .. max_size - 1 : Place(k) \in Slot /\ Place(k) # read_index_
  BY <1>1 DEF Place, Slot
<1>9. write_index_ = Place(Len(pushed) - Done)
  BY DEF RingInv
<1>10. write_index_ = Place(Len(pushed) - Done)'
  <2>1. write_index_ = (IF read_index_ + (Len(pushed) - Done) < max_size
                           THEN read_index_ + (Len(pushed) - Done)
                           ELSE read_index_ + (Len(pushed) - Done) - max_size)
    BY <1>9 DEF Place
  <2>2. Place(Len(pushed) - Done)' = (IF read_index_' + (Len(pushed) - Done - 1) < max_size
                                       THEN read_index_' + (Len(pushed) - Done - 1)
                                       ELSE read_index_' + (Len(pushed) - Done - 1) - max_size)
    BY <1>2, <1>3 DEF Place
  <2> QED
    <3>1. Len(pushed) - Done - 1 \in 0 .. max_size - 2 /\ read_index_ \in 0 .. max_size - 1
      <4>1. ASSUME NEW d \in Nat, NEW l \in Nat, d < l, l - d < max_size
            PROVE  l - d - 1 \in 0 .. max_size - 2
        BY <4>1
      <4>2. read_index_ \in 0 .. max_size - 1
        BY <1>1 DEF Slot
      <4> QED
        BY <1>2, <1>3, <4>1, <4>2
    <3>3. CASE read_index_ + 1 = max_size
      BY <1>3, <1>4, <2>1, <2>2, <3>1, <3>3
    <3>4. CASE read_index_ + 1 # max_size
      BY <1>3, <1>4, <2>1, <2>2, <3>1, <3>4
    <3> QED
      BY <3>3, <3>4
<1>11. ASSUME NEW k \in 0 .. Len(pushed) - Done - 2
       PROVE  buffer'[Place(k)'] = Done + 2 + k
  <2>1. Place(k)' = Place(k + 1) /\ k + 1 \in 1 .. max_size - 1
    BY <1>3, <1>7, <1>11
  <2>2. buffer'[Place(k + 1)] = buffer[Place(k + 1)]
    BY <1>1, <1>8, <2>1
  <2>3. buffer[Place(k + 1)] = Done + 1 + (k + 1)
    BY <1>3, <1>11 DEF RingInv
  <2> QED
    BY <1>3, <2>1, <2>2, <2>3
<1>12. oPc = "publish" => buffer'[write_index_] = Len(pushed) + 1
  BY <1>1, <1>2, <1>3, <1>8, <1>9 DEF RingInv
<1>a. Done' \in 0 .. Len(pushed) /\ Len(pushed) - Done' < max_size
      /\ Len(pushed) - Done' - 1 = Len(pushed) - Done - 2
  BY <1>2, <1>3
<1>b. ASSUME NEW k \in 0 .. Len(pushed) - Done' - 1
      PROVE  buffer'[Place(k)'] = Done' + 1 + k
  <2>1. k \in 0 .. Len(pushed) - Done - 2 /\ Done' + 1 + k = Done + 2 + k
    BY <1>2, <1>3, <1>a, <1>b
  <2> QED
    BY <1>11, <2>1
<1>c. oPc = "publish" => Len(pushed) - Done' + 1 < max_size
  BY <1>2, <1>3 DEF RingInv
<1>13. RingInv'
  BY <1>10, <1>12, <1>a, <1>b, <1>c DEF RingInv
<1>14. ExitInv'
  BY <1>2 DEF ExitInv
<1> QED
  BY <1>5, <1>6, <1>13, <1>14

\* Every step preserves the invariant.
LEMMA NextInv == IInv /\ [Next]_vars => IInv'
<1> SUFFICES ASSUME IInv, [Next]_vars PROVE IInv'
  OBVIOUS
<1> USE GSJobQueueAssumption
<1>e. Empty <=> Done = Len(pushed)
  BY EmptyMeansDone DEF IInv
<1>d. Done \in 0 .. Len(pushed)
  BY DEF IInv, RingInv
<1>1. CASE OPushSlot
  BY <1>1, PushSlotInv
<1>2. CASE OPublish
  BY <1>2, PublishInv
<1>3. CASE WExecute
  BY <1>3, ExecuteInv
<1>4. CASE WRelease
  BY <1>4, ReleaseInv
<1>5. CASE OPassLock \/ ONotify \/ OCallPush
  <2>1. Done' = Done /\ Numbered' /\ RingInv'
    BY <1>5, QuietRing DEF OPassLock, ONotify, OCallPush, ring, hist
  <2>2. TypeOK'
    BY <1>5 DEF IInv, TypeOK, OPassLock, ONotify, OCallPush, ring, hist, locks, OwnerSteps, WorkerSteps
  <2>3. ExitInv'
    BY <1>5, <2>1 DEF IInv, ExitInv, OPassLock, ONotify, OCallPush, hist, locks
  <2> QED
    BY <2>1, <2>2, <2>3 DEF IInv
<1>6. CASE OCallWait \/ OWaitLock \/ OWaitTest \/ OGoWait \/ OWoken \/ OWaited
  <2> USE DEF OCallWait, OWaitLock, OWaitTest, OGoWait, OWoken, OWaited
  <2>1. Done' = Done /\ Numbered' /\ RingInv'
    BY <1>6, QuietRing DEF ring, hist
  <2>2. TypeOK'
    BY <1>6 DEF IInv, TypeOK, ring, hist, locks, OwnerSteps, WorkerSteps
  <2>3. ExitInv'
    BY <1>6, <1>e, <2>1 DEF IInv, ExitInv, hist, locks
  <2> QED
    BY <2>1, <2>2, <2>3 DEF IInv
<1>7. CASE OExit \/ OExitNotify \/ OJoin
  <2> USE DEF OExit, OExitNotify, OJoin
  <2>1. Done' = Done /\ Numbered' /\ RingInv'
    BY <1>7, QuietRing DEF ring, hist
  <2>2. TypeOK'
    BY <1>7 DEF IInv, TypeOK, ring, hist, locks, OwnerSteps, WorkerSteps
  <2>3. ExitInv'
    BY <1>7, <2>1 DEF IInv, TypeOK, ExitInv, hist, locks
  <2> QED
    BY <2>1, <2>2, <2>3 DEF IInv
<1>8. CASE WLock \/ WTest \/ WTestExit \/ WGoSleep \/ WWoken
  <2> USE DEF WLock, WTest, WTestExit, WGoSleep, WWoken
  <2>1. Done' = Done /\ Numbered' /\ RingInv'
    BY <1>8, QuietRing DEF ring, hist
  <2>2. TypeOK'
    BY <1>8 DEF IInv, TypeOK, ring, hist, locks, OwnerSteps, WorkerSteps
  <2>3. ExitInv'
    BY <1>8, <1>e, <2>1 DEF IInv, TypeOK, ExitInv, hist, locks
  <2> QED
    BY <2>1, <2>2, <2>3 DEF IInv
<1>9. CASE WConsume \/ WPassWait \/ WNotify
  <2> USE DEF WConsume, WPassWait, WNotify
  <2>0. Len(pushed) \in Nat
    BY DEF IInv, TypeOK
  <2>1. Done' = Done /\ Numbered' /\ RingInv'
    BY <1>9, <1>e, <1>d, <2>0, QuietRing DEF ring, hist
  <2>2. TypeOK'
    BY <1>9 DEF IInv, TypeOK, ring, hist, locks, OwnerSteps, WorkerSteps
  <2>3. ExitInv'
    BY <1>9, <2>1 DEF IInv, ExitInv, hist, locks
  <2> QED
    BY <2>1, <2>2, <2>3 DEF IInv
<1>10. CASE Spurious
  <2>1. Done' = Done /\ Numbered' /\ RingInv'
    BY <1>10, QuietRing DEF Spurious, ring, hist
  <2>2. spurious' \in 0 .. MaxSpurious
    BY <1>10 DEF IInv, TypeOK, Spurious
  <2>b. m_notempty' \subseteq {"worker"} /\ m_empty' \subseteq {"owner"}
    BY <1>10, Zenon DEF IInv, TypeOK, Spurious
  <2>a. TypeOK'
    BY <1>10, <2>2, <2>b DEF IInv, TypeOK, Spurious, ring, hist
  <2>3. ExitInv'
    BY <1>10, <2>1 DEF IInv, ExitInv, Spurious, hist
  <2> QED
    BY <2>1, <2>a, <2>3 DEF IInv
<1>11. CASE UNCHANGED vars
  <2> USE DEF vars
  <2>1. Done' = Done /\ Numbered' /\ RingInv'
    BY <1>11, QuietRing DEF ring, hist
  <2>2. TypeOK' /\ ExitInv'
    BY <1>11, <2>1 DEF IInv, TypeOK, ExitInv, ring, hist, locks
  <2> QED
    BY <2>1, <2>2 DEF IInv
<1> QED
  BY <1>1, <1>2, <1>3, <1>4, <1>5, <1>6, <1>7, <1>8, <1>9, <1>10, <1>11
  DEF Next, OwnerRuns, OwnerCalls, WorkerRuns

\* The invariant holds in every reachable state.
THEOREM Invariance == Spec => []IInv
BY InitInv, NextInv, PTL DEF Spec

\* The indices stay inside the ring, and every slot holds a job or nothing.
THEOREM TypeCorrect == Spec => []TypeOK
<1>1. IInv => TypeOK
  BY DEF IInv
<1> QED
  BY <1>1, Invariance, PTL

\* When Wait returns, and when the destructor has joined the worker, every job
\* pushed has been executed (GSThread_CXX11.h: assert(IsEmpty()) says it of the ring).
THEOREM WaitIsDone == Spec => []WaitMeansDone
<1>1. IInv => WaitMeansDone
  <2> SUFFICES ASSUME IInv, oPc \in {"waited", "joined"} PROVE executed = pushed
    BY DEF WaitMeansDone
  <2>1. Done = Len(pushed) /\ wPc # "release"
    BY DEF IInv, ExitInv, RingInv
  <2>2. Len(executed) = Len(pushed)
    BY <2>1 DEF Done
  <2> QED
    BY <2>2 DEF IInv, TypeOK, Numbered
<1> QED
  BY <1>1, Invariance, PTL

\* A step of the queue is a step of the abstract FIFO: publishing puts, the return
\* of a job's function gets.
LEMMA StepImplementsFIFO ==
  ASSUME IInv, [Next]_vars
  PROVE  [FIFO!Next]_<<pushed, executed>>
<1>1. CASE OPublish
  <2>1. Len(pushed) + 1 \in 1 .. MaxJobs
    BY <1>1, GSJobQueueAssumption DEF IInv, Numbered, OPublish, TypeOK
  <2> QED
    BY <1>1, <2>1 DEF OPublish, FIFO!Next, FIFO!Put
<1>2. CASE WExecute
  <2>1. Len(executed) < Len(pushed) /\ buffer[read_index_] = Len(executed) + 1
    BY <1>2, ExecuteInv
  <2>2. pushed[Len(executed) + 1] = Len(executed) + 1
    BY <2>1 DEF IInv, TypeOK, Numbered
  <2> QED
    BY <1>2, <2>1, <2>2 DEF WExecute, FIFO!Next, FIFO!Get
<1>3. CASE ~OPublish /\ ~WExecute
  BY <1>3
  DEF Next, OwnerRuns, OwnerCalls, WorkerRuns, vars, hist, OPushSlot, OPassLock, ONotify,
      OWaitLock, OWaitTest, OGoWait, OWoken, OWaited, OExitNotify, OJoin, OCallPush, OCallWait,
      OExit, WLock, WTest, WTestExit, WGoSleep, WWoken, WConsume, WRelease, WPassWait, WNotify,
      Spurious
<1> QED
  BY <1>1, <1>2, <1>3

\* The queue implements the FIFO: each job is executed once, in the order of Push,
\* and as it was pushed.
THEOREM QueueImplementsFIFO == Spec => ImplementsFIFO
<1>1. Init => FIFO!Init
  BY DEF Init, FIFO!Init
<1>2. IInv /\ [Next]_vars => [FIFO!Next]_<<pushed, executed>>
  BY StepImplementsFIFO
<1> QED
  BY <1>1, <1>2, Invariance, PTL DEF Spec, ImplementsFIFO, FIFO!Spec
=============================================================================
