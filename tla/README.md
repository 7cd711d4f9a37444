# A verification project for the PCSX2 libretro core

PCSX2 emulates the PlayStation 2. Almost all of it is sequential emulation on
one thread; what is hard to test is the handful of places where threads meet.
This project models those, as the libretro core builds them
(`__LIBRETRO__` defined), and one of the sequential parts where two emulated
processors meet (SIF0), checks the models with TLC, and proves their safety
with TLAPS.

## 1. The system

### Threads

| thread | runs | meets the others through |
|---|---|---|
| EE core (`SysCoreThread`) | EE, IOP, VU0, DMA, CDVD, SPU2: `Cpu->Execute` | writes the MTVU ring and the MTGS ring, parks itself on request |
| VU1 (`VU_Thread`, optional: `THREAD_VU1`) | `ExecuteRingBuffer` | reads the MTVU ring, fills GIF path 1, posts `semaXGkick`, waits for the GS when path 1 is full |
| frontend (= the "MTGS thread") | `retro_run`, which calls `SysMtgsThread::ExecuteTaskInThread` | reads the MTGS ring, returns to the frontend after every vsync; also calls Suspend, Pause, Resume and `FinishTaskInThread` |
| GS workers | `GSJobQueue::ThreadProc` | jobs of the software renderer |

### Components

`PROJECT.json` lists them all. The ones with state that several threads touch:

* **MTVU ring** (`pcsx2/MTVU.cpp`). State: the ring of words, the writer's
  position (local and published), the reader's (local and published), `isBusy`,
  `mtxBusy`, `semaEvent`, `semaXGkick`. Operations: the six senders
  (`ExecuteVU`, `VifUnpack`, `WriteMicroMem`, `WriteDataMem`, `WriteCol`,
  `WriteRow`), `ReserveSpace`/`WaitOnSize`, `KickStart`, `WaitVU`, `Reset`,
  `ExecuteRingBuffer`. Hard: packets do not wrap, so the writer goes back to 0
  behind a null packet; a kick is skipped when VU1 looks busy. Correct when: no
  packet is overwritten, lost or reordered; `IsDone` means done; nobody waits
  for ever.
* **MTGS ring** (`pcsx2/MTGS.cpp`). State: the ring of quadwords, two positions,
  the ring signal (`m_SignalRingEnable`, `m_SignalRingPosition`), the vsync
  queue (`m_QueuedFrameCount`, `m_VsyncSignalListener`), `m_CopyDataTally`,
  three semaphores. Operations: the senders, `GenericStall`, `PostVsyncStart`,
  `ResetGS`, `WaitGS`, `SetEvent`, `ExecuteTaskInThread`, `FinishTaskInThread`.
  Hard: three different sleeps of the EE, each ended by the other side; the GS
  side stops after every vsync. Correct when: FIFO, bounded vsync queue, no
  left-over semaphore posts, every sleep ends.
* **SysThreadBase** (`pcsx2/System/SysThreadBase.cpp`). State: `m_ExecMode`,
  `m_ExecModeMutex`, `m_RunningLock`, three semaphores. Operations: `Start`,
  `Suspend`, `Pause`, `Resume`, `StateCheckInThread`. Hard: the worker changes
  the mode without the mutex; "the lock is free" stands for "the worker is
  parked". Correct when: the worker is parked when Suspend or Pause return,
  every call returns, a resumed worker runs.
* **GIF path 1** (`pcsx2/Gif_Unit.h`). State: the buffer, `curSize`,
  `curOffset`, the packet being built, `readAmount`, `gsPackQueue`,
  `fakePackets`. Operations: `mVU_XGKICK_`, `CopyGSPacketData`,
  `RealignPacket`, `ExecuteGSPacketMTVU`, `FinishGSPacketMTVU` on VU1;
  `TransferGSPacketData(GIF_TRANS_MTVU)` and `Execute` on the EE;
  `GetGSPacketMTVU`, `PopGSPacketMTVU` on the GS. Hard: data must be contiguous,
  and all VU1 knows of the reader is a number of bytes. Correct when: nothing
  unread is overwritten, each program meets its own packet, VU1 waits only for
  what will happen.
* **GS interrupt mailbox** (`Gif_HandlerAD_MTVU`, `VU_Thread::Get_GSChanges`).
  State: `gsInterrupts`, `gsSignal`, `gsLabel`; on the EE's side CSR, SIGLBLID
  and the stalled SIGNAL. Hard: three atomic words, no lock. Correct when: a
  LABEL is merged exactly once, a FINISH is seen, a SIGNAL is lost only where
  the code says so.
* **GSJobQueue** (`plugins/GS/GSThread_CXX11.h` over
  `Utilities/boost_spsc_queue.hpp`). State: the ring, two mutexes, two condition
  variables, `m_exit`. Operations: `Push`, `Wait`, the destructor, `ThreadProc`.
  Hard: the ring is changed outside the locks that guard the sleeping. Correct
  when: FIFO, `Wait` means done, nobody sleeps for ever.
* **SIF0** (`pcsx2/Sif0.cpp`, `Sif.h`, `ps2/LegacyDmac.cpp`). State: the FIFO, what
  each side still has to move, the channels' start bits, two scheduled interrupts,
  whether the DMAC is enabled and whether a start is queued for it. Operations: the
  two starts, a forced stop, disabling and enabling the DMAC, `SIF0Dma`, the two
  interrupts. Hard: either side may start first, `SIF0Dma` runs only at a start, and
  the EE's start may be made much later than asked for. Correct when: the EE gets the
  IOP's words in order, the loop ends, no start and no transfer is left lying.

## 2. Modules

| module | what it is |
|---|---|
| `PacketFIFO` | the abstract specification the two rings, the job queue and path 1 implement: what was produced, and a consumer that takes it in order, once |
| `MTVU` | the MTVU ring with EE, VU1 and the GS side of `semaXGkick`; properties; the inductive invariant |
| `MTVU_proofs` | theorems about `MTVU` |
| `MTGS` | the MTGS ring with EE, GS and VU1's `SetEvent`; properties |
| `SysThreadBase` | controllers and a worker; properties |
| `SysThreadBase_proofs` | theorems about `SysThreadBase` |
| `MTGS_proofs` | theorems about `MTGS` |
| `GSInterrupts` | the mailbox between VU1's A+D writes and the EE's GS registers |
| `GifPath` | path 1's buffer and packet queue, VU1's and the GS's side |
| `Path1` | `GSInterrupts` and `GifPath` composed with the EE, which starts programs and collects their posts; properties of the whole |
| `GSInterrupts_proofs`, `GifPath_proofs` | the invariants of the mailbox and of the path's buffer, with one lemma per action |
| `Path1_proofs` | theorems about `Path1`, from the two above |
| `GSJobQueue` | a worker of the software renderer |
| `GSJobQueue_proofs` | theorems about `GSJobQueue` |
| `Sif0` | the SIF0 DMA |
| `Sif0_proofs` | theorems about `Sif0` |
| `MCMTVU`, `MCMTGS`, `MCSysThread`, `MCPath1`, `MCGSJobQueue`, `MCSif0` | small instances |

Variables and actions have the code's names where there is one. A thread is a
`...Pc` variable and one action for each stretch of code between two accesses to
shared state; a call to a helper that blocks or touches shared state is a step
of its own (`KickStart` is two reads and a post). Operators whose names end in
`_NoWait`, `_OffByOne` and the like are plausible mistakes; nothing refers to
them except the list of mutants in `PROJECT.json`.

### MTVU

The contents of a packet are abstracted: a word of the ring says which packet
wrote it and which word of the packet it is. That is enough to notice any
overwriting, shift or mix-up, and every packet kind is just a tag and a length.
The four tags stand for the code's six: `VU_WRITE` for micro and data memory,
`VIF_WRITE` for column and row (the two senders that do not kick). Copying a
packet in or out is one step: nothing of it is published before, and the other
thread is only ever allowed at other words - that this is so is what
`RingIntact` and `ExecutedInOrder` check. A word that is no tag sends VU1 to
`"wild"` (`jNO_DEFAULT` makes the switch undefined).

`Reset` is called with the ring done: by `SysMainMemory::DecommitAll` after
`WaitVU`, and by `mtvuFreeze` after an assertion of `IsDone`.

`lapped` is a history variable: it becomes true when the writer goes back to 0
while the published reader position is still 0. Then equal positions mean
"full" and the ring's reasoning is gone (finding in section 6). The real ring
has 4M words and this needs 16 MB of packets unread, so it is rare, not
excluded; the properties are about behaviours up to that point, and say so.

### MTGS

A command takes a slot, a vsync a slot plus its data; packets wrap. What the GS
does with a packet is left out. The wait for `semaXGkick` inside
`GS_RINGTYPE_MTVU_GSPACKET` is in `MTVU`. In the libretro build
`m_RingBufferIsBusy` is never set and the busy mutexes are never held, so they
are not in the model: `SetEvent` always posts and `WaitGS` spins. The VU1
thread's `WaitGS(false, true, true)` is modelled by its `SetEvent`, the part
that touches shared state; the EE's own `SetEvent` is one step, since nobody
else looks between its two halves. `m_CopyDataTally` is a plain `int` that both the EE
and VU1 change: each addition of the EE is a step of its own and so is the test that
follows it (`EETally`, `EETallyMore`, `EETallyTest`), and VU1's clear is lost when it
comes between the load and the store of an addition (`VUSetEventClear`). `StateCheckInThread` of the fake thread and
the 1 ms timeout around which the frontend polls events change nothing here.

### SysThreadBase

Blocking `Suspend` (`AppCoreThread::Suspend` always passes true), `Pause`,
`Resume`, and the worker of `SysCoreThread`. Cancellation is left
out. `WaitFor` says how long controllers leave a worker alone that `Resume` has
released: `"nothing"` (what the code enforces), until it has taken `m_RunningLock`
again (`"lock"`), or until it has also had its last look at `m_ExecMode` and left
`StateCheckInThread` (`"check"`). It separates what holds from what does not.

### GSInterrupts, GifPath, Path1

`GSInterrupts` and `GifPath` have their own variables and actions and know
nothing of each other; `Path1` conjoins a step of one with UNCHANGED of the
other. They meet twice: a register write is handled in the middle of parsing an
XGKICK (`VURuns`), and a stalled SIGNAL keeps the EE from sending MTVU packets
(`CanDoGif`). A VU program is one or more XGKICKs; an XGKICK is one copy or two
(wrapped at the end of VU memory). Sizes are in quadwords, a word of the buffer
says which program wrote it and at which place. The MTVU ring and the MTGS ring,
modelled elsewhere, are the counters `programs` and `gsRing`. `WaitGS` of VU1 is
the loop on `GetPendingGSPackets`; its `SetEvent` is in `MTGS`. A register is a
set of bits, a write carries data and mask, and `Merge` is the code's
`(old & ~msk) | (data & msk)`. The compare-exchange of a LABEL may fail
spuriously, as `compare_exchange_weak` may.

Paths 2 and 3, `PSE` and `DIR` are left out, so that `Gif_Unit::Execute` is the
loop that hands out fake packets: "the EE keeps MTVU packets back only for a
SIGNAL" is a statement about path 1 alone. With an unfinished path 3 packet they
also wait for the rest of it.

`overrun` and `doubled` are history variables for the three ways the code gives
up a SIGNAL: VU1 finds the flag still set (it logs "Double SIGNAL Not Handled"),
a SIGNAL is collected while another is stalled, a reset forgets the stalled one.
The second is silent, and unlike the handler of the other paths, which tests
`gsSIGNAL.queued` first.

The assumption that what a program kicks fits twice below `buffLimit` is needed:
`RealignPacket` leaves a gap that counts as unread until the packet itself is
transferred, so a longer packet would wait for its own completion. With the
code's 8 MB and 16 KB of VU memory that takes hundreds of XGKICKs in a program.

### GSJobQueue

One action for each access to the ring, a mutex or a condition variable. A slot
holds a job while it is executed (`consume_one` runs the functor on the slot).
Condition variables are sets of sleepers; `notify_one` wakes one if there is
one, and `Spurious` wakes one without. The owner is one thread, the GS thread.

### Sif0

One action for each half of an iteration of `SIF0Dma`, which runs to its end
(nothing else is enabled while `pc` is not `"idle"`). A word is known by its place
in the stream the IOP has put in, so that `read` can tell whether it is the next
one; tags are looked up by their place. A word that is no tag sends the model to
`"wild"`. `overran` is a history variable: `writeJunk` was called with less room
than padding. A packet may have no words: then its tag is all that enters the FIFO.

`enabled` stands for `DMAC_CTRL.DMAE` and the suspend bits of `DMAC_ENABLER` together.
A write of `CHCR.STR = 1` (`DmaExec`) sets the bit in either case, and calls `dmaSIF0`
or queues it; `EnableDMAC` makes the queued start if the bit is still set. In between
the channel has STR set and whatever the last transfer left in `sif0.ee`, which a
start of the IOP then goes on with. The EE's interrupts wait while the DMAC is disabled.

The EE's channel is in chain mode; `NORMAL_MODE`, stall control, `SBUS_F240` and cycle
counts are left out, and the interrupts come at any time after they are scheduled.

## 3. Runs

All runs: `tlc -workers 2 -config <cfg> <module>`.

| run | question | result |
|---|---|---|
| `mtvu_ring` | Is the MTVU ring a FIFO until it is lapped? Does the invariant of the proofs hold? | yes; 3.2M states |
| `mtvu_progress` | Do `WaitVU`, `ReserveSpace` and the GS's wait for `semaXGkick` end? | yes |
| `mtvu_lap` | "no complete pending packets when read_pos==write_pos" (MTVU.h) | violated |
| `mtgs_ring` | Is the MTGS ring a FIFO, are signals paired and the vsync queue bounded, with VU1 calling `SetEvent` at any time? | yes; 3.2M states |
| `mtgs_progress` | Do all three sleeps of the EE end without a VU1 thread, and are there wake-ups for all queued vsyncs? | yes; 278k states |
| `mtgs_vu1` | Does `WaitGS` return with a VU1 thread? | violated |
| `systhread_single` | Do Suspend, Pause and Resume keep their promises for one unhurried controller? | yes |
| `systhread_quick` | ... for a controller that pauses right after a resume? | violated |
| `systhread_two` | ... for two controllers? | violated |
| `path1` | Does GIF path 1 with its interrupt mailbox keep data, pairing and posts, and can VU1 hang in it? | yes, no; 3.4M states |
| `gsjobqueue` | Is the job queue a FIFO, does `Wait` mean done, does everything end? | yes |
| `sif0` | Does the EE get what the IOP sent, does the loop end, is a start ever forgotten? | yes until `writeJunk` overruns the FIFO, yes, no; 1.7M states |

### Properties

* `RingIntact` (both rings): a published packet that was not consumed is in the
  ring, word for word. `ExecutedInOrder`, `ImplementsFIFO`: packets come out in
  order, once, whole. `DoneMeansExecuted`: equal positions mean that everything
  published was executed.
* `WaitVUReturns`, `SendCompletes`, `XGkickArrives`: the skipped kick is always
  made up for - by the next turn of a loop in the first two, by MTGS's forced
  kick in the third.
* `SignalsPaired`: the two assertions of `GenericStall`, and that each post of
  `m_sem_OnRingReset` and `m_sem_Vsync` has exactly one taker. A left-over post
  would let a later stall or vsync wait fall through.
* `VsyncQueueBounded`: `PostVsyncStart` returns with at most `VsyncQueueSize + 1` vsyncs
  in the ring, one more for each `FinishTaskInThread`; while it is under way there is
  one more. The `+ 1` is what the code gives, not `VsyncQueueSize`: the GS
  lowers the count before it answers the listener, so the EE can be let through
  by the answer to the frame before. The second half says that the count the limit
  rests on is exact: `m_QueuedFrameCount` is the number of vsyncs in the ring, or one
  less while a published one is not counted. So it drifts neither up, which would make
  the EE wait too early, nor down, which would lift the limit.
* `WakeUpsSuffice`: whenever the EE is blocked on the GS there are as many
  pending wake-ups as queued vsyncs, and one more. This is why a GS that returns
  to the frontend after each vsync still empties the ring for a `WaitGS` that
  posts once. `VsyncWaitEnds`, `StallEnds`, `WaitGSReturns`: the sleeps end.
* `ParkedOnReturn`, `CallsReturn`, `ResumeTakesEffect`: section 1.
* `PacketsIntact`: every queued packet, and the one being built, is in the
  buffer word for word. `ImplementsFIFO` of path 1: the GS gets the programs'
  packets in order, once, whole. `ProgramsPaired`: MTVU packets, programs, queued
  packets and counts of `semaXGkick` match, so that the GS never finds the queue
  empty ("Expected gsPackQueue to have elements!"); and MTVU packets are kept back
  only for a stalled SIGNAL or after a reset that forgot one.
* `VUWaitsForGS`: whenever VU1 is in one of its three waits, the GS can move, or
  the EE is on its way to send what the GS needs, or holds it for a SIGNAL the
  program has to acknowledge. This is freedom from deadlock as an invariant,
  without fairness; TLC's own deadlock check is on as well.
* `SignalsInOrder`, `PostsKept`: the mailbox, see section 1. They are what the
  comments in `Get_GSChanges` argue from the memory order.
* `WaitMeansDone`: `Wait` and the destructor return with all jobs executed.
  `CallsEnd`, `JobsExecuted`: no call sleeps for ever, no job is left in the ring.
  Both rest on the empty critical sections in `Push` and `ThreadProc`, which look
  useless; the mutants of the two properties remove them.
* `StreamIntact`: the EE reads the stream in order, finds tags where the IOP put
  them, and schedules its interrupt exactly at the end of a packet that says so.
  `Settled`: a call of `SIF0Dma` leaves a side busy only if the other has to start
  first, and a channel whose STR is set is being served, about to be reported complete,
  or queued. Two exceptions are named in it. After an overrun nothing is said of the EE.
  And a tag without words at the end of the stream stays in the FIFO with the EE busy:
  `SIF0Dma` wants four words before it looks at a tag of two (Sif0.cpp:337), and no start
  brings the other two until the IOP sends more (`BareTag`). `LoopEnds`: a turn that counts as busy changes something.

### What the properties do not cover

Some properties make an exception of a case that is a hazard of its own. The exception
is named in the property, and the hazard is listed in `PROJECT.json` with a note and
without that property:

* the overrun of the SIF0 FIFO by `writeJunk` (Sif.h:69): `StreamIntact` and the third
  clause of `Settled` hold up to it, `TypeOK` bounds it to two words;
* a GS or GIF reset that forgets a stalled SIGNAL (GS.cpp:64): exempted by `overrun` in
  `ProgramsPaired` and `VUWaitsForGS`; a third SIGNAL that replaces a stalled one
  (MTVU.cpp:361): exempted by `overrun` in `SignalsInOrder`;
* a Pause or Suspend right after Resume (SysThreadBase.cpp:150): `systhread_single` leaves
  it out by its `WaitFor = "check"`; `systhread_quick` shows what goes wrong;
* the stale post of `m_sem_ChangingExecMode` (SysThreadBase.cpp:277): left out by the same
  hypothesis, and shown by no run (the end of section 6 says how to see it).

The deadlock of Suspend against Pause (SysThreadBase.cpp:104 and 262) takes two
controllers: it is `systhread_two` that shows it, and `CallsReturn` of `systhread_single`
says that one controller cannot bring it about.

### Bounds

* MTVU ring, 9 words, packets of 2 and 3, safety net 3, six packets: every
  remainder of space at the end of the ring occurs (0 to 3 words left), the
  writer wraps twice, waits for the reader in front of it, and laps it. The
  safety net is as long as the longest packet, as in the code it is longer.
  `MaxPosts` = 1 or 2 caps `semaEvent`: a kick is held back at the cap, which
  only removes behaviours with redundant posts.
* MTVU progress, 6 words, three packets with VU programs: a send has to wait
  for room after one wrap.
* MTGS ring, 7 slots, vsync of 2, five packets, one `SetEvent` of VU1: the ring
  fills, wraps inside a vsync's data, the EE stalls in both ways (`SpinLimit`
  2 separates sleeping from spinning), and the vsync queue (limit 1) fills. Six slots
  are usable, so three vsyncs fit, and the queue's limit when `PostVsyncStart` has
  returned is two: it is the wait that keeps the limit and not the size of the ring
  (without the wait, which is the property's mutant, TLC finds a third).
  `FinishTaskInThread` is left to `mtgs_progress` (6 slots, four packets, one call); that
  the limit rises by one with each call is shown for any number by the theorem only.
  Tally limit 3 and a GS packet weight of 3 make it overflow or not depending
  on the packets before.
* SysThreadBase: eight calls of one controller, or three of each of two. Eight, because
  the shortest way to see a worker that is not parked when `WaitFor` is `"lock"` takes
  seven (section 6); the theorem holds for any number of calls.
* Path 1: a buffer of 10 with `buffLimit` 8, programs of up to 4 in XGKICKs of 1
  or 2, a queue of 2: packets are moved to the front with and without a gap
  behind them, and VU1 waits for room, in the queue and in the realignment (a
  packet that is moved over itself would be one longer than half the buffer,
  which the assumption excludes). Four programs and A+D writes in all (`MaxEvents`), at most three
  writes: two LABELs to merge while the EE takes one, a SIGNAL to stall behind
  another, a third to overrun it.
* GSJobQueue: three slots (two usable), five jobs, two spurious wake-ups: the
  ring is full, wraps, and is empty again.
* SIF0: a FIFO of 8 words (128 in the code) and
  four packets of 0, 3, 6, 8 or 9 words: each amount of padding, a tag alone, packets
  that fit with their tag, one that fits only without its padding (6 + 2, the overrun),
  and packets longer than the FIFO, which need the EE to go on. Starts, stops and the
  enabling of the DMAC are not bounded.

Runs with `CHECK_DEADLOCK FALSE` end when the packets, jobs or calls are used up
or the queue is destroyed, in `mtgs_ring` also in the lost wake-up of finding 2,
in `sif0` also in `"wild"` after an overrun; what must not get stuck is
stated by the liveness properties instead. `mtgs_progress` leaves it on: the EE
can always call `WaitGS`.

### Fairness

Weak fairness of each thread's own steps: an unblocked thread runs (preemptive
threads). In `MTGS` this includes `retro_run` being called again and again,
which is what a libretro frontend does. What the EE sends next, whether it calls
`WaitVU`, `Reset` or `WaitGS`, whether a controller makes another call and
whether `FinishTaskInThread` is called is never assumed. Likewise the owner of a
job queue finishes a call it has begun but need not begin one, and spurious
wake-ups are not assumed. `SIF0Dma` is a loop on one thread, so it goes on; starts,
stops and interrupts are not assumed. `path1` checks safety only. Mutexes are only
waited for while the holder gives them up in finitely many steps and the
holder's re-entry needs another wake-up, so weak fairness is enough.

## 4. Proofs

The theorems hold for every value of the constants that the modules' assumptions
allow; histories stay bounded by `MaxPackets` and the like, for any such bound. Each
module has its own inductive invariant `IInv`, proved by one lemma per action or kind
of action; TLC checked each of them on the instance of the module's run before the
proof. A theorem about a property is `Invariance` and `IInv => property`.

### MTVU_proofs

For every `buffer_size`, `_4kb`, `Kinds`, `MaxPackets`, `MaxPosts` that satisfy
the two assumptions of `MTVU` (the ring is not empty; each packet is shorter
than the ring, which `ReserveSpace` asserts, and no longer than the safety net;
the second is what keeps the writer from going back to 0 twice in front of a
reader near the end. The only longer packets are the two that `mtvuFreeze` sends
after a Reset):

| theorem | states |
|---|---|
| `Invariance` | `Spec => []IInv` |
| `TypeCorrect` | `Spec => []TypeOK` |
| `RingStaysIntact` | `Spec => []RingIntact` |
| `ExecutesInOrder` | `Spec => []ExecutedInOrder` |
| `DoneIsDone` | `Spec => []DoneMeansExecuted` |
| `RingImplementsFIFO` | `Spec => ImplementsFIFO` |

None of the last five is inductive: that the EE does not overwrite a packet
depends on where all pending packets are, and that depends on every wrap so far.
`IInv` says, up to a lap:

* *Laps*: the writer is on the reader's lap and not behind it, or one lap ahead
  and strictly below it, and then the null packet is still where the reader will
  find it. The two exits of `WaitOnSize` are the two cases.
* *Placed*: each pending packet lies between the positions its lap allows and is
  intact. *Ordered*: pending packets do not overlap and follow each other.
* *Linked*: there is no gap between a pending packet and the next, except the
  null packet's. With this the next tag the reader meets is the tag of the next
  packet (lemma `NextTag`), so it executes in order and never meets a stray word.
* *InProgress*: what VU1 is executing is the first pending packet or the null
  packet. `WriterInv`, `ReaderInv`, `WordsPlaced`: the positions between the
  steps of a send and of an execution.

There is one lemma per kind of step (`EECommitInv`, `EEWrapInv`, `EEWriteInv`,
`EEResetInv`, `VUReadTagInv`, `VUExecuteInv`, `VUCommitInv`, and `QuietStep`
for steps that touch no position). The interesting ones are `EEWriteInv` (the
written words are disjoint from every pending packet), `EEWrapInv` (either the
reader has left 0, or this is a lap) and `VUReadTagInv`. `StepImplementsFIFO`
maps a step to the abstract FIFO: `CommitWritePos` produces, the execution of a
packet consumes, everything else stutters.

### MTGS_proofs

From `MTGSAssumption`: a vsync is a tag and data (`RingCmdPacket_Vsync`), and shorter
than the ring.

| theorem | states |
|---|---|
| `Invariance` | `Spec => []IInv` |
| `TypeCorrect` | `Spec => []TypeOK` |
| `RingStaysIntact` | `Spec => []RingIntact` |
| `SignalsArePaired` | `Spec => []SignalsPaired` |
| `VsyncQueueIsBounded` | `Spec => []VsyncQueueBounded` |
| `WakeUpsDoSuffice` | `Spec => []WakeUpsSuffice`, without a VU1 thread |
| `RingImplementsFIFO` | `Spec => ImplementsFIFO` |

The ring has one picture here, unlike MTVU's two laps, because a slot always stays
free. `Off(r, p)` is the distance from r to p going round; `Where(n)` and `Behind(n)` are
the distances of packet n's first slot and of the slot after its last from
`m_ReadPos`. `IInv` consists of

* *RingInv*: packets are executed by number; those in the ring start at `m_ReadPos`,
  follow one another without a gap and end at `m_WritePos` (`Placed`); the room
  `GenericStall` found is still there when the packet is written (`Room`). Then the
  slots written are disjoint from every packet's (`WriteRing`), and the next slot the
  GS reads is the next packet's tag (`ExecuteReads`). The packet that the GS has taken
  and not yet moved past counts as in the ring (`FirstInRing`).
* *SignalInv*: a request for `m_sem_OnRingReset` or `m_sem_Vsync` is open, or answered and
  not taken, exactly while the EE is at the steps between asking and waiting.
* *FrameInv*: `m_QueuedFrameCount` is the number of vsyncs in the ring, up to the one
  that is published and not counted; and it is within the limit, where a GS that is
  about to answer the listener counts as one frame more, and so does the frame of an EE
  that still waits. Two conjuncts say which steps belong to a vsync (`VsyncPcs`) and
  which to a GS packet (`tallyMore`). `ResetGS` sets it to 0: that is
  right because it is called with the ring empty (`EmptyRing`).
* *Bounded*: the packets have numbers up to `MaxPackets`.

RingInv and SignalInv do not need each other. FrameInv uses both: an empty ring has
no vsyncs, and no listener is set when the EE counts a frame. *WakeInv* is an invariant when VU1 has
no thread: each vsync in the ring has a post of `m_sem_event` behind it, or the GS is at
work, or the vsync's `SetEvent` is still to come; and one post more while the EE waits for
what it asked for. It needs that a vsync adds to the tally, or the second
test of `PostVsyncStart` would skip its `SetEvent`. With a VU1 thread it is false: that
thread's `SetEvent` clears the tally after its post (finding in section 6).

### GSInterrupts_proofs, GifPath_proofs, Path1_proofs

| theorem | states |
|---|---|
| `Invariance` | `Spec => []IInv` |
| `TypeCorrect` | `Spec => []TypeOK` |
| `BufferIntact` | `Spec => []PacketsIntact` |
| `Paired` | `Spec => []ProgramsPaired` |
| `WaitsForGS` | `Spec => []VUWaitsForGS` |
| `SignalsKept` | `Spec => []SignalsInOrder` |
| `PostsArrive` | `Spec => []PostsKept` |
| `PathImplementsFIFO` | `Spec => ImplementsFIFO` |

They follow the composition: a step of `Path1` is a step of the mailbox or leaves it
alone (`NextMail`), and the same for the path (`NextPath`), so each part is proved
without the other.

* *MailInv* ties the locals of VU1's handlers and of `Gif_MTVU`'s collecting loop to the
  mailbox: what was read by the compare-exchange of a LABEL (`SwapReady`) or of a SIGNAL
  (`SignalReady`) is what is still there, or the exchange fails; posts and signals are
  accounted for (`PostsKept`, `SignalsInOrder`, which are then conjuncts of it).
* *PathInv* says which picture of the buffer `readAmount` stands for. VU1 knows nothing
  but the number of quadwords not yet read. `LaidOut`: the unread packets and the
  packet being built follow one another, but for at most one that was moved to the
  front, and everything before it that is unread is above the data of the packet
  being built. `Unread` counts exactly the quadwords of this picture, gaps included.
  `RealignStep` is the hard case: `RealignPacket` waits until the count proves the front is
  free, and the new gap must be counted with the moved packet. `Gaps`, `Building`,
  `Counted` and `Budget` bound the gap, and tie the packet in progress, the queue,
  `semaXGkick` and the histories.
* *Sent* and *KeptBack* count the EE's programs and MTVU packets against the path's.
  `WaitsForGS` then needs one more argument (`StuckHasQueue`): if the queue is empty,
  everything is read, so the waits for the front and for room are not waits; hence VU1
  waits only with a packet in the queue, and that packet has its MTVU packet in the
  ring, about to be sent, or kept back for a SIGNAL.

### GSJobQueue_proofs

| theorem | states |
|---|---|
| `Invariance` | `Spec => []IInv` |
| `TypeCorrect` | `Spec => []TypeOK` |
| `WaitIsDone` | `Spec => []WaitMeansDone` |
| `QueueImplementsFIFO` | `Spec => ImplementsFIFO` |

*RingInv*: the slots from `read_index_` to `write_index_` hold the jobs pushed and not
given back, one slot is free, a slot written but not published is the next one; so
`IsEmpty`, which compares indices, is exact (`EmptyMeansDone`). *ExitInv*: who holds
`m_lock`, and that a worker which saw the exit flag found the ring empty after the last
Push, since the flag is set under the lock.

### SysThreadBase_proofs

| theorem | states |
|---|---|
| `TypeCorrect` | `Spec => []TypeOK`, for any controllers and `WaitFor` |
| `ParksBeforeReturn` | `Spec => ParkedOnReturn`, for one controller and `WaitFor = "check"` |

*BaseInv* is what holds for any controllers: the worker holds `m_RunningLock` exactly at
its steps outside the waits, and outside them the mode is neither Paused nor Closed,
because only the worker's own store sets these. So the switch of `StateCheckInThread` is
never entered at `case ExecMode_Paused`, where it would take a lock it holds, nor
without a case (`jNO_DEFAULT`). *Phase* is for one controller: it says, for each step of
a call, what the worker may be doing (`Stopped`, `Running`, `Released`, `ToClose`, `ToPause`,
`Switching`), and *InOp* that `m_sem_ChangingExecMode` is 0 except while Suspend waits for
it. A step of the worker keeps it within its phase (`WorkerPhase`), a step of a call moves
it to the next (`ControllerSole`).

The hypotheses are what the code leaves open. With two controllers, or with
`WaitFor = "nothing"` or `"lock"`, `ParkedOnReturn` is false; `"lock"` was the hypothesis
until the proof failed on it (section 6).

### Sif0_proofs

For every FIFO of whole quadwords and every set of packet lengths, 0 included:

| theorem | states |
|---|---|
| `Invariance` | `Spec => []IInv` |
| `TypeCorrect` | `Spec => []TypeOK` |
| `StreamStaysIntact` | `Spec => []StreamIntact` |
| `CallsSettle` | `Spec => []Settled` |

`IInv` gives both sides a place in the stream. *Chain*: packets follow one another
without a gap, each a tag and whole quadwords. *IOPPlace*: what is written and what the
counters hold back is the whole stream. *Even*: everything moves in pairs of words, so
that there is room for a whole tag or for none, and the padding overflows by two words at
most. Up to an overrun, *EEPlace* says which packet the EE is in and how many quadwords
of it are to come, and *InFifo* that the FIFO holds the words written and not taken
(together `StreamInv`). Then the words the EE takes for a tag are the tag of the next
packet (`NextTag`): with four words in the FIFO it cannot be behind the last one.
`Settled` needs all of it: a FIFO that holds less than a quadword for an idle IOP is
empty or holds a tag without words (`NothingLeft`). That a start is not forgotten is
part of the invariant: `Settled` speaks of the states between calls, and the same holds
within a call (`Calls`). A queued start made late needs no argument of its own, because the
places do not depend on whether the EE's side was busy before.

## 5. Only model-checked

Liveness, in all modules: fairness is out of the prover's reach. Everything else the
passing runs check is proved, `ParkedOnReturn` and `WakeUpsSuffice` under the
hypotheses above. `IInv` of `MTVU` is both checked and proved; those of the other
modules were checked with TLC on the instances of their runs before the proof.

## 6. Findings

1. `mtvu_lap`: the ring can be lapped. `WaitOnSize(1)` accepts `readPos <=
   m_write_pos`, so also a reader still at 0; then `m_write_pos = 0` is
   published and the positions are equal with the whole ring pending. MTVU.h
   says this cannot be; the FIXME in `WaitOnSize` may well be about it. The 4 KB
   safety net does not help here, because it is the other exit.
2. `mtgs_vu1`: `SetEvent` by VU1 clears `m_CopyDataTally` between the EE's
   `SendDataPacket` and its test in `PostVsyncStart`; this vsync posts nothing,
   and `WaitGS` later waits for a GS that sleeps.
3. `systhread_quick`: Pause right after Resume returns before the worker has
   woken up; the next Resume returns without effect and the worker then parks.
4. `systhread_two`: Suspend while another thread's Pause is under way can wait
   for ever for `m_sem_ChangingExecMode`, with `m_ExecModeMutex` held.

A fifth came out of the proof of `ParksBeforeReturn`; no run shows it. A Suspend
that comes when the worker has just left a pause, between `m_RunningLock.Acquire()`
(SysThreadBase.cpp:271) and its last look at the mode, makes the worker post
`m_sem_ChangingExecMode` (line 277), which Suspend waits for only in the modes Pausing
and Paused. The post stays. The next Suspend of a paused worker takes it for the answer to
its own request, and then finds `m_RunningLock` free because the worker has not woken
up: it returns with the worker about to run. With `WaitFor = "lock"` and `MaxCalls = 7` in
`MCSysThread_single.cfg` TLC finds it in 63 states, as a violation of `ParkedOnReturn`.

## 7. Plan

Proofs: `MTVU`, that `WaitOnSize(1)` never waits up to a lap (the safety net already
keeps the writer from reaching the end of the ring in front of the reader);
`SysThreadBase`, that `m_ExecModeMutex` keeps the controllers' steps apart, and which of
the phases survive a second controller that only calls Pause and Resume.

Models: the frontend, which would compose `MTGS` and `SysThreadBase` on one
thread (`set_eject_state` pauses the EE on the thread that must run the GS;
`FinishTaskInThread` releases only a wait that is already armed, and
`VSyncStart` looks for a pending Pause before it posts the vsync); SIF1.

## 8. Not modelled

The share of the source that is modelled is small and will stay so. Of the
426,000 lines of implementation, 187,000 are two data headers
(`resources/cheats_ws.h`, `resources/GameIndex.h`); most of the rest is
renderers, code generators, instruction tables and device emulation, that is,
arithmetic on one thread whose correctness is agreement with hardware, for
which the repository holds no statement to check against. The parts where order,
interleaving or waiting decide are those of section 1.

SIF1 is the mirror image of SIF0 without padding. Two things there are worth a
reader's attention: with tag transfer enabled (`TTE`) the EE's half counts itself
busy with one to three words free and moves nothing, and `dmaSIF1` tests the `TIE`
bit of VIF1's channel, not of its own (Sif1.cpp:365). The disc thread
(`CDVDdiscThread.cpp`) reads a physical drive, a source the libretro frontend never
selects. The life cycle of a pxThread rests on pthread cancellation.


Renderers, recompilers and interpreters, SPU2's and IPU's arithmetic, memory
mapping, configuration, the game database and patches, save-state
serialisation, the IPC socket: data transformation, code generation or host I/O
without a protocol of their own. Vendored code under `3rdparty/`. Weak memory:
the models are sequentially consistent; the code's acquire and release pairs
justify this for the positions, and relaxed accesses to `isBusy` only delay what
KickStart sees, which the skipped kick already covers.
