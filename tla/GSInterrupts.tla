---------------------------- MODULE GSInterrupts ----------------------------
(***************************************************************************)
(* The mailbox through which VU1's GS register writes reach the EE when VU1 *)
(* has a thread.  Gif_HandlerAD_MTVU (pcsx2/Gif_Unit.cpp), on the VU1       *)
(* thread, posts the SIGNAL, FINISH and LABEL writes it meets in a path 1   *)
(* packet; VU_Thread::Get_GSChanges (pcsx2/MTVU.cpp), on the EE thread,     *)
(* collects them into CSR and SIGLBLID; gsCSRwrite (pcsx2/GS.cpp) is how    *)
(* the program running on the EE acknowledges them.  There is no lock:      *)
(* three atomic words and the order of the accesses to them.                *)
(*                                                                         *)
(* A register value is a set of bits; a write carries data and a mask.      *)
(* Interrupt lines (gsIrq, GSIMR) are left out.                             *)
(***************************************************************************)
EXTENDS Integers, Sequences

CONSTANTS
  Bits,             \* the bits of SIGID and LBLID
  Writes,           \* the A+D writes VU1 makes: records [reg, data, msk]
  MaxWrites         \* bound: A+D writes in a behaviour

Value == [data : SUBSET Bits, msk : SUBSET Bits]

ASSUME GSInterruptsAssumption ==
  /\ Writes \subseteq [reg : {"SIGNAL", "FINISH", "LABEL"}, data : SUBSET Bits, msk : SUBSET Bits]
  /\ Writes # {} /\ MaxWrites \in Nat

VARIABLES
  gsInterrupts, gsSignal, gsLabel,     \* the mailbox: a set of flags, two values
  SIGNAL, FINISH, SIGID, LBLID,        \* EE: CSRreg and GSSIGLBLID
  gsSIGNAL,                            \* EE: the stalled signal, [queued, val]
  adPc, adWrite,                       \* VU1: step of the handler, its write; the locals
  adExisting, adWanted,                \*   of a compare-exchange (all "None" outside)
  gcPc, gcInterrupts, gcSignal,        \* EE: step of Get_GSChanges, what it loaded
  \* History variables: no step of the code reads them.
  writes,           \* A+D writes started
  signalled,        \* the SIGNALs stored in the mailbox
  doubled,          \* VU1 saw the flag still set: "Double SIGNAL Not Handled"
  collected,        \* the SIGNALs that Get_GSChanges took
  raised,           \* the SIGNALs that reached SIGID
  overrun,          \* a stalled SIGNAL was replaced by another, or dropped by a reset
  labelled,         \* LBLID as it would be if every LABEL was applied at once
  finishes          \* FINISHes posted and not yet seen in CSR

mailbox  == <<gsInterrupts, gsSignal, gsLabel>>
csr      == <<SIGNAL, FINISH, SIGID, LBLID, gsSIGNAL>>
handler  == <<adPc, adWrite, adExisting, adWanted>>
changes  == <<gcPc, gcInterrupts, gcSignal>>
vuHist   == <<writes, signalled, doubled, labelled>>
eeHist   == <<collected, raised, overrun>>
gsiVars  == <<mailbox, csr, handler, changes, vuHist, eeHist, finishes>>

None == [data |-> {}, msk |-> {}]

\* (old & ~msk) | (data & msk)
Merge(old, v) == (old \ v.msk) \cup (v.data \cap v.msk)

GSIInit ==
  /\ gsInterrupts = {} /\ gsSignal = None /\ gsLabel = None
  /\ SIGNAL = FALSE /\ FINISH = FALSE /\ SIGID = {} /\ LBLID = {}
  /\ gsSIGNAL = [queued |-> FALSE, val |-> None]
  /\ adPc = "idle" /\ adWrite = None
  /\ adExisting = None /\ adWanted = None
  /\ gcPc = "idle" /\ gcInterrupts = {} /\ gcSignal = None
  /\ writes = 0 /\ signalled = << >> /\ doubled = FALSE /\ labelled = {}
  /\ collected = << >> /\ raised = << >> /\ overrun = FALSE
  /\ finishes = 0

-----------------------------------------------------------------------------
(* VU1: Gif_HandlerAD_MTVU *)

\* The handler returns; its locals are gone.
ADReturn == adPc' = "idle" /\ adWrite' = None /\ adExisting' = None /\ adWanted' = None

\* SIGNAL: the test only reports a double SIGNAL.
ADSignal ==
  /\ adPc = "idle"
  /\ \E w \in Writes : w.reg = "SIGNAL" /\ adWrite' = [data |-> w.data, msk |-> w.msk]
  /\ writes < MaxWrites /\ writes' = writes + 1
  /\ doubled' = (doubled \/ "Signal" \in gsInterrupts)
  /\ adPc' = "sigStore"
  /\ UNCHANGED <<mailbox, csr, adExisting, adWanted, changes, signalled, labelled, eeHist, finishes>>

ADSignalStore ==
  /\ adPc = "sigStore"
  /\ gsSignal' = adWrite
  /\ signalled' = Append(signalled, adWrite)
  /\ adPc' = "sigFlag"
  /\ UNCHANGED <<gsInterrupts, gsLabel, csr, adWrite, adExisting, adWanted, changes, writes,
                 doubled, labelled, eeHist, finishes>>

ADSignalFlag ==
  /\ adPc = "sigFlag"
  /\ gsInterrupts' = gsInterrupts \cup {"Signal"}
  /\ ADReturn
  /\ UNCHANGED <<gsSignal, gsLabel, csr, changes, vuHist, eeHist, finishes>>

ADFinish ==
  /\ adPc = "idle"
  /\ \E w \in Writes : w.reg = "FINISH"
  /\ writes < MaxWrites /\ writes' = writes + 1
  /\ gsInterrupts' = gsInterrupts \cup {"Finish"}
  /\ finishes' = finishes + 1
  /\ UNCHANGED <<gsSignal, gsLabel, csr, handler, changes, signalled, doubled, labelled, eeHist>>

\* LABEL, up to the compare-exchange loop.
ADLabel ==
  /\ adPc = "idle"
  /\ \E w \in Writes : w.reg = "LABEL" /\ adWrite' = [data |-> w.data, msk |-> w.msk]
  /\ writes < MaxWrites /\ writes' = writes + 1
  /\ adExisting' = None /\ adWanted' = adWrite'
  /\ adPc' = "lblSwap"
  /\ UNCHANGED <<mailbox, csr, changes, signalled, doubled, labelled, eeHist, finishes>>

\* Mutant: the value the compare-exchange failed on is not merged in.
ADLabelSwap_NoMerge ==
  /\ adPc = "lblSwap"
  /\ IF gsLabel = adExisting
       THEN /\ gsLabel' = adWanted /\ adPc' = "lblFlag"
            /\ labelled' = Merge(labelled, adWrite)
            /\ UNCHANGED <<adExisting, adWanted>>
       ELSE /\ adExisting' = gsLabel
            /\ UNCHANGED <<gsLabel, adPc, labelled, adWanted>>
  /\ UNCHANGED <<gsInterrupts, gsSignal, csr, adWrite, changes, writes, signalled, doubled,
                 eeHist, finishes>>

\* One turn of the compare_exchange_weak loop: it may fail although the values are
\* equal.  After a failure the write is merged into the value found.
ADLabelSwap ==
  /\ adPc = "lblSwap"
  /\ \/ /\ gsLabel = adExisting
        /\ gsLabel' = adWanted /\ adPc' = "lblFlag"
        /\ labelled' = Merge(labelled, adWrite)
        /\ UNCHANGED <<adExisting, adWanted>>
     \/ /\ adExisting' = gsLabel
        /\ adWanted' = [data |-> Merge(gsLabel.data, adWrite), msk |-> gsLabel.msk \cup adWrite.msk]
        /\ UNCHANGED <<gsLabel, adPc, labelled>>
  /\ UNCHANGED <<gsInterrupts, gsSignal, csr, adWrite, changes, writes, signalled, doubled,
                 eeHist, finishes>>

ADLabelFlag ==
  /\ adPc = "lblFlag"
  /\ gsInterrupts' = gsInterrupts \cup {"Label"}
  /\ ADReturn
  /\ UNCHANGED <<gsSignal, gsLabel, csr, changes, vuHist, eeHist, finishes>>

HandlerStarts == ADSignal \/ ADFinish \/ ADLabel
HandlerRuns   == ADSignalStore \/ ADSignalFlag \/ ADLabelSwap \/ ADLabelFlag

-----------------------------------------------------------------------------
(* EE: Get_GSChanges *)

\* Go to the first test after `from` that finds its flag among those loaded, or
\* return; the locals are gone then.
GCNext(from, flags) ==
  /\ gcPc' = IF from = "load" /\ "Signal" \in flags        THEN "sigLoad"
             ELSE IF from # "finish" /\ "Finish" \in flags THEN "finish"
             ELSE IF "Label" \in flags                     THEN "lblClear"
             ELSE "idle"
  /\ gcInterrupts' = IF gcPc' = "idle" THEN {} ELSE flags

GCLoad ==
  /\ gcPc = "idle"
  /\ GCNext("load", gsInterrupts)
  /\ UNCHANGED <<mailbox, csr, handler, gcSignal, vuHist, eeHist, finishes>>

GCSignalLoad ==
  /\ gcPc = "sigLoad"
  /\ gcSignal' = gsSignal
  /\ gcPc' = "sigClear"
  /\ UNCHANGED <<mailbox, csr, handler, gcInterrupts, vuHist, eeHist, finishes>>

\* Mutant: the flag is left set.
GCSignalClear_Kept ==
  /\ gcPc = "sigClear"
  /\ collected' = Append(collected, gcSignal)
  /\ SIGNAL' = TRUE /\ SIGID' = Merge(SIGID, gcSignal)
  /\ raised' = Append(raised, gcSignal)
  /\ GCNext("signal", gcInterrupts)
  /\ gcSignal' = None
  /\ UNCHANGED <<mailbox, FINISH, LBLID, gsSIGNAL, handler, vuHist, overrun, finishes>>

\* The flag is cleared; the signal is raised, or stalls behind the one in CSR.
GCSignalClear ==
  /\ gcPc = "sigClear"
  /\ gsInterrupts' = gsInterrupts \ {"Signal"}
  /\ collected' = Append(collected, gcSignal)
  /\ IF SIGNAL
       THEN /\ gsSIGNAL' = [queued |-> TRUE, val |-> gcSignal]
            /\ overrun' = (overrun \/ gsSIGNAL.queued)
            /\ UNCHANGED <<SIGNAL, SIGID, raised>>
       ELSE /\ SIGNAL' = TRUE /\ SIGID' = Merge(SIGID, gcSignal)
            /\ raised' = Append(raised, gcSignal)
            /\ UNCHANGED <<gsSIGNAL, overrun>>
  /\ GCNext("signal", gcInterrupts)
  /\ gcSignal' = None
  /\ UNCHANGED <<gsSignal, gsLabel, FINISH, LBLID, handler, vuHist, finishes>>

GCFinish ==
  /\ gcPc = "finish"
  /\ gsInterrupts' = gsInterrupts \ {"Finish"}
  /\ FINISH' = TRUE /\ finishes' = 0
  /\ GCNext("finish", gcInterrupts)
  /\ UNCHANGED <<gsSignal, gsLabel, SIGNAL, SIGID, LBLID, gsSIGNAL, handler, gcSignal, vuHist,
                 eeHist>>

GCLabelClear ==
  /\ gcPc = "lblClear"
  /\ gsInterrupts' = gsInterrupts \ {"Label"}
  /\ gcPc' = "lblTake"
  /\ UNCHANGED <<gsSignal, gsLabel, csr, handler, gcInterrupts, gcSignal, vuHist, eeHist, finishes>>

GCLabelTake ==
  /\ gcPc = "lblTake"
  /\ gsLabel' = None
  /\ LBLID' = Merge(LBLID, gsLabel)
  /\ gcPc' = "idle" /\ gcInterrupts' = {}
  /\ UNCHANGED <<gsInterrupts, gsSignal, SIGNAL, FINISH, SIGID, gsSIGNAL, handler, gcSignal,
                 vuHist, eeHist, finishes>>

ChangesRun == GCSignalLoad \/ GCSignalClear \/ GCFinish \/ GCLabelClear \/ GCLabelTake

-----------------------------------------------------------------------------
(* EE: gsCSRwrite, when the program writes 1 to a bit of CSR *)

\* csr.SIGNAL: the stalled signal, if any, is raised at once.  (It also resumes the
\* GIF, which belongs to the path.)
CSRSignal ==
  /\ IF gsSIGNAL.queued
       THEN /\ SIGNAL' = TRUE /\ SIGID' = Merge(SIGID, gsSIGNAL.val)
            /\ raised' = Append(raised, gsSIGNAL.val)
       ELSE /\ SIGNAL' = FALSE
            /\ UNCHANGED <<SIGID, raised>>
  /\ gsSIGNAL' = [gsSIGNAL EXCEPT !.queued = FALSE]
  /\ UNCHANGED <<mailbox, FINISH, LBLID, handler, changes, vuHist, collected, overrun, finishes>>

CSRFinish ==
  /\ FINISH' = FALSE
  /\ UNCHANGED <<mailbox, SIGNAL, SIGID, LBLID, gsSIGNAL, handler, changes, vuHist, eeHist, finishes>>

\* csr.RESET
CSRReset ==
  /\ SIGNAL' = FALSE /\ FINISH' = FALSE
  /\ gsSIGNAL' = [gsSIGNAL EXCEPT !.queued = FALSE]
  /\ overrun' = (overrun \/ gsSIGNAL.queued)
  /\ UNCHANGED <<mailbox, SIGID, LBLID, handler, changes, vuHist, collected, raised, finishes>>

\* Gif_Unit::Reset(true), when the program resets the GIF.
GIFReset ==
  /\ gsSIGNAL' = [queued |-> FALSE, val |-> None]
  /\ overrun' = (overrun \/ gsSIGNAL.queued)
  /\ UNCHANGED <<mailbox, SIGNAL, FINISH, SIGID, LBLID, handler, changes, vuHist, collected,
                 raised, finishes>>

-----------------------------------------------------------------------------
(* Properties *)

GSITypeOK ==
  /\ gsInterrupts \subseteq {"Signal", "Finish", "Label"}
  /\ gsSignal \in Value /\ gsLabel \in Value
  /\ SIGNAL \in BOOLEAN /\ FINISH \in BOOLEAN /\ SIGID \subseteq Bits /\ LBLID \subseteq Bits
  /\ gsSIGNAL \in [queued : BOOLEAN, val : Value]
  /\ adPc \in {"idle", "sigStore", "sigFlag", "lblSwap", "lblFlag"}
  /\ adWrite \in Value /\ adExisting \in Value /\ adWanted \in Value
  /\ gcPc \in {"idle", "sigLoad", "sigClear", "finish", "lblClear", "lblTake"}
  /\ gcInterrupts \subseteq {"Signal", "Finish", "Label"} /\ gcSignal \in Value
  /\ writes \in 0 .. MaxWrites /\ finishes \in 0 .. MaxWrites

\* The SIGNAL that Get_GSChanges has not yet taken: posted, or stored and about to
\* be flagged.
Uncollected ==
  Len(signalled) - Len(collected)
    = IF "Signal" \in gsInterrupts \/ adPc = "sigFlag" THEN 1 ELSE 0

\* No SIGNAL is lost, repeated or altered between VU1 and SIGID, unless VU1 found
\* the flag still set ("Double SIGNAL Not Handled"), a third SIGNAL arrived while
\* one was stalled, or the GS was reset.  The comment in Get_GSChanges says why the
\* value must be loaded before the flag is cleared.
SignalsInOrder ==
  ~doubled =>
    /\ collected = SubSeq(signalled, 1, Len(collected))
    /\ Uncollected
    /\ ~overrun =>
         collected = raised \o (IF gsSIGNAL.queued THEN <<gsSIGNAL.val>> ELSE << >>)

\* Coalescing LABEL writes loses none: LBLID with what is in the mailbox merged in
\* is what all the writes together make of it; and a value waits in the mailbox
\* only if its flag is set, is about to be, or the EE is about to take it ("an
\* update with the flag unset", as the comment in Get_GSChanges puts it).  A FINISH
\* not yet seen in CSR keeps its flag, although the EE clears the other two bits of
\* the word at any moment.
PostsKept ==
  /\ Merge(LBLID, gsLabel) = labelled
  /\ gsLabel.msk # {} => "Label" \in gsInterrupts \/ adPc = "lblFlag" \/ gcPc = "lblTake"
  /\ finishes > 0 => "Finish" \in gsInterrupts
=============================================================================
