------------------------ MODULE GSInterrupts_proofs ------------------------
(***************************************************************************)
(* Lemmas about the mailbox between VU1 and the EE: an invariant that every *)
(* step of either side preserves, whatever the register's bits, the writes  *)
(* VU1 makes and their number.  Path1_proofs combines it with the path.     *)
(***************************************************************************)
EXTENDS GSInterrupts, TLAPS

\* Any step that touches the mailbox or the EE's GS registers.
MailStep ==
  \/ ADSignal \/ ADSignalStore \/ ADSignalFlag \/ ADFinish
  \/ ADLabel \/ ADLabelSwap \/ ADLabelFlag
  \/ GCLoad \/ GCSignalLoad \/ GCSignalClear \/ GCFinish \/ GCLabelClear \/ GCLabelTake
  \/ CSRSignal \/ CSRFinish \/ CSRReset \/ GIFReset
  \/ UNCHANGED gsiVars

HistoryOK ==
  /\ signalled \in Seq(Value) /\ collected \in Seq(Value) /\ raised \in Seq(Value)
  /\ doubled \in BOOLEAN /\ overrun \in BOOLEAN /\ labelled \subseteq Bits
  /\ finishes <= writes

\* The compare-exchange would store what merging the write into `adExisting` gives.
SwapReady ==
  adPc = "lblSwap" =>
    /\ adWanted.msk = adExisting.msk \cup adWrite.msk
    /\ adWanted.data \cap adWanted.msk = Merge(adExisting.data, adWrite) \cap adWanted.msk

\* Until VU1 meets a SIGNAL flag that is still set: there is at most one SIGNAL in
\* the mailbox, VU1 stores only into an empty one, and what the EE has loaded is
\* what it will clear.
SignalReady ==
  /\ gcPc \in {"sigLoad", "sigClear"} => "Signal" \in gsInterrupts
  /\ gsSIGNAL.queued => SIGNAL
  /\ ~doubled =>
       /\ adPc \in {"sigStore", "sigFlag"} => "Signal" \notin gsInterrupts
       /\ ("Signal" \in gsInterrupts \/ adPc = "sigFlag") =>
            signalled # << >> /\ gsSignal = signalled[Len(signalled)]
       /\ gcPc = "sigClear" => gcSignal = gsSignal

MailInv == GSITypeOK /\ HistoryOK /\ SwapReady /\ PostsKept /\ SignalReady /\ SignalsInOrder

\* Merging a merged value is merging twice: why LABEL writes may be coalesced.
LEMMA MergeTwice ==
  ASSUME NEW old, NEW a, NEW b, NEW c,
         c.msk = a.msk \cup b.msk,
         c.data \cap c.msk = Merge(a.data, b) \cap c.msk
  PROVE  Merge(old, c) = Merge(Merge(old, a), b)
<1>1. ASSUME NEW x PROVE x \in c.data \cap c.msk <=> x \in Merge(a.data, b) \cap c.msk
  OBVIOUS
<1>2. ASSUME NEW x PROVE x \in Merge(old, c) <=> x \in Merge(Merge(old, a), b)
  BY <1>1 DEF Merge
<1> QED
  BY <1>2

\* What Get_GSChanges does next.
LEMMA GCNextStep ==
  ASSUME NEW from, NEW flags, flags \subseteq {"Signal", "Finish", "Label"}, GCNext(from, flags)
  PROVE  /\ gcPc' \in {"idle", "sigLoad", "finish", "lblClear"}
         /\ gcInterrupts' \subseteq {"Signal", "Finish", "Label"}
         /\ gcPc' = "sigLoad" => from = "load" /\ "Signal" \in flags
BY DEF GCNext

\* Merging stays within the register.
LEMMA MergeType ==
  ASSUME NEW old \in SUBSET Bits, NEW v \in Value
  PROVE  Merge(old, v) \in SUBSET Bits
BY DEF Merge, Value

\* An empty register value.
LEMMA NoneType == None \in Value
BY DEF None, Value

\* A write of VU1 has a register value.
LEMMA WriteType ==
  ASSUME NEW w \in Writes
  PROVE  [data |-> w.data, msk |-> w.msk] \in Value
BY GSInterruptsAssumption DEF Value

\* The mailbox starts empty.
LEMMA MailInit == GSIInit => MailInv
<1> SUFFICES ASSUME GSIInit PROVE MailInv
  OBVIOUS
<1>0. /\ None \in Value /\ << >> \in Seq(Value) /\ 0 \in 0 .. MaxWrites /\ {} \subseteq Bits
      /\ {} \subseteq {"Signal", "Finish", "Label"}
  BY NoneType, GSInterruptsAssumption
<1>1. GSITypeOK
  <2>1. [queued |-> FALSE, val |-> None] \in [queued : BOOLEAN, val : Value]
    BY <1>0
  <2> QED
    BY <1>0, <2>1 DEF GSITypeOK, GSIInit
<1>2. HistoryOK
  <2>1. signalled \in Seq(Value) /\ collected \in Seq(Value) /\ raised \in Seq(Value)
    BY <1>0 DEF GSIInit
  <2>2. doubled \in BOOLEAN /\ overrun \in BOOLEAN /\ labelled \subseteq Bits
    BY Zenon DEF GSIInit
  <2>3. finishes <= writes
    BY DEF GSIInit
  <2> QED
    BY <2>1, <2>2, <2>3 DEF HistoryOK
<1>3. SwapReady /\ SignalReady
  BY DEF SwapReady, SignalReady, GSIInit
<1>4. PostsKept
  BY DEF PostsKept, Merge, None, GSIInit
<1>5. SignalsInOrder
  <2>1. collected = SubSeq(signalled, 1, Len(collected))
    BY DEF GSIInit
  <2>2. collected = raised \o << >>
    BY DEF GSIInit
  <2> QED
    BY <2>1, <2>2 DEF SignalsInOrder, Uncollected, GSIInit
<1> QED
  BY <1>1, <1>2, <1>3, <1>4, <1>5 DEF MailInv

\* The handler's steps leave everything the EE keeps alone; the EE's steps everything
\* of the handler.
LEMMA MailTypeStep ==
  ASSUME MailInv, MailStep
  PROVE  GSITypeOK'
<1> USE DEF mailbox, csr, handler, changes, vuHist, eeHist
<1>0. GSITypeOK /\ finishes <= writes
  BY DEF MailInv, HistoryOK
<1>1. CASE ADSignal
  <2>1. adWrite' \in Value
    BY <1>1, WriteType DEF ADSignal
  <2> QED
    BY <1>0, <1>1, <2>1, GSInterruptsAssumption DEF ADSignal, GSITypeOK
<1>2. CASE ADSignalStore
  BY <1>0, <1>2 DEF ADSignalStore, GSITypeOK
<1>3. CASE ADSignalFlag
  BY <1>0, <1>3, NoneType DEF ADSignalFlag, ADReturn, GSITypeOK
<1>4. CASE ADFinish
  BY <1>0, <1>4, GSInterruptsAssumption DEF ADFinish, GSITypeOK
<1>5. CASE ADLabel
  <2>1. adWrite' \in Value
    BY <1>5, WriteType DEF ADLabel
  <2> QED
    BY <1>0, <1>5, <2>1, NoneType, GSInterruptsAssumption DEF ADLabel, GSITypeOK
<1>6. CASE ADLabelSwap
  <2>1. [data |-> Merge(gsLabel.data, adWrite), msk |-> gsLabel.msk \cup adWrite.msk] \in Value
    <3>1. gsLabel \in Value /\ adWrite \in Value
      BY <1>0 DEF GSITypeOK
    <3> QED
      BY <3>1 DEF Value, Merge
  <2> QED
    BY <1>0, <1>6, <2>1 DEF ADLabelSwap, GSITypeOK
<1>7. CASE ADLabelFlag
  BY <1>0, <1>7, NoneType DEF ADLabelFlag, ADReturn, GSITypeOK
<1>8. CASE GCLoad
  BY <1>0, <1>8, GCNextStep DEF GCLoad, GSITypeOK
<1>9. CASE GCSignalLoad
  BY <1>0, <1>9 DEF GCSignalLoad, GSITypeOK
<1>10. CASE GCSignalClear
  <2>1. Merge(SIGID, gcSignal) \subseteq Bits
    BY <1>0, MergeType DEF GSITypeOK
  <2>2. [queued |-> TRUE, val |-> gcSignal] \in [queued : BOOLEAN, val : Value]
    BY <1>0 DEF GSITypeOK
  <2>3. SIGNAL' \in BOOLEAN /\ SIGID' \subseteq Bits /\ gsSIGNAL' \in [queued : BOOLEAN, val : Value]
    BY <1>0, <1>10, <2>1, <2>2 DEF GCSignalClear, GSITypeOK
  <2> QED
    BY <1>0, <1>10, <2>3, GCNextStep, NoneType DEF GCSignalClear, GSITypeOK
<1>11. CASE GCFinish
  <2>1. /\ gcPc' \in {"idle", "sigLoad", "finish", "lblClear"}
        /\ gcInterrupts' \subseteq {"Signal", "Finish", "Label"}
    BY <1>0, <1>11, GCNextStep DEF GCFinish, GSITypeOK
  <2>2. finishes' \in 0 .. MaxWrites
    BY <1>11, GSInterruptsAssumption DEF GCFinish
  <2> QED
    BY <1>0, <1>11, <2>1, <2>2 DEF GCFinish, GSITypeOK
<1>12. CASE GCLabelClear
  BY <1>0, <1>12 DEF GCLabelClear, GSITypeOK
<1>13. CASE GCLabelTake
  <2>1. Merge(LBLID, gsLabel) \subseteq Bits
    BY <1>0, MergeType DEF GSITypeOK
  <2> QED
    BY <1>0, <1>13, <2>1, NoneType DEF GCLabelTake, GSITypeOK
<1>14. CASE CSRSignal
  <2>1. gsSIGNAL.val \in Value /\ gsSIGNAL.queued \in BOOLEAN
    BY <1>0 DEF GSITypeOK
  <2>2. Merge(SIGID, gsSIGNAL.val) \subseteq Bits
    BY <1>0, <2>1, MergeType DEF GSITypeOK
  <2>3. SIGNAL' \in BOOLEAN /\ SIGID' \subseteq Bits
    BY <1>0, <1>14, <2>1, <2>2 DEF CSRSignal, GSITypeOK
  <2> QED
    BY <1>0, <1>14, <2>3 DEF CSRSignal, GSITypeOK
<1>15. CASE CSRFinish
  BY <1>0, <1>15 DEF CSRFinish, GSITypeOK
<1>16. CASE CSRReset
  BY <1>0, <1>16 DEF CSRReset, GSITypeOK
<1>17. CASE GIFReset
  <2>1. [queued |-> FALSE, val |-> None] \in [queued : BOOLEAN, val : Value]
    BY NoneType
  <2> QED
    BY <1>0, <1>17, <2>1 DEF GIFReset, GSITypeOK
<1>18. CASE UNCHANGED gsiVars
  BY <1>0, <1>18 DEF gsiVars, GSITypeOK
<1> QED
  BY <1>1, <1>2, <1>3, <1>4, <1>5, <1>6, <1>7, <1>8, <1>9, <1>10, <1>11, <1>12, <1>13, <1>14,
     <1>15, <1>16, <1>17, <1>18, MailStep DEF MailStep

\* Appending to a history keeps it a sequence of values.
LEMMA AppendType ==
  ASSUME NEW s \in Seq(Value), NEW v \in Value
  PROVE  /\ Append(s, v) \in Seq(Value) /\ Len(Append(s, v)) = Len(s) + 1
         /\ Append(s, v)[Len(s) + 1] = v /\ Append(s, v) # << >>
OBVIOUS

\* The history variables keep their types.
LEMMA HistoryStep ==
  ASSUME MailInv, MailStep
  PROVE  HistoryOK'
<1> USE DEF mailbox, csr, handler, changes, vuHist, eeHist
<1>0. /\ HistoryOK /\ writes \in Nat /\ finishes \in Nat
      /\ adWrite \in Value /\ gcSignal \in Value /\ gsSIGNAL.val \in Value
      /\ gsSIGNAL.queued \in BOOLEAN
  <2>1. GSITypeOK
    BY DEF MailInv
  <2>2. HistoryOK
    BY DEF MailInv
  <2> QED
    BY <2>1, <2>2, GSInterruptsAssumption DEF GSITypeOK
<1>1. CASE ADSignal
  <2>1. doubled' \in BOOLEAN
    BY <1>1 DEF ADSignal
  <2> QED
    BY <1>0, <1>1, <2>1 DEF ADSignal, HistoryOK
<1>2. CASE ADSignalStore
  BY <1>0, <1>2, AppendType DEF ADSignalStore, HistoryOK
<1>3. CASE ADFinish
  BY <1>0, <1>3 DEF ADFinish, HistoryOK
<1>4. CASE ADLabel
  BY <1>0, <1>4 DEF ADLabel, HistoryOK
<1>5. CASE ADLabelSwap
  <2>1. Merge(labelled, adWrite) \in SUBSET Bits
    BY <1>0, MergeType DEF HistoryOK
  <2>2. labelled' \subseteq Bits
    BY <1>0, <1>5, <2>1 DEF ADLabelSwap, HistoryOK
  <2> QED
    BY <1>0, <1>5, <2>2 DEF ADLabelSwap, HistoryOK
<1>6. CASE GCSignalClear
  <2>1. overrun' \in BOOLEAN
    BY <1>0, <1>6 DEF GCSignalClear, HistoryOK
  <2>2. collected' \in Seq(Value) /\ raised' \in Seq(Value)
    BY <1>0, <1>6, AppendType DEF GCSignalClear, HistoryOK
  <2> QED
    BY <1>0, <1>6, <2>1, <2>2 DEF GCSignalClear, HistoryOK
<1>7. CASE GCFinish
  BY <1>0, <1>7 DEF GCFinish, HistoryOK
<1>8. CASE CSRSignal
  <2>1. raised' \in Seq(Value)
    BY <1>0, <1>8, AppendType DEF CSRSignal, HistoryOK
  <2> QED
    BY <1>0, <1>8, <2>1 DEF CSRSignal, HistoryOK
<1>9. CASE CSRReset \/ GIFReset
  <2>1. overrun' \in BOOLEAN
    BY <1>0, <1>9 DEF CSRReset, GIFReset, HistoryOK
  <2> QED
    BY <1>0, <1>9, <2>1 DEF CSRReset, GIFReset, HistoryOK
<1>10. ASSUME UNCHANGED <<vuHist, eeHist, finishes>> PROVE HistoryOK'
  BY <1>0, <1>10 DEF HistoryOK
<1>11. ADSignalFlag \/ ADLabelFlag \/ GCLoad \/ GCSignalLoad \/ GCLabelClear \/ GCLabelTake
         \/ CSRFinish \/ UNCHANGED gsiVars
         => UNCHANGED <<vuHist, eeHist, finishes>>
  BY DEF ADSignalFlag, ADLabelFlag, GCLoad, GCSignalLoad, GCLabelClear, GCLabelTake, CSRFinish,
         gsiVars
<1> QED
  BY <1>1, <1>2, <1>3, <1>4, <1>5, <1>6, <1>7, <1>8, <1>9, <1>10, <1>11, MailStep DEF MailStep

\* Only the handler's own steps change its locals, and they leave `lblSwap` with the
\* write merged into the value last found.
LEMMA SwapStep ==
  ASSUME MailInv, MailStep
  PROVE  SwapReady'
<1> USE DEF mailbox, csr, handler, changes, vuHist, eeHist
<1>0. SwapReady
  BY DEF MailInv
<1>1. CASE ADLabel
  <2>1. adExisting' = None /\ adWanted' = adWrite'
    BY <1>1 DEF ADLabel
  <2> QED
    BY <2>1 DEF SwapReady, Merge, None
<1>2. CASE ADLabelSwap
  <2>1. CASE adPc' = "lblSwap"
    <3>1. /\ adExisting' = gsLabel /\ adWrite' = adWrite
          /\ adWanted' = [data |-> Merge(gsLabel.data, adWrite),
                          msk |-> gsLabel.msk \cup adWrite.msk]
      BY <1>2, <2>1 DEF ADLabelSwap
    <3> QED
      BY <3>1 DEF SwapReady, Merge
  <2>2. CASE adPc' # "lblSwap"
    BY <2>2 DEF SwapReady
  <2> QED
    BY <2>1, <2>2
<1>3. ADSignal \/ ADSignalStore \/ ADSignalFlag \/ ADLabelFlag => adPc' # "lblSwap"
  BY DEF ADSignal, ADSignalStore, ADSignalFlag, ADLabelFlag, ADReturn
<1>4. ASSUME adPc' # "lblSwap" PROVE SwapReady'
  BY <1>4 DEF SwapReady
<1>5. ADFinish \/ GCLoad \/ GCSignalLoad \/ GCSignalClear \/ GCFinish \/ GCLabelClear
        \/ GCLabelTake \/ CSRSignal \/ CSRFinish \/ CSRReset \/ GIFReset \/ UNCHANGED gsiVars
        => UNCHANGED handler
  BY DEF ADFinish, GCLoad, GCSignalLoad, GCSignalClear, GCFinish, GCLabelClear, GCLabelTake,
         CSRSignal, CSRFinish, CSRReset, GIFReset, gsiVars
<1>6. ASSUME UNCHANGED handler PROVE SwapReady'
  BY <1>0, <1>6 DEF SwapReady, Merge
<1> QED
  BY <1>1, <1>2, <1>3, <1>4, <1>5, <1>6, MailStep DEF MailStep

\* LABEL and FINISH.
LEMMA PostsStep ==
  ASSUME MailInv, MailStep
  PROVE  PostsKept'
<1> USE DEF mailbox, csr, handler, changes, vuHist, eeHist
<1>0. PostsKept /\ GSITypeOK /\ SwapReady
  BY DEF MailInv
<1>1. CASE ADFinish
  BY <1>0, <1>1 DEF ADFinish, PostsKept, GSITypeOK, Merge
<1>2. CASE ADLabelSwap
  <2>1. CASE gsLabel = adExisting /\ gsLabel' = adWanted /\ adPc' = "lblFlag"
             /\ labelled' = Merge(labelled, adWrite)
    <3>1. /\ adWanted.msk = gsLabel.msk \cup adWrite.msk
          /\ adWanted.data \cap adWanted.msk = Merge(gsLabel.data, adWrite) \cap adWanted.msk
      BY <1>0, <1>2, <2>1 DEF SwapReady, ADLabelSwap
    <3>2. Merge(LBLID, adWanted) = Merge(Merge(LBLID, gsLabel), adWrite)
      BY <3>1, MergeTwice
    <3>3. LBLID' = LBLID /\ UNCHANGED <<gsInterrupts, finishes>>
      BY <1>2 DEF ADLabelSwap
    <3>4. Merge(LBLID', gsLabel') = labelled'
      BY <1>0, <2>1, <3>2, <3>3 DEF PostsKept
    <3>5. finishes' > 0 => "Finish" \in gsInterrupts'
      BY <1>0, <3>3 DEF PostsKept
    <3> QED
      BY <2>1, <3>4, <3>5 DEF PostsKept, Merge
  <2>2. CASE UNCHANGED <<gsLabel, adPc, labelled>>
    <3>1. UNCHANGED <<LBLID, gsInterrupts, finishes, gcPc>>
      BY <1>2 DEF ADLabelSwap
    <3> QED
      BY <1>0, <2>2, <3>1 DEF PostsKept, Merge
  <2> QED
    BY <1>2, <2>1, <2>2 DEF ADLabelSwap
<1>3. CASE ADSignal \/ ADSignalStore \/ ADSignalFlag
  <2>1. /\ UNCHANGED <<gsLabel, LBLID, labelled, finishes, gcPc>>
        /\ gsInterrupts \subseteq gsInterrupts' /\ adPc # "lblFlag"
    BY <1>3 DEF ADSignal, ADSignalStore, ADSignalFlag
  <2> QED
    BY <1>0, <2>1 DEF PostsKept, Merge
<1>4. CASE ADLabel
  <2>1. UNCHANGED <<gsLabel, LBLID, labelled, finishes, gcPc, gsInterrupts>> /\ adPc # "lblFlag"
    BY <1>4 DEF ADLabel
  <2> QED
    BY <1>0, <2>1 DEF PostsKept, Merge
<1>5. CASE ADLabelFlag
  <2>1. /\ UNCHANGED <<gsLabel, LBLID, labelled, finishes>>
        /\ gsInterrupts \subseteq gsInterrupts' /\ "Label" \in gsInterrupts'
    BY <1>5 DEF ADLabelFlag
  <2> QED
    BY <1>0, <2>1 DEF PostsKept, Merge
<1>6. CASE GCLoad \/ GCSignalLoad \/ GCSignalClear
  <2>1. /\ UNCHANGED <<gsLabel, LBLID, labelled, finishes, adPc>>
        /\ gcPc # "lblTake"
        /\ "Label" \in gsInterrupts => "Label" \in gsInterrupts'
        /\ "Finish" \in gsInterrupts => "Finish" \in gsInterrupts'
    BY <1>6 DEF GCLoad, GCSignalLoad, GCSignalClear
  <2> QED
    BY <1>0, <2>1 DEF PostsKept, Merge
<1>7. CASE GCFinish
  <2>1. /\ UNCHANGED <<gsLabel, LBLID, labelled, adPc>>
        /\ gcPc # "lblTake" /\ finishes' = 0
        /\ "Label" \in gsInterrupts => "Label" \in gsInterrupts'
    BY <1>7 DEF GCFinish
  <2> QED
    BY <1>0, <2>1 DEF PostsKept, Merge
<1>8. CASE GCLabelClear
  <2>1. /\ UNCHANGED <<gsLabel, LBLID, labelled, finishes>>
        /\ gcPc' = "lblTake"
        /\ "Finish" \in gsInterrupts => "Finish" \in gsInterrupts'
    BY <1>8 DEF GCLabelClear
  <2> QED
    BY <1>0, <2>1 DEF PostsKept, Merge
<1>9. CASE GCLabelTake
  <2>1. /\ UNCHANGED <<labelled, finishes, gsInterrupts>>
        /\ gsLabel' = None /\ LBLID' = Merge(LBLID, gsLabel)
    BY <1>9 DEF GCLabelTake
  <2>2. Merge(LBLID', gsLabel') = LBLID'
    BY <2>1 DEF Merge, None
  <2>3. gsLabel'.msk = {}
    BY <2>1 DEF None
  <2> QED
    BY <1>0, <2>1, <2>2, <2>3 DEF PostsKept
<1>10. CASE CSRSignal \/ CSRFinish \/ CSRReset \/ GIFReset \/ UNCHANGED gsiVars
  <2>1. UNCHANGED <<gsLabel, LBLID, labelled, finishes, gsInterrupts, adPc, gcPc>>
    BY <1>10 DEF CSRSignal, CSRFinish, CSRReset, GIFReset, gsiVars
  <2> QED
    BY <1>0, <2>1 DEF PostsKept, Merge
<1> QED
  BY <1>1, <1>2, <1>3, <1>4, <1>5, <1>6, <1>7, <1>8, <1>9, <1>10, MailStep DEF MailStep

\* SIGNAL: who may touch the value and the flag.
LEMMA SignalReadyStep ==
  ASSUME MailInv, MailStep
  PROVE  SignalReady'
<1> USE DEF mailbox, csr, handler, changes, vuHist, eeHist
<1>0. SignalReady /\ GSITypeOK /\ signalled \in Seq(Value) /\ doubled \in BOOLEAN
  BY DEF MailInv, HistoryOK
<1>1. CASE ADSignal
  BY <1>0, <1>1 DEF ADSignal, SignalReady
<1>2. CASE ADSignalStore
  <2>1. /\ signalled' # << >> /\ gsSignal' = signalled'[Len(signalled')]
    BY <1>0, <1>2, AppendType DEF ADSignalStore, GSITypeOK
  <2> QED
    BY <1>0, <1>2, <2>1 DEF ADSignalStore, SignalReady
<1>3. CASE ADSignalFlag
  BY <1>0, <1>3 DEF ADSignalFlag, ADReturn, SignalReady
<1>4. CASE ADFinish
  BY <1>0, <1>4 DEF ADFinish, SignalReady
<1>5. CASE ADLabel
  BY <1>0, <1>5 DEF ADLabel, SignalReady
<1>6. CASE ADLabelSwap
  BY <1>0, <1>6 DEF ADLabelSwap, SignalReady
<1>7. CASE ADLabelFlag
  BY <1>0, <1>7 DEF ADLabelFlag, ADReturn, SignalReady
<1>8. CASE GCLoad
  <2>1. gcPc' \notin {"sigClear"} /\ (gcPc' = "sigLoad" => "Signal" \in gsInterrupts)
    BY <1>0, <1>8, GCNextStep DEF GCLoad, GSITypeOK
  <2> QED
    BY <1>0, <1>8, <2>1 DEF GCLoad, SignalReady
<1>9. CASE GCSignalLoad
  BY <1>0, <1>9 DEF GCSignalLoad, SignalReady
<1>10. CASE GCSignalClear
  <2>0. GCNext("signal", gcInterrupts) /\ gcInterrupts \subseteq {"Signal", "Finish", "Label"}
    BY <1>0, <1>10 DEF GCSignalClear, GSITypeOK
  <2>1. gcPc' \notin {"sigLoad", "sigClear"}
    BY <2>0 DEF GCNext
  <2>2. SIGNAL'
    BY <1>0, <1>10, Zenon DEF GCSignalClear
  <2>3. "Signal" \notin gsInterrupts' /\ UNCHANGED <<adPc, doubled, signalled, gsSignal>>
    BY <1>10 DEF GCSignalClear
  <2>4. ~doubled => adPc # "sigFlag"
    BY <1>0, <1>10 DEF GCSignalClear, SignalReady
  <2> QED
    BY <2>1, <2>2, <2>3, <2>4 DEF SignalReady
<1>11. CASE GCFinish
  <2>0. GCNext("finish", gcInterrupts) /\ gcInterrupts \subseteq {"Signal", "Finish", "Label"}
    BY <1>0, <1>11 DEF GCFinish, GSITypeOK
  <2>1. gcPc' \notin {"sigLoad", "sigClear"}
    BY <2>0 DEF GCNext
  <2> QED
    BY <1>0, <1>11, <2>1 DEF GCFinish, SignalReady
<1>12. CASE GCLabelClear
  BY <1>0, <1>12 DEF GCLabelClear, SignalReady
<1>13. CASE GCLabelTake
  BY <1>0, <1>13 DEF GCLabelTake, SignalReady
<1>14. CASE CSRSignal \/ CSRReset \/ GIFReset
  <2>1. gsSIGNAL'.queued = FALSE
    BY <1>0, <1>14 DEF CSRSignal, CSRReset, GIFReset, GSITypeOK
  <2>2. UNCHANGED <<mailbox, handler, changes, vuHist>>
    BY <1>14 DEF CSRSignal, CSRReset, GIFReset
  <2> QED
    BY <1>0, <2>1, <2>2 DEF SignalReady
<1>15. CASE CSRFinish \/ UNCHANGED gsiVars
  BY <1>0, <1>15 DEF CSRFinish, gsiVars, SignalReady
<1> QED
  BY <1>1, <1>2, <1>3, <1>4, <1>5, <1>6, <1>7, <1>8, <1>9, <1>10, <1>11, <1>12, <1>13, <1>14,
     <1>15, MailStep DEF MailStep

\* A history of which all but the last value was collected, and that value.
LEMMA LastCollected ==
  ASSUME NEW s \in Seq(Value), NEW c \in Seq(Value), c = SubSeq(s, 1, Len(c)),
         Len(s) = Len(c) + 1
  PROVE  Append(c, s[Len(s)]) = SubSeq(s, 1, Len(c) + 1)
OBVIOUS

\* A history all of which was collected, and one more value.
LEMMA AllCollected ==
  ASSUME NEW s \in Seq(Value), NEW c \in Seq(Value), NEW v \in Value, c = SubSeq(s, 1, Len(c)),
         Len(s) = Len(c)
  PROVE  c = SubSeq(Append(s, v), 1, Len(c))
OBVIOUS

\* SIGNAL: the histories.
LEMMA SignalsStep ==
  ASSUME MailInv, MailStep
  PROVE  SignalsInOrder'
<1> USE DEF mailbox, csr, handler, changes, vuHist, eeHist
<1> DEFINE Stalled == IF gsSIGNAL.queued THEN <<gsSIGNAL.val>> ELSE << >>
<1>0. /\ SignalsInOrder /\ SignalReady
      /\ signalled \in Seq(Value) /\ collected \in Seq(Value) /\ raised \in Seq(Value)
      /\ adWrite \in Value /\ gcSignal \in Value /\ gsSIGNAL \in [queued : BOOLEAN, val : Value]
  BY DEF MailInv, HistoryOK, GSITypeOK
<1> SUFFICES ASSUME ~doubled'
             PROVE  /\ (collected = SubSeq(signalled, 1, Len(collected)))'
                    /\ Uncollected'
                    /\ ~overrun' => collected' = raised' \o Stalled'
  BY DEF SignalsInOrder
<1>1. ~doubled
  BY MailStep, <1>0 DEF MailStep, ADSignal, ADSignalStore, ADSignalFlag, ADFinish, ADLabel,
     ADLabelSwap, ADLabelFlag, GCLoad, GCSignalLoad, GCSignalClear, GCFinish, GCLabelClear,
     GCLabelTake, CSRSignal, CSRFinish, CSRReset, GIFReset, gsiVars
<1>2. /\ collected = SubSeq(signalled, 1, Len(collected))
      /\ Uncollected
      /\ ~overrun => collected = raised \o Stalled
  BY <1>0, <1>1 DEF SignalsInOrder
<1>10. Len(signalled) \in Nat /\ Len(collected) \in Nat
  BY <1>0
<1>3. CASE ADSignalStore
  <2>1. "Signal" \notin gsInterrupts /\ adPc # "sigFlag"
    BY <1>0, <1>1, <1>3 DEF ADSignalStore, SignalReady
  <2>8. Uncollected
    BY <1>2
  <2>2. Len(signalled) = Len(collected)
    BY <1>10, <2>1, <2>8 DEF Uncollected
  <2>3. collected = SubSeq(Append(signalled, adWrite), 1, Len(collected))
    BY <1>0, <1>2, <2>2, AllCollected
  <2>4. Len(signalled') = Len(signalled) + 1
    BY <1>0, <1>3, AppendType DEF ADSignalStore
  <2>5. UNCHANGED <<collected, raised, overrun, gsSIGNAL>> /\ adPc' = "sigFlag"
        /\ signalled' = Append(signalled, adWrite)
    BY <1>3 DEF ADSignalStore
  <2>6. Uncollected'
    BY <1>10, <2>2, <2>4, <2>5 DEF Uncollected
  <2> QED
    BY <1>2, <2>3, <2>5, <2>6
<1>4. CASE GCSignalClear
  <2>1. /\ "Signal" \in gsInterrupts /\ adPc # "sigFlag"
        /\ signalled # << >> /\ gcSignal = signalled[Len(signalled)]
    BY <1>0, <1>1, <1>4 DEF GCSignalClear, SignalReady
  <2>8. Uncollected
    BY <1>2
  <2>2. Len(signalled) = Len(collected) + 1
    BY <1>10, <2>1, <2>8 DEF Uncollected
  <2>3. Append(collected, gcSignal) = SubSeq(signalled, 1, Len(collected) + 1)
    BY <1>0, <1>2, <2>1, <2>2, LastCollected
  <2>4. /\ collected' = Append(collected, gcSignal) /\ signalled' = signalled
        /\ Len(collected') = Len(collected) + 1
    BY <1>0, <1>4, AppendType DEF GCSignalClear
  <2>5. "Signal" \notin gsInterrupts' /\ adPc' # "sigFlag"
    BY <1>4, <2>1 DEF GCSignalClear
  <2>6. Uncollected'
    BY <1>0, <2>2, <2>4, <2>5 DEF Uncollected
  <2>7. ASSUME ~overrun' PROVE collected' = raised' \o Stalled'
    <3>1. ~overrun
      BY <1>4, <2>7 DEF GCSignalClear
    <3>2. ~gsSIGNAL.queued
      BY <1>0, <1>4, <2>7 DEF GCSignalClear, SignalReady
    <3>3. collected = raised
      BY <1>0, <1>2, <3>1, <3>2
    <3>4. CASE SIGNAL
      <4>1. raised' = raised /\ gsSIGNAL' = [queued |-> TRUE, val |-> gcSignal]
        BY <1>4, <3>4 DEF GCSignalClear
      <4>2. Stalled' = <<gcSignal>>
        BY <4>1
      <4> QED
        BY <1>0, <2>4, <3>3, <4>1, <4>2, SMTT(60)
    <3>5. CASE ~SIGNAL
      <4>1. raised' = Append(raised, gcSignal) /\ gsSIGNAL' = gsSIGNAL
        BY <1>4, <3>5 DEF GCSignalClear
      <4>2. Stalled' = << >>
        BY <3>2, <4>1
      <4> QED
        BY <1>0, <2>4, <3>3, <4>1, <4>2, AppendType
    <3> QED
      BY <3>4, <3>5
  <2> QED
    BY <2>3, <2>4, <2>6, <2>7
<1>5. CASE CSRSignal
  <2>1. /\ UNCHANGED <<collected, signalled, gsInterrupts, adPc, overrun>>
        /\ Stalled' = << >>
    BY <1>0, <1>5 DEF CSRSignal
  <2>2. raised' = raised \o Stalled
    <3>1. CASE gsSIGNAL.queued
      <4>1. raised' = Append(raised, gsSIGNAL.val) /\ Stalled = <<gsSIGNAL.val>>
        BY <1>5, <3>1 DEF CSRSignal
      <4> QED
        BY <1>0, <4>1
    <3>2. CASE ~gsSIGNAL.queued
      <4>1. raised' = raised /\ Stalled = << >>
        BY <1>5, <3>2 DEF CSRSignal
      <4> QED
        BY <1>0, <4>1
    <3> QED
      BY <3>1, <3>2
  <2>3. raised' \o << >> = raised'
    <3>1. raised \o Stalled \in Seq(Value)
      <4>1. Stalled \in Seq(Value)
        BY <1>0
      <4> QED
        BY <1>0, <4>1
    <3> QED
      BY <2>2, <3>1
  <2> QED
    BY <1>2, <2>1, <2>2, <2>3 DEF Uncollected
<1>6. CASE CSRReset \/ GIFReset
  <2>1. /\ UNCHANGED <<collected, signalled, gsInterrupts, adPc, raised>>
        /\ Stalled' = << >> /\ overrun' = (overrun \/ gsSIGNAL.queued)
    BY <1>0, <1>6 DEF CSRReset, GIFReset
  <2>2. ~overrun' => Stalled = << >> /\ ~overrun
    BY <2>1
  <2> QED
    BY <1>2, <2>1, <2>2 DEF Uncollected
<1>7. CASE ADSignalFlag
  <2>1. /\ UNCHANGED <<collected, signalled, raised, overrun, gsSIGNAL>>
        /\ adPc = "sigFlag" /\ "Signal" \in gsInterrupts'
    BY <1>7 DEF ADSignalFlag
  <2> QED
    BY <1>2, <2>1 DEF Uncollected
<1>8. ASSUME /\ UNCHANGED <<collected, signalled, raised, overrun, gsSIGNAL>>
             /\ "Signal" \in gsInterrupts' <=> "Signal" \in gsInterrupts
             /\ adPc' = "sigFlag" <=> adPc = "sigFlag"
      PROVE  /\ (collected = SubSeq(signalled, 1, Len(collected)))'
             /\ Uncollected'
             /\ ~overrun' => collected' = raised' \o Stalled'
  BY <1>2, <1>8 DEF Uncollected
<1>9. ADSignal \/ ADFinish \/ ADLabel \/ ADLabelSwap \/ ADLabelFlag \/ GCLoad \/ GCSignalLoad
        \/ GCFinish \/ GCLabelClear \/ GCLabelTake \/ CSRFinish \/ UNCHANGED gsiVars
        => /\ UNCHANGED <<collected, signalled, raised, overrun, gsSIGNAL>>
           /\ "Signal" \in gsInterrupts' <=> "Signal" \in gsInterrupts
           /\ adPc' = "sigFlag" <=> adPc = "sigFlag"
  BY DEF ADSignal, ADFinish, ADLabel, ADLabelSwap, ADLabelFlag, ADReturn, GCLoad, GCSignalLoad,
         GCFinish, GCLabelClear, GCLabelTake, CSRFinish, gsiVars
<1> QED
  BY <1>3, <1>4, <1>5, <1>6, <1>7, <1>8, <1>9, MailStep DEF MailStep

\* Every step of either side keeps the mailbox's invariant.
LEMMA MailboxStep ==
  ASSUME MailInv, MailStep
  PROVE  MailInv'
BY MailTypeStep, HistoryStep, SwapStep, PostsStep, SignalReadyStep, SignalsStep DEF MailInv
=============================================================================
