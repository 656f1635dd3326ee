--------------------------- MODULE IoBufsProofs ----------------------------
(***************************************************************************)
(* IoBufs is type correct, its stable LSN is durable, sealed buffers are   *)
(* final, no byte is aliased, buffers are handed over exactly once, the    *)
(* assertions of the stability intervals hold, batches become stable in    *)
(* one piece, and IoBufs implements DurableLog, for any number of threads  *)
(* and any sizes.                                                          *)
(***************************************************************************)
EXTENDS IoBufsSteps, IoBufsLogSteps, IoBufsBufferSteps
USE ZenonT(30)

(* The first invariant.                                                    *)

\* Folding a written buffer into the intervals preserves the invariant: the prefix
\* grows only over LSNs that are on disk.
LEMMA MarkIntervalStep ==
  ASSUME IInv, NEW x \in tasks, mark_interval(x)
  PROVE  IInv' /\ Frozen
<1> DEFINE S == intervals.synced \cup Extent(bufs[x.buf])
           s == Contiguous(intervals.stable, S)
<1>1. Frozen /\ Cur' = Cur /\ BufsOK'
  BY SameBufs DEF mark_interval, IInv
<1>2. Wakes(pc') /\ UNCHANGED <<op, seen, res, peg, goal>>
  BY DEF mark_interval, Wakes
<1>3. LocalsOK'
  BY <1>1, <1>2, NotifyLocals DEF IInv
<1>4. /\ UNCHANGED <<bufs, disk, max_reserved, error, page>>
      /\ x \in TaskType /\ x.buf \in 1..Cur /\ x.buf \in disk
  BY DEF mark_interval, IInv, SharedOK, DiskOK
<1>5. tasks' \subseteq TaskType /\ DiskOK'
  <2>1. /\ tasks' \subseteq TaskType
        /\ \A y \in tasks' : y \in tasks \/ (y.buf = x.buf /\ y.stage = "failing")
    BY <1>4 DEF mark_interval, IInv, SharedOK, TaskType
  <2> QED
    BY <1>1, <1>4, <2>1 DEF IInv, SharedOK, DiskOK
<1>6. intervals \in IntervalsType /\ intervals.stable \in Lsn /\ stable_lsn \in Lsn
  BY DEF IInv, SharedOK, IntervalsType
<1>7. bufs[x.buf] \in BufType
  BY <1>4, CurType DEF IInv
<1>8. S \in SUBSET Nat /\ IsFiniteSet(S)
  <2>1. intervals.synced \in SUBSET Nat /\ IsFiniteSet(intervals.synced)
    BY IntervalTypes
  <2>2. Extent(bufs[x.buf]) \subseteq Nat /\ IsFiniteSet(Extent(bufs[x.buf]))
    BY <1>7, ExtentType
  <2> QED
    BY <2>1, <2>2, FS_Union
<1>9. \A lsn \in S : OnDisk(lsn)
  BY <1>4 DEF IInv, SharedOK, IntervalsOK, OnDisk
<1>10. /\ intervals' = [stable |-> s, synced |-> {l \in S : l > s},
                        batches |-> {b \in intervals.batches : b.high > s}]
       /\ stable_lsn' = Published(s, intervals.batches, stable_lsn)
  BY DEF mark_interval, mark_fsync, MarkFsync
<1> HIDE DEF S
<1>11. /\ s \in {intervals.stable} \cup S /\ s >= intervals.stable
       /\ (intervals.stable + 1)..s \subseteq S
  <2>1. intervals.stable \in Int /\ S \in SUBSET Int
    BY SMTT(30), <1>6, <1>8 DEF Lsn
  <2> QED
    BY <1>8, <2>1, ContiguousIs
<1> HIDE DEF s
<1>12. s \in Lsn
  BY <1>6, <1>8, <1>11 DEF Lsn
<1>13. intervals' \in IntervalsType /\ IsFiniteSet(intervals'.synced)
  <2>1. IsFiniteSet({l \in S : l > s})
    BY <1>8, FS_Subset
  <2> QED
    BY <1>6, <1>8, <1>10, <1>12, <2>1 DEF IntervalsType
<1>14. stable_lsn' \in Lsn /\ stable_lsn' <= s
  <2>1. s \in Int /\ stable_lsn \in Int /\ stable_lsn <= s
    BY SMTT(30), <1>6, <1>11, <1>12 DEF IInv, SharedOK, IntervalsOK, Lsn
  <2>2. intervals.batches \in SUBSET [low : Nat, high : Lsn]
    BY <1>6 DEF IntervalsType
  <2>3. intervals.batches \in SUBSET [low : Int, high : Int]
    BY SMTT(30), <2>2 DEF Lsn
  <2>4. /\ stable_lsn' <= s
        /\ stable_lsn' \in {s, stable_lsn} \cup {b.low - 1 : b \in intervals.batches}
                             \cup {b.high : b \in intervals.batches}
    BY <1>10, <2>1, <2>3, PublishedIs
  <2>5. \A b \in intervals.batches : b.low - 1 \in Lsn /\ b.high \in Lsn
    BY SMTT(30), <2>2 DEF Lsn
  <2> QED
    BY <1>6, <1>12, <2>4, <2>5
<1>15. IntervalsOK'
  <2>1. ASSUME NEW lsn, OnDisk(lsn) PROVE OnDisk(lsn)'
    BY <1>4, <2>1 DEF OnDisk
  <2>2. ASSUME NEW lsn \in StartLsn..s PROVE OnDisk(lsn)
    <3>1. lsn \in StartLsn..intervals.stable \/ lsn \in (intervals.stable + 1)..s
      BY SMTT(30), <1>6, <1>12 DEF Lsn
    <3> QED
      BY <1>9, <1>11, <3>1 DEF IInv, SharedOK, IntervalsOK
  <2>3. StartLsn' = StartLsn
    BY <1>1, StartStays DEF IInv
  <2> QED
    <3>1. intervals'.stable = s /\ intervals'.synced \subseteq S
      BY <1>10
    <3>2. \A lsn \in intervals'.synced : OnDisk(lsn)'
      BY <1>9, <2>1, <3>1
    <3>3. \A lsn \in StartLsn'..intervals'.stable : OnDisk(lsn)'
      BY <2>1, <2>2, <2>3, <3>1
    <3> QED
      BY <1>13, <1>14, <3>1, <3>2, <3>3 DEF IntervalsOK
<1> QED
  BY <1>1, <1>3, <1>4, <1>5, <1>13, <1>14, <1>15 DEF IInv, SharedOK

\* The initial states satisfy the invariant.
LEMMA InitInv == Init => IInv
<1> SUFFICES ASSUME Init PROVE IInv
  OBVIOUS
<1>1. PICK lsn \in StartLsns :
        /\ bufs = <<IF lsn % SegmentSize = 0
                    THEN store_segment_header(lsn)
                    ELSE BareBuf(lsn, NextSegment(lsn) - lsn)>>
        /\ intervals = [stable |-> lsn - 1, synced |-> {}, batches |-> {}]
        /\ stable_lsn = lsn - 1 /\ max_reserved = lsn - 1
  BY DEF Init
<1>2. lsn \in Nat /\ lsn - 1 \in Lsn
  BY SMTT(30), StartAssumption DEF Lsn
<1>3. PICK b \in BufType : bufs = <<b>> /\ b.lsn = lsn /\ b.offset <= b.capacity
  <2>1. store_segment_header(lsn) \in BufType
    BY <1>2, SizeAssumption DEF store_segment_header, BufType
  <2>2. NextSegment(lsn) - lsn \in Nat
    BY SMTT(30), <1>2, NextSegmentType
  <2>3. BareBuf(lsn, NextSegment(lsn) - lsn) \in BufType
    BY <1>2, <2>2 DEF BareBuf, BufType
  <2> QED
    BY SMTT(30), <1>1, <1>2, <2>1, <2>2, <2>3, SizeAssumption DEF store_segment_header, BareBuf
<1>4. /\ bufs \in Seq(BufType) /\ bufs # <<>> /\ Cur = 1 /\ bufs[1] = b
  BY SMTT(30), <1>3 DEF Cur
<1>5. BufsOK
  BY SMTT(30), <1>3, <1>4 DEF BufsOK
<1>6. DiskOK
  BY DEF Init, DiskOK
<1>7. intervals \in IntervalsType
  BY <1>1, <1>2 DEF IntervalsType
<1>8. IntervalsOK
  <2>1. StartLsn..intervals.stable = {}
    BY SMTT(30), <1>1, <1>2, <1>3, <1>4 DEF StartLsn
  <2> QED
    <3>1. intervals.synced = {} /\ intervals.stable = stable_lsn /\ stable_lsn \in Int
      BY SMTT(30), <1>1, <1>2 DEF Lsn
    <3>2. stable_lsn <= intervals.stable
      BY SMTT(30), <3>1
    <3>3. IsFiniteSet(intervals.synced)
      BY <3>1, FS_EmptySet
    <3> QED
      BY <2>1, <3>1, <3>2, <3>3 DEF IntervalsOK
<1>9. SharedOK
  BY <1>1, <1>2, <1>4, <1>5, <1>6, <1>7, <1>8 DEF Init, SharedOK
<1>10. LocalsOK
  BY DEF Init, LocalsOK, ThreadOK, HandoverOK, Place, Labels,
         Reserving, Batching, Stabilizing
<1> QED
  BY <1>9, <1>10 DEF IInv

\* Every step preserves the invariant and leaves sealed buffers as they are.
LEMMA NextInv == IInv /\ [Next]_vars => IInv' /\ Frozen
<1> SUFFICES ASSUME IInv, [Next]_vars PROVE IInv' /\ Frozen
  OBVIOUS
<1>1. CASE UNCHANGED vars
  <2>1. SharedOK' /\ Frozen /\ Cur' = Cur
    BY <1>1, SharedUnchanged DEF vars, IInv
  <2>2. Wakes(pc') /\ UNCHANGED <<op, seen, res, peg, goal>>
    BY <1>1 DEF vars, locals, Wakes
  <2> QED
    BY <2>1, <2>2, NotifyLocals DEF IInv
<1>2. CASE \E t \in Threads : Start(t)
  BY <1>2, StartStep
<1>3. CASE \E t \in Threads : Step(t)
  BY <1>3, ReserveErrorStep, ReserveLoadStep, ReserveClaimStep, ReserveFillStep,
     ReserveHeapErrorStep, ExitReservationStep, ExitSpawnStep, SealCasStep,
     SealSwapStep, SealErrorStep, SealSpawnStep, RollStep, PinSealStep,
     MarkWritebatchStep, MakeStableStep DEF Step
<1>4. CASE \E t \in Threads : BatchWrite(t) \/ BatchRead(t) \/ seal_batch(t)
  BY <1>4, BatchStep
<1>5. CASE TaskStep
  BY <1>5, WriteStep, MarkIntervalStep, TaskErrorStep DEF TaskStep
<1> QED
  BY <1>1, <1>2, <1>3, <1>4, <1>5 DEF Next

\* The invariant holds in every reachable state.
LEMMA Invariance == Spec => []IInv
BY InitInv, NextInv, PTL DEF Spec

\* The state of IoBufs and of the threads in it stays within its types.
THEOREM TypeCorrect == Spec => []TypeOK
<1>1. IInv => TypeOK
  BY DEF IInv, LocalsOK, SharedOK, BufsOK, TypeOK
<1> QED
  BY <1>1, Invariance, PTL

\* Everything up to the published stable LSN is written and fsynced, in whatever
\* order threads leave buffers and the threadpool writes them.
THEOREM StableDurability == Spec => []StableIsDurable
<1>1. IInv => StableIsDurable
  <2> SUFFICES ASSUME IInv, NEW lsn \in StartLsn..stable_lsn PROVE OnDisk(lsn)
    BY DEF StableIsDurable
  <2>1. StartLsn \in Int /\ stable_lsn \in Int /\ intervals.stable \in Int
    <3>1. 1 \in 1..Cur /\ bufs[1] \in BufType
      BY SMTT(30), CurType DEF IInv
    <3>2. StartLsn \in Int
      BY SMTT(30), <3>1 DEF StartLsn, BufType
    <3> QED
      BY <3>2, IntervalTypes
  <2>2. lsn \in StartLsn..intervals.stable
    BY SMTT(30), <2>1 DEF IInv, SharedOK, IntervalsOK
  <2> QED
    BY <2>2 DEF IInv, SharedOK, IntervalsOK
<1> QED
  BY <1>1, Invariance, PTL

\* A sealed buffer stays sealed and keeps its extent.
THEOREM SealedFinality == Spec => SealedIsFinal
<1>1. IInv /\ [Next]_vars => [\A i \in 1..Cur : bufs[i].sealed =>
                                /\ bufs'[i].sealed /\ bufs'[i].offset = bufs[i].offset
                                /\ Extent(bufs'[i]) = Extent(bufs[i])]_vars
  <2> SUFFICES ASSUME IInv, [Next]_vars, NEW i \in 1..Cur, bufs[i].sealed
               PROVE  /\ bufs'[i].sealed /\ bufs'[i].offset = bufs[i].offset
                      /\ Extent(bufs'[i]) = Extent(bufs[i])
    OBVIOUS
  <2>1. Frozen
    BY NextInv
  <2> QED
    BY <2>1 DEF Frozen, Extent, End
<1> QED
  BY <1>1, Invariance, PTL DEF Spec, SealedIsFinal
----------------------------------------------------------------------------
(* The second invariant.                                                   *)

\* The log is started with one buffer that reaches to the end of its segment.
LEMMA InitLog == Init => LogInv
<1> SUFFICES ASSUME Init PROVE LogInv
  OBVIOUS
<1>0. IInv
  BY InitInv
<1>1. PICK lsn \in StartLsns :
        /\ bufs = <<IF lsn % SegmentSize = 0
                    THEN store_segment_header(lsn)
                    ELSE BareBuf(lsn, NextSegment(lsn) - lsn)>>
        /\ intervals = [stable |-> lsn - 1, synced |-> {}, batches |-> {}]
        /\ stable_lsn = lsn - 1 /\ max_reserved = lsn - 1
  BY DEF Init
<1>2. lsn \in Nat /\ NextSegment(lsn) \in Nat
  BY StartAssumption, NextSegmentType
<1>3. PICK b : /\ bufs = <<b>> /\ b.lsn = lsn /\ b.lsn + b.capacity = NextSegment(b.lsn)
               /\ b.writers = {} /\ b.sealed = FALSE /\ b.maxed = FALSE /\ b.offset \in Nat
  <2>1. CASE lsn % SegmentSize = 0
    <3>1. bufs = <<store_segment_header(lsn)>>
      BY <1>1, <2>1
    <3>2. NextSegment(lsn) = lsn + SegmentSize
      <4>1. (lsn \div SegmentSize) \in Nat /\ lsn = (lsn \div SegmentSize) * SegmentSize
        BY SMTT(30), <1>2, <2>1, SizeAssumption
      <4> QED
        BY <1>2, <4>1, WholeSegment
    <3> QED
      BY SMTT(30), <3>1, <3>2, SizeAssumption DEF store_segment_header
  <2>2. CASE lsn % SegmentSize # 0
    <3>1. bufs = <<BareBuf(lsn, NextSegment(lsn) - lsn)>>
      BY <1>1, <2>2
    <3> QED
      BY SMTT(30), <1>2, <3>1 DEF BareBuf
  <2> QED
    BY <2>1, <2>2
<1>4. Cur = 1 /\ bufs[1] = b /\ Tip = lsn + b.offset /\ StartLsn = lsn
  BY <1>3 DEF Cur, Tip, End, StartLsn
<1>5. Chain
  BY SMTT(30), <1>3, <1>4 DEF Chain
<1>6. \A t \in Threads : HeldBy(t) = {} /\ Claimed(t) = {} /\ Duty(t) = 0
  BY DEF Init, HeldBy, Claimed, Pegged, Duty
<1>7. HeldOK
  BY SMTT(30), <1>3, <1>4, <1>6 DEF HeldOK, Counted
<1>8. DutiesOK
  BY SMTT(30), <1>3, <1>4, <1>6 DEF DutiesOK, Init
<1>9. MarksOK
  BY SMTT(30), <1>1, <1>2, <1>4 DEF MarksOK
<1>10. BatchesOK
  BY SMTT(30), <1>1, <1>2, <1>3, <1>4 DEF BatchesOK
<1>11. AloneOK /\ \A t \in Threads : SealerOK(t) /\ BatchOK(t)
  BY DEF Init, AloneOK, SealerOK, BatchOK
<1> QED
  BY <1>5, <1>7, <1>8, <1>9, <1>10, <1>11 DEF LogInv

\* Every step preserves the second invariant.
LEMMA NextLog == IInv /\ LogInv /\ [Next]_vars => LogInv'
<1> SUFFICES ASSUME IInv, LogInv, [Next]_vars PROVE LogInv'
  OBVIOUS
<1>1. IInv' /\ Frozen
  BY NextInv
<1>2. CASE UNCHANGED vars
  <2>1. /\ UNCHANGED <<bufs, tasks, disk, intervals, stable_lsn, max_reserved, error>>
        /\ UNCHANGED <<pc, op, seen, res, peg, goal>>
    BY <1>2 DEF vars, shared, locals
  <2>2. Cur' = Cur /\ Tip' = Tip /\ StartLsn' = StartLsn
    BY <2>1 DEF Cur, Tip, End, StartLsn
  <2>3. Chain' /\ AloneOK' /\ BatchesOK'
    BY <2>1, <2>2 DEF LogInv, Chain, End, AloneOK, BatchesOK
  <2>4. \A t \in Threads : /\ HeldBy(t)' = HeldBy(t) /\ Claimed(t)' = Claimed(t)
                            /\ Pegged(t)' = Pegged(t) /\ Duty(t)' = Duty(t)
    BY <2>1 DEF HeldBy, Claimed, Pegged, Duty
  <2>5. HeldOK'
    BY SMTT(30), <2>1, <2>2, <2>4 DEF LogInv, HeldOK, Inside, Counted, Apart
  <2>6. DutiesOK' /\ MarksOK'
    BY SMTT(30), <2>1, <2>2, <2>4 DEF LogInv, DutiesOK, MarksOK, Queued, Unmarked, Extent, End
  <2>7. \A t \in Threads : SealerOK(t)' /\ BatchOK(t)'
    BY <2>1, <2>2 DEF LogInv, SealerOK, BatchOK, IsManifest
  <2> QED
    BY <2>3, <2>5, <2>6, <2>7 DEF LogInv
<1>3. ASSUME NEW t \in Threads, Start(t) PROVE LogInv'
  BY <1>1, <1>3, StartLog
<1>4. ASSUME NEW t \in Threads, Step(t) PROVE LogInv'
  <2>1. CASE ReserveError(t) \/ ReserveLoad(t) \/ ReserveFill(t) \/ ReserveHeapError(t)
    BY <1>1, <2>1, ReserveErrorLog, ReserveLoadLog, ReserveFillLog, ReserveHeapErrorLog
  <2>2. CASE ReserveClaim(t) \/ exit_reservation(t) \/ SealCas(t) \/ SealSwap(t)
    BY <1>1, <2>2, ClaimLog, ExitLog, SealLog, SwapLog
  <2>3. CASE ExitSpawn(t) \/ SealSpawn(t) \/ SealError(t)
    BY <1>1, <2>3, SpawnLog, SealErrorLog
  <2>4. CASE roll_iobuf(t) \/ PinSeal(t) \/ mark_writebatch(t)
    BY <1>1, <2>4, RollLog, MarkWritebatchLog
  <2>5. CASE StableCheck(t) \/ StableBody(t) \/ StableLock(t)
    BY <1>1, <2>5, MakeStableLog
  <2> QED
    BY <1>4, <2>1, <2>2, <2>3, <2>4, <2>5 DEF Step
<1>5. ASSUME NEW t \in Threads, BatchWrite(t) \/ BatchRead(t) \/ seal_batch(t) PROVE LogInv'
  BY <1>1, <1>5, BatchLog
<1>6. ASSUME NEW x \in tasks, write_to_log(x) \/ mark_interval(x) \/ TaskError(x) PROVE LogInv'
  BY <1>1, <1>6, WriteLog, MarkIntervalLog, TaskErrorLog
<1> QED
  BY <1>2, <1>3, <1>4, <1>5, <1>6 DEF Next, TaskStep

\* Both invariants hold in every reachable state.
LEMMA LogInvariance == Spec => [](IInv /\ LogInv)
<1>1. Init => IInv /\ LogInv
  BY InitInv, InitLog
<1>2. (IInv /\ LogInv) /\ [Next]_vars => (IInv /\ LogInv)'
  BY NextInv, NextLog
<1> QED
  BY <1>1, <1>2, PTL DEF Spec
----------------------------------------------------------------------------
(* Theorems.                                                               *)

\* No byte of the log is writable through two reservations, or through a reservation
\* and a buffer that is being written, or in two such buffers.
THEOREM NoByteIsAliased == Spec => []NoAliasing
BY Unaliased, LogInvariance, PTL

\* Reservations keep out of the red zone and end within their segment.
THEOREM RedZones == Spec => []RedZoneRespected
BY InSegments, LogInvariance, PTL

\* The sealer and the last writer of a buffer never both have it written, and without
\* an error one of them does.
THEOREM ExactlyOnce == Spec => []WrittenExactlyOnce
<1>1. \A x : Cardinality({x}) = 1
  BY FS_Singleton
<1>2. IInv /\ LogInv => WrittenExactlyOnce
  BY <1>1, OwnedOnce
<1> QED
  BY <1>2, LogInvariance, PTL

\* Unless heap writes fail, every writer a header counts will leave.
THEOREM WritersHeld ==
  ASSUME HeapErrors = FALSE
  PROVE  Spec => []WritersAreHeld
<1>1. IInv /\ LogInv => WritersAreHeld
  BY WritersCounted
<1> QED
  BY <1>1, LogInvariance, PTL

\* The assertions of StabilityIntervals never fail.
THEOREM AssertionsNeverFail == Spec => []AssertionsHold
BY Asserted, LogInvariance, PTL

\* The stable LSN lies in no batch, pinned or sealed.
THEOREM BatchAtomicity == Spec => []BatchesStabilizeAtomically
BY BatchesWhole, LogInvariance, PTL
----------------------------------------------------------------------------
(* IoBufs implements DurableLog.                                           *)

\* Folding a written buffer into the intervals publishes what is durable.
LEMMA MarkIntervalPublishes ==
  ASSUME IInv, IInv', LogInv, NEW x \in tasks, mark_interval(x)
  PROVE  [Log!Next]_(Log!logVars)
<1>1. /\ LogInv' /\ stable_lsn <= stable_lsn' /\ stable_lsn' \in Int
      /\ \A b \in intervals.batches : stable_lsn' < b.low \/ stable_lsn' >= b.high
      /\ intervals'.batches = {b \in intervals.batches : b.high > stable_lsn'}
  BY MarkIntervalLog
<1>2. UNCHANGED <<bufs, disk>> /\ stable_lsn \in Int
  BY SMTT(30) DEF mark_interval, IInv, SharedOK, Lsn
<1>3. Durable' = Durable /\ End(bufs'[Cur']) = End(bufs[Cur]) /\ StartLsn' = StartLsn
  BY <1>2 DEF Durable, Cur, StartLsn
<1>4. CASE stable_lsn' = stable_lsn
  <2>1. intervals'.batches = intervals.batches
    <3>1. \A b \in intervals.batches : b.high > stable_lsn
      <4>1. \A b \in intervals.batches : b.low \in Int /\ b.high \in Int
        BY IntervalTypes
      <4> QED
        BY SMTT(30), <1>2, <4>1 DEF LogInv, BatchesOK
    <3> QED
      BY <1>1, <1>4, <3>1
  <2> QED
    BY <1>2, <1>3, <1>4, <2>1 DEF Log!logVars
<1>5. CASE stable_lsn' # stable_lsn
  <2>1. stable_lsn' > stable_lsn
    BY SMTT(30), <1>1, <1>2, <1>5
  <2>2. (stable_lsn + 1)..stable_lsn' \subseteq Durable
    <3>1. SUFFICES ASSUME NEW lsn \in (stable_lsn + 1)..stable_lsn' PROVE lsn \in Durable
      OBVIOUS
    <3>2. /\ StartLsn \in Int /\ StartLsn - 1 <= stable_lsn /\ intervals'.stable \in Int
          /\ stable_lsn' <= intervals'.stable
      <4>1. StartLsn \in Nat /\ StartLsn - 1 <= stable_lsn
        BY Bounds DEF LogInv, BatchesOK
      <4>2. SharedOK'
        BY DEF IInv
      <4>3. intervals'.stable \in Int /\ stable_lsn' <= intervals'.stable
        BY SMTT(30), <4>2 DEF SharedOK, IntervalsOK, IntervalsType, Lsn
      <4> QED
        BY SMTT(30), <4>1, <4>3
    <3>3. lsn \in StartLsn'..intervals'.stable
      BY SMTT(30), <1>1, <1>2, <1>3, <3>1, <3>2
    <3>4. \E i \in disk' : lsn \in Extent(bufs'[i])
      BY <1>1, <3>3 DEF LogInv, MarksOK
    <3> QED
      BY <1>2, <3>4 DEF Durable
  <2> QED
    BY <1>1, <1>3, <2>1, <2>2 DEF Log!Next, Log!Publish
<1> QED
  BY <1>4, <1>5

\* IO buffers, tasks and intervals implement the durable log.
THEOREM Refinement == Spec => ImplementsDurableLog
<1>1. Init => Log!Init
  <2> SUFFICES ASSUME Init PROVE Log!Init
    OBVIOUS
  <2>1. IInv /\ LogInv
    BY InitInv, InitLog
  <2>2. /\ Tip \in Nat /\ StartLsn \in Nat /\ max_reserved < Tip /\ stable_lsn \in Lsn
        /\ max_reserved = stable_lsn
    BY <2>1, Bounds DEF LogInv, BatchesOK, IInv, SharedOK, Init
  <2>3. intervals.batches = {} /\ Durable = {}
    BY SMTT(30) DEF Init, Durable
  <2>4. stable_lsn \in -1 .. Tip - 1
    BY SMTT(30), <2>2 DEF Lsn
  <2> QED
    BY <2>2, <2>3, <2>4 DEF Log!Init, Tip
<1>2. IInv /\ IInv' /\ LogInv /\ LogInv' /\ [Next]_vars => [Log!Next]_(Log!logVars)
  <2> SUFFICES ASSUME IInv, IInv', LogInv, LogInv', [Next]_vars
               PROVE  [Log!Next]_(Log!logVars)
    OBVIOUS
  <2>1. Frozen /\ Tip \in Nat
    BY NextInv, Bounds DEF LogInv
  <2>2. ASSUME UNCHANGED <<bufs, disk, intervals, stable_lsn>> PROVE [Log!Next]_(Log!logVars)
    BY <2>2 DEF Log!logVars, Durable, Cur
  <2>3. CASE UNCHANGED vars
    BY <2>2, <2>3 DEF vars, shared
  <2>4. ASSUME NEW t \in Threads, Start(t) PROVE [Log!Next]_(Log!logVars)
    BY <2>2, <2>4 DEF Start, StartWrite, StartFlush, StartRead, StartRoll, pin_log, Begin, shared
  <2>5. ASSUME NEW t \in Threads, Step(t) PROVE [Log!Next]_(Log!logVars)
    <3>1. CASE mark_writebatch(t)
      BY <3>1, MarkWritebatchDeclares
    <3>2. CASE ReserveClaim(t) \/ exit_reservation(t) \/ SealCas(t) \/ SealSwap(t)
      <4>1. Tip <= Tip'
        BY <2>1, <3>2, ClaimLog, ExitLog, SealLog, SwapLog
      <4>2. UNCHANGED <<disk, intervals, stable_lsn>>
        BY <3>2 DEF ReserveClaim, ClaimIf, exit_reservation, Leave, SealCas, SealSwap, Install
      <4> QED
        BY <2>1, <4>1, <4>2, OtherStepsExtend
    <3>3. CASE ReserveError(t) \/ ReserveLoad(t) \/ ReserveFill(t) \/ ReserveHeapError(t)
      BY <2>2, <3>3 DEF ReserveError, ReserveLoad, ReserveFill, ReserveHeapError, shared
    <3>4. CASE ExitSpawn(t) \/ SealError(t) \/ SealSpawn(t) \/ roll_iobuf(t) \/ PinSeal(t)
      BY <2>2, <3>4 DEF ExitSpawn, SealError, SealSpawn, roll_iobuf, PinSeal, shared
    <3>5. CASE StableCheck(t) \/ StableBody(t) \/ StableLock(t)
      BY <2>2, <3>5 DEF StableCheck, StableBody, StableLock, shared
    <3> QED
      BY <2>5, <3>1, <3>2, <3>3, <3>4, <3>5 DEF Step
  <2>6. ASSUME NEW t \in Threads, BatchWrite(t) \/ BatchRead(t) \/ seal_batch(t)
        PROVE  [Log!Next]_(Log!logVars)
    BY <2>2, <2>6 DEF BatchWrite, BatchRead, seal_batch, shared
  <2>7. ASSUME NEW x \in tasks, write_to_log(x) \/ mark_interval(x) \/ TaskError(x)
        PROVE  [Log!Next]_(Log!logVars)
    <3>1. CASE write_to_log(x)
      BY <3>1, WritePersists
    <3>2. CASE mark_interval(x)
      BY <3>2, MarkIntervalPublishes
    <3>3. CASE TaskError(x)
      BY <2>2, <3>3 DEF TaskError
    <3> QED
      BY <2>7, <3>1, <3>2, <3>3
  <2> QED
    BY <2>3, <2>4, <2>5, <2>6, <2>7 DEF Next, TaskStep
<1> QED
  BY <1>1, <1>2, LogInvariance, PTL DEF Spec, ImplementsDurableLog, Log!Spec
============================================================================
