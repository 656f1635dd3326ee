--------------------------- MODULE IoBufsFrames ----------------------------
(***************************************************************************)
(* What the invariants of IoBufs say about the geometry of the log, what   *)
(* steps leave alone of them, and what they imply: the properties of       *)
(* IoBufs that are invariants.                                             *)
(***************************************************************************)
EXTENDS IoBufsInvariant, TLAPS
USE ZenonT(30)

(* Types.                                                                  *)

\* The start of the next segment lies beyond every LSN of this one.
LEMMA NextSegmentType ==
  ASSUME NEW lsn \in Nat
  PROVE  NextSegment(lsn) \in Nat /\ NextSegment(lsn) > lsn
BY SMTT(30), SizeAssumption DEF NextSegment

\* A notification moves only threads that wait on interval_updated.
LEMMA WakesType ==
  ASSUME NEW p, Wakes(p), pc \in [Threads -> Labels]
  PROVE  /\ p \in [Threads -> Labels]
         /\ \A u \in Threads : p[u] = pc[u] \/ (pc[u] = "waiting" /\ p[u] = "stable_body")
BY DEF Wakes, NotifyAll, Labels

\* Not notifying anybody is a special case of a notification.
LEMMA WakesPc == Wakes(pc) /\ Wakes(NotifyAll(pc))
BY DEF Wakes

\* There is a current buffer, and every buffer is one.
LEMMA CurType ==
  ASSUME SharedOK
  PROVE  Cur \in Nat \ {0} /\ \A i \in 1..Cur : bufs[i] \in BufType
BY SMTT(30) DEF SharedOK, Cur

\* A step that leaves the buffers alone freezes them.
LEMMA SameBufs ==
  ASSUME SharedOK, bufs' = bufs
  PROVE  Frozen /\ Cur' = Cur /\ BufsOK'
BY SMTT(30), CurType DEF SharedOK, Frozen, Cur, BufsOK

\* The LSN the log was started at does not change.
LEMMA StartStays ==
  ASSUME SharedOK, Frozen
  PROVE  StartLsn' = StartLsn
BY SMTT(30), CurType DEF StartLsn, Frozen

\* What mark_fsync works on.
LEMMA IntervalTypes ==
  ASSUME IInv
  PROVE  /\ intervals.stable \in Int /\ stable_lsn \in Int /\ max_reserved \in Int
         /\ stable_lsn <= intervals.stable
         /\ intervals.synced \in SUBSET Nat /\ IsFiniteSet(intervals.synced)
         /\ \A b \in intervals.batches : b.low \in Int /\ b.high \in Int
<1>1. intervals \in IntervalsType /\ stable_lsn \in Lsn /\ max_reserved \in Lsn /\ IntervalsOK
  BY DEF IInv, SharedOK
<1> QED
  BY SMTT(30), <1>1 DEF IntervalsOK, IntervalsType, Lsn

\* The next buffer begins where the sealed one ends.
LEMMA NextBufType ==
  ASSUME NEW b \in BufType, b.offset <= b.capacity
  PROVE  NextBuf(b) \in BufType /\ NextBuf(b).offset <= NextBuf(b).capacity
<1>1. CASE b.maxed
  <2>1. NextSegment(b.lsn) \in Nat
    BY NextSegmentType DEF BufType
  <2> QED
    BY SMTT(30), <1>1, <2>1, SizeAssumption DEF NextBuf, store_segment_header, BufType
<1>2. CASE ~b.maxed
  <2>1. b.lsn + b.offset \in Nat /\ b.capacity - b.offset \in Nat
    BY SMTT(30) DEF BufType
  <2> QED
    BY SMTT(30), <1>2, <2>1 DEF NextBuf, BareBuf, BufType
<1> QED
  BY <1>1, <1>2
----------------------------------------------------------------------------
(* Segments, and the geometry of the chain.                                *)

\* The quotient of an LSN by the segment size is the number of its segment.
LEMMA SegmentNumber ==
  ASSUME NEW n \in Nat, NEW q \in Nat, q * SegmentSize <= n, n < (q + 1) * SegmentSize
  PROVE  n \div SegmentSize = q
<1> DEFINE p == n \div SegmentSize
<1>1. SegmentSize \in Nat \ {0}
  BY SMTT(30), SizeAssumption
<1>2. p \in Nat /\ p * SegmentSize <= n /\ n < (p + 1) * SegmentSize
  BY SMTT(30), <1>1
<1> HIDE DEF p
<1>3. ASSUME NEW a \in Nat, NEW b \in Nat, a < b
      PROVE  (a + 1) * SegmentSize <= b * SegmentSize
  BY SMTT(30), <1>1, <1>3
<1>4. ~(p < q) /\ ~(q < p)
  BY SMTT(30), <1>1, <1>2, <1>3
<1> QED
  BY SMTT(30), <1>2, <1>4 DEF p

\* LSNs below the end of a segment belong to it.
LEMMA SameSegment ==
  ASSUME NEW lsn \in Nat, NEW m \in Nat, lsn <= m, m < NextSegment(lsn)
  PROVE  NextSegment(m) = NextSegment(lsn)
<1> DEFINE q == lsn \div SegmentSize
<1>1. q \in Nat /\ q * SegmentSize <= lsn
  BY SMTT(30), SizeAssumption
<1>2. m < (q + 1) * SegmentSize
  BY DEF NextSegment
<1> HIDE DEF q
<1>3. q * SegmentSize <= m
  BY SMTT(30), <1>1, SizeAssumption
<1>4. m \div SegmentSize = q
  BY <1>1, <1>2, <1>3, SegmentNumber
<1> QED
  BY <1>4 DEF NextSegment, q

\* A segment that begins at an LSN ends one segment size later.
LEMMA WholeSegment ==
  ASSUME NEW lsn \in Nat, NEW q \in Nat, lsn = q * SegmentSize
  PROVE  NextSegment(lsn) = lsn + SegmentSize
<1>1. q * SegmentSize <= lsn /\ lsn < (q + 1) * SegmentSize
  BY SMTT(30), SizeAssumption
<1>2. lsn \div SegmentSize = q
  BY <1>1, SegmentNumber
<1> QED
  BY SMTT(30), <1>2, SizeAssumption DEF NextSegment

\* Every buffer ends somewhere, before and after a step.
LEMMA EndType ==
  ASSUME NEW b \in BufType
  PROVE  End(b) \in Nat
BY SMTT(30), NextSegmentType DEF End, BufType

\* After a step, as before it, there is a current buffer and the log has an end.
LEMMA NextTypes ==
  ASSUME IInv'
  PROVE  /\ Cur' \in Nat \ {0} /\ (\A i \in 1..Cur' : bufs'[i] \in BufType)
         /\ Tip' \in Nat /\ max_reserved' \in Int
<1>1. SharedOK'
  BY DEF IInv
<1>2. Cur' \in Nat \ {0} /\ \A i \in 1..Cur' : bufs'[i] \in BufType
  BY SMTT(30), <1>1 DEF SharedOK, Cur
<1>3. Tip' \in Nat
  BY SMTT(30), <1>2, EndType DEF Tip
<1> QED
  BY SMTT(30), <1>1, <1>2, <1>3 DEF SharedOK, Lsn

\* What a buffer accounts for lies between its LSN and the end of its segment.
LEMMA BufEnds ==
  ASSUME IInv, Chain, NEW i \in 1..Cur
  PROVE  /\ bufs[i] \in BufType /\ End(bufs[i]) \in Nat
         /\ bufs[i].lsn + bufs[i].offset <= End(bufs[i])
         /\ End(bufs[i]) <= bufs[i].lsn + bufs[i].capacity
<1>1. bufs[i] \in BufType /\ bufs[i].offset <= bufs[i].capacity
  BY CurType DEF IInv, SharedOK, BufsOK
<1>2. bufs[i].lsn + bufs[i].capacity = NextSegment(bufs[i].lsn)
  BY DEF Chain
<1> QED
  BY SMTT(30), <1>1, <1>2 DEF End, BufType

\* No buffer ends beyond the log, nor begins before its start.
LEMMA WithinLog ==
  ASSUME IInv, Chain, NEW i \in 1..Cur
  PROVE  /\ Tip \in Nat /\ StartLsn \in Nat
         /\ End(bufs[i]) <= Tip /\ StartLsn <= bufs[i].lsn
<1>1. Cur \in Nat \ {0} /\ Cur \in 1..Cur /\ 1 \in 1..Cur
  BY SMTT(30), CurType DEF IInv
<1>2. \A j \in 1..Cur : /\ bufs[j] \in BufType /\ End(bufs[j]) \in Nat
                        /\ bufs[j].lsn + bufs[j].offset <= End(bufs[j])
  BY BufEnds
<1>3. \A j \in 1..Cur : bufs[j].lsn \in Nat /\ bufs[j].offset \in Nat
  BY <1>2 DEF BufType
<1>4. i # Cur => End(bufs[i]) <= bufs[Cur].lsn
  BY SMTT(30), <1>1 DEF Chain
<1>5. i # 1 => End(bufs[1]) <= bufs[i].lsn
  BY SMTT(30), <1>1 DEF Chain
<1> QED
  BY SMTT(30), <1>1, <1>2, <1>3, <1>4, <1>5 DEF Tip, StartLsn

\* Buffers account for different LSNs.
LEMMA ExtentsDisjoint ==
  ASSUME IInv, Chain, NEW i \in 1..Cur, NEW j \in 1..Cur,
         NEW lsn \in Extent(bufs[i]), lsn \in Extent(bufs[j])
  PROVE  i = j
<1>1. /\ bufs[i].lsn \in Nat /\ End(bufs[i]) \in Nat
      /\ bufs[j].lsn \in Nat /\ End(bufs[j]) \in Nat
  BY BufEnds DEF BufType
<1>2. /\ bufs[i].lsn <= lsn /\ lsn < End(bufs[i])
      /\ bufs[j].lsn <= lsn /\ lsn < End(bufs[j]) /\ lsn \in Int
  BY SMTT(30), <1>1 DEF Extent
<1>3. /\ i < j => End(bufs[i]) <= bufs[j].lsn
      /\ j < i => End(bufs[j]) <= bufs[i].lsn
  BY DEF Chain
<1> QED
  BY SMTT(30), <1>1, <1>2, <1>3, CurType DEF IInv

\* A reservation that is held lies in its buffer's extent and below the end of the log.
LEMMA HeldWithin ==
  ASSUME IInv, Chain, NEW r, Inside(r), r.len > 0
  PROVE  /\ r.lsn \in Nat /\ r.len \in Nat /\ r.buf \in 1..Cur
         /\ r.lsn \in Extent(bufs[r.buf]) /\ r.lsn + r.len <= End(bufs[r.buf])
         /\ r.lsn + r.len <= Tip
<1>1. /\ bufs[r.buf] \in BufType /\ End(bufs[r.buf]) \in Nat
      /\ bufs[r.buf].lsn + bufs[r.buf].offset <= End(bufs[r.buf])
      /\ End(bufs[r.buf]) <= Tip /\ Tip \in Nat
  BY BufEnds, WithinLog DEF Inside
<1> QED
  BY SMTT(30), <1>1 DEF Inside, Extent, ResType, BufType
----------------------------------------------------------------------------
(* What steps leave alone of the second invariant.                         *)

\* A thread that takes no part in a step keeps what it holds and what it owes.
LEMMA BystanderKeeps ==
  ASSUME NEW u \in Threads, Bystander(u)
  PROVE  /\ Claimed(u)' = Claimed(u) /\ Pegged(u)' = Pegged(u) /\ HeldBy(u)' = HeldBy(u)
         /\ Duty(u)' = Duty(u)
<1>1. Claimed(u)' = Claimed(u)
  BY DEF Bystander, Claimed
<1>2. Pegged(u)' = Pegged(u)
  BY DEF Bystander, Pegged
<1>3. Duty(u)' = Duty(u)
  BY DEF Bystander, Duty
<1> QED
  BY <1>1, <1>2, <1>3 DEF HeldBy

\* It keeps its own part of the invariant while the log grows and batches above its
\* manifest are not recorded by others.
LEMMA BystanderLog ==
  ASSUME IInv, Frozen, NEW u \in Threads, Bystander(u), SealerOK(u), BatchOK(u),
         Tip \in Int, Tip' \in Int, Tip <= Tip',
         max_reserved' \in Int, max_reserved <= max_reserved',
         pc[u] = "seal_swap" => Cur' = Cur,
         op[u] = "batch" => intervals'.batches \subseteq intervals.batches
  PROVE  SealerOK(u)' /\ BatchOK(u)'
<1>1. ThreadOK(u) /\ Cur \in Nat
  BY CurType DEF IInv, LocalsOK
<1>2. SealerOK(u)'
  BY <1>1 DEF SealerOK, Bystander, Frozen, ThreadOK
<1>3. /\ max_reserved \in Int /\ peg[u] \in ResType \cup {None}
      /\ peg[u] # None => peg[u].lsn \in Nat /\ peg[u].len \in Nat
      /\ pc[u] = "mark_writebatch" => peg[u] # None /\ goal[u] \in Int
  BY SMTT(30), <1>1 DEF IInv, SharedOK, LocalsOK, Lsn, ResType, ThreadOK, Place, Batching, Stabilizing
<1>4. BatchOK(u)'
  <2>1. pc'[u] = "idle" => peg'[u] = None
    BY DEF Bystander, BatchOK
  <2>2. peg'[u] # None => /\ op'[u] = "batch"
                          /\ peg'[u].lsn + peg'[u].len - 1 <= max_reserved'
                          /\ \A b \in intervals'.batches : b.high < peg'[u].lsn
    BY SMTT(30), <1>3 DEF Bystander, BatchOK
  <2>3. pc'[u] = "bump" /\ IsManifest(u)' =>
            \A b \in intervals'.batches : b.high < res'[u].lsn
    BY DEF Bystander, BatchOK, IsManifest
  <2>4. pc'[u] = "mark_writebatch" =>
            peg'[u].lsn + peg'[u].len - 1 <= goal'[u] /\ goal'[u] < Tip'
    BY SMTT(30), <1>3 DEF Bystander, BatchOK
  <2> QED
    BY <2>1, <2>2, <2>3, <2>4 DEF BatchOK
<1> QED
  BY <1>2, <1>4

\* A step that leaves the buffers alone is one of these.
LEMMA SameChain ==
  ASSUME IInv, bufs' = bufs
  PROVE  /\ Frozen /\ Cur' = Cur /\ WritersKept /\ Tip' = Tip /\ StartLsn' = StartLsn
         /\ Chain => Chain'
<1>1. Frozen /\ Cur' = Cur
  BY SameBufs DEF IInv
<1>2. WritersKept
  BY SMTT(30), <1>1, CurType DEF IInv, WritersKept, BufType
<1>3. Tip' = Tip /\ StartLsn' = StartLsn /\ (Chain => Chain')
  BY <1>1 DEF Tip, StartLsn, Chain
<1> QED
  BY <1>1, <1>2, <1>3

\* A reservation stays where it is while its buffer keeps its writers.
LEMMA InsideStays ==
  ASSUME IInv, IInv', Frozen, NEW r, Inside(r),
         r.lsn \in bufs'[r.buf].writers, bufs'[r.buf].offset >= bufs[r.buf].offset
  PROVE  Inside(r)'
<1>1. /\ r \in ResType /\ r.buf \in 1..Cur /\ bufs[r.buf] \in BufType
      /\ Cur \in Nat /\ Cur' \in Nat /\ Cur <= Cur'
  BY CurType, NextTypes DEF Inside, IInv, Frozen
<1>2. r.buf \in 1..Cur' /\ bufs'[r.buf] \in BufType
  BY SMTT(30), <1>1, NextTypes
<1>3. bufs'[r.buf].lsn = bufs[r.buf].lsn /\ bufs'[r.buf].capacity = bufs[r.buf].capacity
  BY <1>1 DEF Frozen
<1> QED
  BY SMTT(30), <1>1, <1>2, <1>3 DEF Inside, ResType, BufType

\* Who holds what stays right when nobody enters or leaves a buffer; a reservation
\* may be forgotten only where heap writes can fail.
LEMMA HeldFrame ==
  ASSUME IInv, IInv', Frozen, HeldOK, WritersKept,
         \A u \in Threads : HeldBy(u)' \subseteq HeldBy(u),
         HeapErrors \/ \A u \in Threads : HeldBy(u)' = HeldBy(u),
         \A u \in Threads : \A r \in Claimed(u)', s \in Pegged(u)' : Apart(r, s)
  PROVE  HeldOK'
<1>1. ASSUME NEW u \in Threads, NEW r \in HeldBy(u)' PROVE Inside(r)'
  <2>1. Inside(r)
    BY <1>1 DEF HeldOK
  <2>2. r.lsn \in bufs'[r.buf].writers /\ bufs'[r.buf].offset >= bufs[r.buf].offset
    BY <2>1 DEF Inside, WritersKept
  <2> QED
    BY <2>1, <2>2, InsideStays
<1>2. ASSUME NEW u \in Threads, NEW v \in Threads, u # v,
             NEW r \in HeldBy(u)', NEW s \in HeldBy(v)'
      PROVE  Apart(r, s)
  BY <1>2 DEF HeldOK
<1>3. HeapErrors \/ Counted'
  <2>1. SUFFICES ASSUME ~HeapErrors, NEW i \in 1..Cur', NEW lsn \in bufs'[i].writers
                 PROVE  \E u \in Threads : \E r \in HeldBy(u)' : r.buf = i /\ r.lsn = lsn
    BY DEF Counted
  <2>2. i \in 1..Cur /\ lsn \in bufs[i].writers
    BY <2>1 DEF WritersKept
  <2>3. \E u \in Threads : \E r \in HeldBy(u) : r.buf = i /\ r.lsn = lsn
    BY <2>1, <2>2 DEF HeldOK, Counted
  <2> QED
    BY <2>1, <2>3
<1> QED
  BY <1>1, <1>2, <1>3 DEF HeldOK, Apart

\* Duties stay right while nothing is sealed, written or handed over and nobody
\* leaves a sealed buffer; a duty may be dropped with an error.
LEMMA DutiesFrame ==
  ASSUME IInv, IInv', Frozen, DutiesOK, tasks' = tasks, disk' = disk, error => error',
         \A u \in Threads : Duty(u)' = Duty(u) \/ (error' /\ Duty(u)' = 0),
         \A i \in 1..Cur : bufs[i].sealed => bufs'[i].writers = bufs[i].writers,
         \A i \in 1..Cur' : bufs'[i].sealed => i \in 1..Cur /\ bufs[i].sealed
  PROVE  DutiesOK'
<1>1. \A i \in 1..Cur : bufs[i].sealed => bufs'[i].sealed
  BY DEF Frozen
<1>2. \A i : Queued(i)' <=> Queued(i)
  BY DEF Queued
<1>3. /\ disk \subseteq 1..Cur /\ \A x \in tasks : x.buf \in 1..Cur /\ bufs[x.buf].sealed
      /\ \A i \in disk : bufs[i].sealed
  BY DEF IInv, SharedOK, DiskOK
<1>4. \A u \in Threads : Duty(u) # 0 => Duty(u) \in 1..Cur
  BY DEF Duty, IInv, LocalsOK, ThreadOK
<1>5. ASSUME NEW u \in Threads, Duty(u)' # 0
      PROVE  /\ bufs'[Duty(u)'].sealed /\ bufs'[Duty(u)'].writers = {}
             /\ Duty(u)' \notin disk' /\ ~Queued(Duty(u))'
             /\ \A v \in Threads : Duty(v)' = Duty(u)' => v = u
  <2>1. Duty(u)' = Duty(u) /\ Duty(u) \in 1..Cur /\ Duty(u) # 0
    BY <1>4, <1>5
  <2> QED
    BY <1>1, <1>2, <2>1 DEF DutiesOK
<1>6. ASSUME NEW i \in 1..Cur', bufs'[i].sealed, bufs'[i].writers = {}
      PROVE  error' \/ i \in disk' \/ Queued(i)' \/ \E u \in Threads : Duty(u)' = i
  <2>1. i \in 1..Cur /\ bufs[i].sealed /\ bufs[i].writers = {}
    BY <1>6
  <2> QED
    BY <1>2, <2>1 DEF DutiesOK
<1> QED
  BY <1>1, <1>2, <1>3, <1>5, <1>6 DEF DutiesOK

\* What is marked stays marked while the intervals and the disk stay as they are.
LEMMA MarksFrame ==
  ASSUME IInv, Frozen, MarksOK, disk' = disk,
         intervals'.synced = intervals.synced, intervals'.stable = intervals.stable,
         \A x \in tasks' : x.stage = "synced" => x \in tasks
  PROVE  MarksOK'
<1>1. StartLsn' = StartLsn
  BY StartStays DEF IInv
<1>2. SUFFICES ASSUME NEW lsn \in intervals.synced \cup (StartLsn..intervals.stable)
               PROVE  \E i \in disk' : lsn \in Extent(bufs'[i]) /\ ~Unmarked(i)'
  BY <1>1 DEF MarksOK
<1>3. PICK i \in disk : lsn \in Extent(bufs[i]) /\ ~Unmarked(i)
  BY DEF MarksOK
<1>4. i \in 1..Cur /\ bufs[i].sealed
  BY DEF IInv, SharedOK, DiskOK
<1>5. Extent(bufs'[i]) = Extent(bufs[i])
  BY <1>4 DEF Frozen, Extent, End
<1>6. ~Unmarked(i)'
  BY <1>3 DEF Unmarked
<1> QED
  BY <1>3, <1>5, <1>6

\* The recorded batches keep their place while the log grows.
LEMMA BatchesFrame ==
  ASSUME IInv, Frozen, BatchesOK, Tip \in Int, Tip' \in Int, Tip <= Tip',
         max_reserved' \in Int, max_reserved' < Tip',
         stable_lsn' = stable_lsn, intervals'.batches = intervals.batches
  PROVE  BatchesOK'
<1>1. StartLsn' = StartLsn
  BY StartStays DEF IInv
<1>2. \A b \in intervals.batches : b.high \in Int
  BY SMTT(30) DEF IInv, SharedOK, IntervalsType, Lsn
<1> QED
  BY SMTT(30), <1>1, <1>2 DEF BatchesOK

\* The end of the log, and what was reserved, are integers.
LEMMA Bounds ==
  ASSUME IInv, Chain
  PROVE  Tip \in Nat /\ max_reserved \in Int /\ StartLsn \in Nat
<1>1. Cur \in 1..Cur
  BY SMTT(30), CurType DEF IInv
<1> QED
  BY SMTT(30), <1>1, WithinLog DEF IInv, SharedOK, Lsn

\* A step of thread t that leaves the disk and the intervals alone has to answer
\* only for the buffers, for reservations and duties, and for t itself.
LEMMA LogStep ==
  ASSUME IInv, IInv', Frozen, LogInv, NEW t \in Threads,
         \A u \in Threads \ {t} : Bystander(u),
         UNCHANGED <<disk, intervals, stable_lsn>>, Chain', HeldOK', DutiesOK',
         \A x \in tasks' : x.stage = "synced" => x \in tasks,
         Tip <= Tip', max_reserved <= max_reserved', max_reserved' < Tip',
         SealerOK(t)', BatchOK(t)',
         \A u \in Threads \ {t} : pc[u] = "seal_swap" => Cur' = Cur /\ pc'[t] # "seal_swap",
         op'[t] = "batch" => \A u \in Threads \ {t} : op[u] # "batch"
  PROVE  LogInv'
<1>1. Tip \in Nat /\ Tip' \in Nat /\ max_reserved' \in Int
  BY Bounds, NextTypes DEF LogInv
<1>2. MarksOK'
  BY MarksFrame DEF LogInv
<1>3. BatchesOK'
  BY SMTT(30), <1>1, BatchesFrame DEF LogInv
<1>4. ASSUME NEW u \in Threads PROVE SealerOK(u)' /\ BatchOK(u)'
  BY SMTT(30), <1>1, BystanderLog DEF LogInv
<1>5. AloneOK'
  <2>1. ASSUME NEW u \in Threads, NEW v \in Threads, u # v
        PROVE  /\ ~(pc'[u] = "seal_swap" /\ pc'[v] = "seal_swap")
               /\ ~(op'[u] = "batch" /\ op'[v] = "batch")
    <3>1. /\ ~(pc[u] = "seal_swap" /\ pc[v] = "seal_swap")
          /\ ~(op[u] = "batch" /\ op[v] = "batch")
      BY <2>1 DEF LogInv, AloneOK
    <3>2. \A w \in Threads \ {t} : /\ pc'[w] = "seal_swap" => pc[w] = "seal_swap"
                                   /\ op'[w] = op[w]
      BY DEF Bystander
    <3> QED
      BY <2>1, <3>1, <3>2
  <2> QED
    BY <2>1 DEF AloneOK
<1> QED
  BY <1>2, <1>3, <1>4, <1>5 DEF LogInv

\* When it changes only the locals of t, and perhaps raises max_reserved_lsn or the
\* error, it has to answer only for t.
LEMMA QuietStep ==
  ASSUME IInv, IInv', LogInv, NEW t \in Threads,
         UNCHANGED <<bufs, tasks, disk, intervals, stable_lsn>>,
         max_reserved <= max_reserved', max_reserved' < Tip, error => error',
         \A u \in Threads \ {t} : Bystander(u),
         HeldBy(t)' \subseteq HeldBy(t), HeapErrors \/ HeldBy(t)' = HeldBy(t),
         \A r \in Claimed(t)', s \in Pegged(t)' : Apart(r, s),
         Duty(t)' = Duty(t) \/ (error' /\ Duty(t)' = 0),
         SealerOK(t)', BatchOK(t)', pc'[t] # "seal_swap",
         op'[t] = "batch" => \A u \in Threads \ {t} : op[u] # "batch"
  PROVE  LogInv'
<1>1. Frozen /\ Cur' = Cur /\ WritersKept /\ Tip' = Tip /\ Chain'
  BY SameChain DEF LogInv
<1>2. Tip \in Nat
  BY Bounds DEF LogInv
<1>3. HeldOK'
  <2>1. \A u \in Threads \ {t} : /\ Claimed(u)' = Claimed(u) /\ Pegged(u)' = Pegged(u)
                                 /\ HeldBy(u)' = HeldBy(u)
    BY BystanderKeeps
  <2>2. \A u \in Threads : \A r \in Claimed(u)', s \in Pegged(u)' : Apart(r, s)
    BY <2>1 DEF LogInv, HeldOK
  <2> QED
    BY <1>1, <2>1, <2>2, HeldFrame DEF LogInv
<1>4. DutiesOK'
  <2>1. \A u \in Threads : Duty(u)' = Duty(u) \/ (error' /\ Duty(u)' = 0)
    BY BystanderKeeps
  <2> QED
    BY <1>1, <2>1, DutiesFrame DEF LogInv
<1>5. Tip <= Tip' /\ max_reserved' < Tip' /\ \A x \in tasks' : x.stage = "synced" => x \in tasks
  BY SMTT(30), <1>1, <1>2
<1> QED
  BY <1>1, <1>3, <1>4, <1>5, LogStep

\* Every other thread stands by while one takes a step.
LEMMA OthersStandBy ==
  ASSUME IInv, NEW t \in Threads,
         Start(t) \/ Step(t) \/ BatchWrite(t) \/ BatchRead(t) \/ seal_batch(t)
  PROVE  \A u \in Threads \ {t} : Bystander(u)
<1> USE DEF IInv, LocalsOK, Bystander
<1>1. ASSUME NEW p, Wakes(p), ReturnOk(t, p) \/ ReturnErr(t, p) \/ SealReturn(t, p)
      PROVE  \A u \in Threads \ {t} : Bystander(u)
  <2>1. /\ p \in [Threads -> Labels]
        /\ \A u \in Threads : p[u] = pc[u] \/ (pc[u] = "waiting" /\ p[u] = "stable_body")
    BY <1>1, WakesType
  <2>2. CASE ReturnOk(t, p)
    BY <2>1, <2>2 DEF ReturnOk
  <2>3. CASE ReturnErr(t, p)
    BY <2>1, <2>3 DEF ReturnErr
  <2>4. CASE SealReturn(t, p)
    BY <2>1, <2>2, <2>4 DEF SealReturn
  <2> QED
    BY <1>1, <2>2, <2>3, <2>4
<1>2. CASE Start(t)
  <2>1. PICK o, label : Begin(t, o, label)
    BY <1>2 DEF Start, StartWrite, StartFlush, StartRead, StartRoll, pin_log
  <2>2. \A u \in Threads \ {t} : res'[u] = res[u] /\ goal'[u] = goal[u]
    BY <1>2 DEF Start, StartWrite, StartFlush, StartRead, StartRoll, pin_log
  <2> QED
    BY <2>1, <2>2 DEF Begin
<1>3. CASE ReserveError(t) \/ ReserveHeapError(t) \/ SealError(t)
  BY <1>1, <1>3, WakesPc DEF ReserveError, ReserveHeapError, SealError
<1>4. CASE ReserveLoad(t)
  BY <1>4 DEF ReserveLoad
<1>5. CASE ReserveClaim(t)
  BY <1>5 DEF ReserveClaim, ClaimIf
<1>6. CASE ReserveFill(t)
  BY <1>6 DEF ReserveFill
<1>7. CASE exit_reservation(t)
  BY <1>1, <1>7, WakesPc DEF exit_reservation, Leave
<1>8. CASE ExitSpawn(t)
  BY <1>1, <1>8, WakesPc DEF ExitSpawn
<1>9. CASE SealCas(t)
  BY <1>1, <1>9, WakesPc DEF SealCas
<1>10. CASE SealSwap(t)
  <2>1. /\ NotifyAll(pc) \in [Threads -> Labels]
        /\ \A u \in Threads : \/ NotifyAll(pc)[u] = pc[u]
                              \/ pc[u] = "waiting" /\ NotifyAll(pc)[u] = "stable_body"
    BY WakesPc, WakesType
  <2> QED
    BY <1>1, <1>10, <2>1, WakesPc DEF SealSwap, Install
<1>11. CASE SealSpawn(t)
  BY <1>1, <1>11, WakesPc DEF SealSpawn
<1>12. CASE roll_iobuf(t)
  BY <1>1, <1>12, WakesPc DEF roll_iobuf
<1>13. CASE PinSeal(t)
  BY <1>13 DEF PinSeal
<1>14. CASE mark_writebatch(t)
  BY <1>14 DEF mark_writebatch
<1>15. CASE StableCheck(t)
  BY <1>1, <1>15, WakesPc DEF StableCheck
<1>16. CASE StableBody(t)
  BY <1>1, <1>16, WakesPc DEF StableBody
<1>17. CASE StableLock(t)
  BY <1>1, <1>17, WakesPc DEF StableLock
<1>18. CASE BatchWrite(t) \/ BatchRead(t) \/ seal_batch(t)
  BY <1>18 DEF BatchWrite, BatchRead, seal_batch
<1> QED
  BY <1>2, <1>3, <1>4, <1>5, <1>6, <1>7, <1>8, <1>9, <1>10, <1>11, <1>12, <1>13,
     <1>14, <1>15, <1>16, <1>17, <1>18 DEF Step

\* A thread that returns keeps only its manifest, which it takes along as the
\* reservation to abort when it returns an error.
LEMMA ReturnOwn ==
  ASSUME IInv, NEW t \in Threads, SealerOK(t), BatchOK(t),
         NEW p, Wakes(p), ReturnOk(t, p) \/ ReturnErr(t, p),
         intervals' = intervals, max_reserved' \in Int, max_reserved <= max_reserved'
  PROVE  /\ HeldBy(t)' = Pegged(t) /\ (\A r \in Claimed(t)', s \in Pegged(t)' : Apart(r, s))
         /\ Duty(t)' = 0 /\ SealerOK(t)' /\ BatchOK(t)'
         /\ pc'[t] \in {"idle", "batch", "exit"} /\ op'[t] \in {op[t], "none"}
<1>1. /\ p \in [Threads -> Labels] /\ op \in [Threads -> OpNames \cup {"none"}]
      /\ seen \in [Threads -> SeenType \cup {None}]
      /\ res \in [Threads -> ResType \cup {None}] /\ peg \in [Threads -> ResType \cup {None}]
      /\ goal \in [Threads -> Lsn \cup {None}]
  BY WakesType DEF IInv, LocalsOK
<1>2. /\ max_reserved \in Int
      /\ peg[t] # None => peg[t].lsn \in Nat /\ peg[t].len \in Nat
  BY SMTT(30), <1>1 DEF IInv, SharedOK, Lsn, ResType
<1>3. CASE ReturnOk(t, p)
  <2>1. /\ pc'[t] = (IF peg[t] = None THEN "idle" ELSE "batch")
        /\ op'[t] = (IF peg[t] = None THEN "none" ELSE op[t])
        /\ seen'[t] = None /\ res'[t] = None /\ goal'[t] = None /\ peg'[t] = peg[t]
    BY <1>1, <1>3 DEF ReturnOk
  <2>2. HeldBy(t)' = Pegged(t) /\ Claimed(t)' = {} /\ Duty(t)' = 0
    BY <2>1 DEF HeldBy, Claimed, Pegged, Duty
  <2>3. SealerOK(t)'
    BY <2>1 DEF SealerOK
  <2>4. BatchOK(t)'
    <3>1. CASE peg[t] = None
      BY <2>1, <3>1 DEF BatchOK
    <3>2. CASE peg[t] # None
      BY SMTT(30), <1>2, <2>1, <3>2 DEF BatchOK
    <3> QED
      BY <3>1, <3>2
  <2> QED
    BY <2>1, <2>2, <2>3, <2>4
<1>4. CASE ReturnErr(t, p)
  <2>1. /\ pc'[t] = (IF peg[t] = None THEN "idle" ELSE "exit")
        /\ op'[t] = (IF peg[t] = None THEN "none" ELSE op[t])
        /\ seen'[t] = None /\ res'[t] = peg[t] /\ goal'[t] = None /\ peg'[t] = None
    BY <1>1, <1>4 DEF ReturnErr
  <2>2. HeldBy(t)' = Pegged(t) /\ Pegged(t)' = {} /\ Duty(t)' = 0
    BY <2>1 DEF HeldBy, Claimed, Pegged, Duty
  <2>3. SealerOK(t)'
    BY <2>1 DEF SealerOK
  <2>4. BatchOK(t)'
    BY <2>1 DEF BatchOK
  <2> QED
    BY <2>1, <2>2, <2>3, <2>4
<1> QED
  BY <1>3, <1>4

\* A thread that goes on to another place and changes neither what it holds nor its
\* operation; what it loaded and what it waits for may change.
LEMMA GotoQuiet ==
  ASSUME IInv, IInv', LogInv, NEW t \in Threads,
         UNCHANGED <<bufs, tasks, disk, intervals, stable_lsn, max_reserved, error>>,
         \A u \in Threads \ {t} : Bystander(u), op'[t] = op[t], peg'[t] = peg[t],
         pc[t] \notin {"bump", "exit", "idle"}, Duty(t) = 0,
         pc'[t] \notin {"bump", "exit", "exit_spawn", "seal_swap", "seal_spawn", "idle"},
         res'[t] # None => res'[t].len > 1,
         pc'[t] = "claim" =>
            bufs[seen'[t].buf].capacity - seen'[t].header.offset >= MaxMsgHeaderLen,
         pc'[t] = "mark_writebatch" =>
            peg[t].lsn + peg[t].len - 1 <= goal'[t] /\ goal'[t] < Tip
  PROVE  LogInv'
<1>1. SealerOK(t) /\ BatchOK(t) /\ max_reserved \in Int /\ max_reserved < Tip /\ Tip' = Tip
  BY SameChain, IntervalTypes DEF LogInv, BatchesOK
<1>2. HeldBy(t)' = HeldBy(t) /\ Claimed(t)' = {} /\ Duty(t)' = 0
  BY DEF HeldBy, Claimed, Pegged, Duty
<1>3. SealerOK(t)'
  BY <1>1 DEF SealerOK
<1>4. BatchOK(t)'
  BY <1>1 DEF BatchOK
<1>5. op'[t] = "batch" => \A u \in Threads \ {t} : op[u] # "batch"
  BY DEF LogInv, AloneOK
<1>6. max_reserved <= max_reserved' /\ max_reserved' < Tip
  BY SMTT(30), <1>1
<1>7. /\ HeldBy(t)' \subseteq HeldBy(t) /\ (\A r \in Claimed(t)', s \in Pegged(t)' : Apart(r, s))
      /\ Duty(t)' = Duty(t) /\ pc'[t] # "seal_swap"
  BY <1>2
<1>8. UNCHANGED <<bufs, tasks, disk, intervals, stable_lsn>> /\ (error => error')
  OBVIOUS
<1> QED
  BY <1>2, <1>3, <1>4, <1>5, <1>6, <1>7, <1>8, QuietStep

\* Whatever is held lies in its buffer and below the end of the log.
LEMMA HeldLong ==
  ASSUME IInv, LogInv, NEW t \in Threads, NEW r \in HeldBy(t)
  PROVE  /\ Inside(r) /\ r \in ResType /\ r.buf \in 1..Cur
         /\ r.lsn \in Nat /\ r.len \in Nat /\ r.len > 1
         /\ r.lsn \in Extent(bufs[r.buf]) /\ r.lsn + r.len <= End(bufs[r.buf])
         /\ r.lsn + r.len <= Tip /\ Tip \in Nat
<1>1. Inside(r)
  BY DEF LogInv, HeldOK
<1>2. r \in ResType /\ r # None
  BY <1>1, NoneAssumption DEF Inside
<1>3. r \in {res[t], peg[t]}
  BY DEF HeldBy, Claimed, Pegged
<1>4. r.len \in Nat /\ r.len > 1
  BY <1>2, <1>3 DEF LogInv, SealerOK, ResType
<1> QED
  BY SMTT(30), <1>1, <1>2, <1>4, HeldWithin, Bounds DEF LogInv

\* A thread that returns from maybe_seal_and_write_iobuf keeps what it holds.
LEMMA SealReturnOwn ==
  ASSUME IInv, NEW t \in Threads, SealerOK(t), BatchOK(t),
         pc[t] \in {"seal_cas", "seal_swap", "seal_spawn"},
         NEW p, Wakes(p), SealReturn(t, p), intervals' = intervals, max_reserved' = max_reserved
  PROVE  /\ HeldBy(t)' = HeldBy(t) /\ (\A r \in Claimed(t)', s \in Pegged(t)' : Apart(r, s))
         /\ Duty(t)' = 0 /\ SealerOK(t)' /\ BatchOK(t)'
         /\ pc'[t] # "seal_swap" /\ op'[t] \in {op[t], "none"}
<1>1. max_reserved \in Int /\ HeldBy(t) = Pegged(t)
  <2>1. max_reserved \in Int
    BY IntervalTypes
  <2> QED
    BY <2>1 DEF HeldBy, Claimed
<1>2. CASE seen[t].after = "idle"
  <2>1. /\ ReturnOk(t, p) /\ max_reserved' \in Int /\ max_reserved <= max_reserved'
    BY SMTT(30), <1>1, <1>2 DEF SealReturn
  <2> QED
    BY <1>1, <2>1, ReturnOwn
<1>3. CASE seen[t].after # "idle"
  <2>1. seen[t].after \in {"reserve", "batch", "stable_check"}
    BY <1>3 DEF IInv, LocalsOK, ThreadOK, SeenType
  <2>2. p \in [Threads -> Labels]
    BY WakesType DEF IInv, LocalsOK
  <2>3. /\ pc'[t] = seen[t].after /\ op'[t] = op[t] /\ res'[t] = res[t]
        /\ peg'[t] = peg[t]
    BY <1>3, <2>2 DEF SealReturn
  <2>4. HeldBy(t)' = HeldBy(t) /\ Claimed(t)' = {} /\ Duty(t)' = 0
    BY <1>1, <2>1, <2>3 DEF HeldBy, Claimed, Pegged, Duty
  <2>5. SealerOK(t)'
    BY <2>1, <2>3 DEF SealerOK
  <2>6. BatchOK(t)'
    BY <2>1, <2>3 DEF BatchOK
  <2> QED
    BY <2>1, <2>3, <2>4, <2>5, <2>6
<1> QED
  BY <1>2, <1>3

\* What is held is not stable: its buffer is not written.
LEMMA HeldIsNotStable ==
  ASSUME IInv, LogInv, NEW t \in Threads, NEW r \in HeldBy(t)
  PROVE  intervals.stable < r.lsn /\ stable_lsn < r.lsn
<1>1. /\ r.buf \in 1..Cur /\ r.lsn \in Nat /\ r.lsn \in Extent(bufs[r.buf])
      /\ r.lsn \in bufs[r.buf].writers /\ bufs[r.buf].lsn <= r.lsn
  BY HeldLong DEF Inside
<1>2. /\ intervals.stable \in Int /\ stable_lsn \in Int /\ stable_lsn <= intervals.stable
      /\ disk \subseteq 1..Cur
  BY SMTT(30) DEF IInv, SharedOK, IntervalsType, Lsn, IntervalsOK, DiskOK
<1>3. StartLsn \in Nat /\ StartLsn <= bufs[r.buf].lsn /\ bufs[r.buf].lsn \in Nat
  BY <1>1, WithinLog, CurType DEF LogInv, IInv, BufType
<1>4. ASSUME r.lsn <= intervals.stable PROVE FALSE
  <2>1. r.lsn \in StartLsn..intervals.stable
    BY SMTT(30), <1>1, <1>2, <1>3, <1>4
  <2>2. PICK i \in disk : r.lsn \in Extent(bufs[i])
    BY <2>1 DEF LogInv, MarksOK
  <2>3. i = r.buf
    BY <1>1, <1>2, <2>2, ExtentsDisjoint DEF LogInv
  <2> QED
    BY <1>1, <2>2, <2>3 DEF LogInv, DutiesOK
<1> QED
  BY SMTT(30), <1>1, <1>2, <1>4
----------------------------------------------------------------------------
(* What the two invariants imply.                                          *)

\* The members of Held are what threads hold.
LEMMA HeldIs ==
  ASSUME NEW h \in Held
  PROVE  h[1] \in Threads /\ h[2] \in HeldBy(h[1]) /\ h = <<h[1], h[2]>>
BY SMTT(30) DEF Held, HeldBy, Claimed, Pegged

\* The invariants rule aliasing out.
LEMMA Unaliased == IInv /\ LogInv => NoAliasing
<1> SUFFICES ASSUME IInv, LogInv PROVE NoAliasing
  OBVIOUS
<1>1. ASSUME NEW r, NEW s, Apart(r, s), r.lsn \in Nat, r.len \in Nat, s.lsn \in Nat, s.len \in Nat
      PROVE  Bytes(r) \cap Bytes(s) = {}
  BY SMTT(30), <1>1 DEF Apart, Bytes
<1>2. ASSUME NEW h \in Held, NEW k \in Held, h # k
      PROVE  Bytes(h[2]) \cap Bytes(k[2]) = {}
  <2>1. PICK t, r : t \in Threads /\ r \in HeldBy(t) /\ h = <<t, r>> /\ h[2] = r
    BY HeldIs
  <2>2. PICK u, s : u \in Threads /\ s \in HeldBy(u) /\ k = <<u, s>> /\ k[2] = s
    BY HeldIs
  <2>3. Apart(r, s)
    <3>1. CASE t # u
      BY <2>1, <2>2, <3>1 DEF LogInv, HeldOK
    <3>2. CASE t = u
      <4>1. r # s
        BY <1>2, <2>1, <2>2, <3>2
      <4>2. \/ r \in Claimed(t) /\ s \in Pegged(t)
            \/ s \in Claimed(t) /\ r \in Pegged(t)
        BY <2>1, <2>2, <3>2, <4>1 DEF HeldBy, Claimed, Pegged
      <4> QED
        BY <2>1, <4>2 DEF LogInv, HeldOK, Apart
    <3> QED
      BY <3>1, <3>2
  <2>4. r.lsn \in Nat /\ r.len \in Nat /\ s.lsn \in Nat /\ s.len \in Nat
    BY <2>1, <2>2, HeldLong
  <2> QED
    BY <1>1, <2>1, <2>2, <2>3, <2>4
<1>3. \A x \in Writing : x \in tasks /\ x.buf \in 1..Cur /\ bufs[x.buf].writers = {}
  BY DEF Writing, IInv, SharedOK, DiskOK, LogInv, DutiesOK
<1>4. ASSUME NEW h \in Held, NEW x \in Writing
      PROVE  Bytes(h[2]) \cap Extent(bufs[x.buf]) = {}
  <2>1. PICK t, r : t \in Threads /\ r \in HeldBy(t) /\ h = <<t, r>> /\ h[2] = r
    BY HeldIs
  <2>2. /\ r.buf \in 1..Cur /\ r.lsn \in bufs[r.buf].writers /\ r.lsn \in Nat /\ r.len \in Nat
        /\ bufs[r.buf].lsn <= r.lsn /\ r.lsn + r.len <= End(bufs[r.buf])
    BY <2>1, HeldLong DEF Inside
  <2>3. bufs[r.buf].lsn \in Nat /\ End(bufs[r.buf]) \in Nat
    BY <2>2, BufEnds DEF LogInv, BufType
  <2>4. Bytes(r) \subseteq Extent(bufs[r.buf])
    BY SMTT(30), <2>2, <2>3 DEF Bytes, Extent
  <2>5. r.buf # x.buf
    BY <1>3, <2>2
  <2>6. Extent(bufs[r.buf]) \cap Extent(bufs[x.buf]) = {}
    BY <1>3, <2>2, <2>5, ExtentsDisjoint DEF LogInv
  <2> QED
    BY <2>1, <2>4, <2>6
<1>5. ASSUME NEW x \in Writing, NEW y \in Writing, x # y
      PROVE  Extent(bufs[x.buf]) \cap Extent(bufs[y.buf]) = {}
  <2>1. x.buf # y.buf
    BY <1>3, <1>5 DEF LogInv, DutiesOK
  <2> QED
    BY <1>3, <2>1, ExtentsDisjoint DEF LogInv
<1> QED
  BY <1>2, <1>4, <1>5 DEF NoAliasing

\* The invariants keep reservations out of the red zone.
LEMMA InSegments == IInv /\ LogInv => RedZoneRespected
<1> SUFFICES ASSUME IInv, LogInv, NEW h \in Held
             PROVE  /\ h[2].lsn + h[2].len <= NextSegment(h[2].lsn)
                    /\ NextSegment(h[2].lsn) - h[2].lsn >= MaxMsgHeaderLen
  BY DEF RedZoneRespected
<1>1. PICK t, r : t \in Threads /\ r \in HeldBy(t) /\ h[2] = r
  BY HeldIs
<1>2. /\ Inside(r) /\ r.buf \in 1..Cur /\ r.lsn \in Nat /\ r.len \in Nat /\ r.len > 1
      /\ r.lsn + r.len <= End(bufs[r.buf])
  BY <1>1, HeldLong
<1> DEFINE b == bufs[r.buf]
<1>3. /\ b \in BufType /\ End(b) \in Nat /\ End(b) <= b.lsn + b.capacity
      /\ b.lsn + b.capacity = NextSegment(b.lsn)
  BY <1>2, BufEnds DEF LogInv, Chain
<1>4. b.lsn \in Nat /\ b.capacity \in Nat /\ b.lsn <= r.lsn
      /\ b.lsn + b.capacity - r.lsn >= MaxMsgHeaderLen
  BY <1>2, <1>3 DEF BufType, Inside
<1> HIDE DEF b
<1>5. r.lsn < NextSegment(b.lsn) /\ r.lsn + r.len <= NextSegment(b.lsn)
  BY SMTT(30), <1>2, <1>3, <1>4 DEF b
<1>6. NextSegment(r.lsn) = NextSegment(b.lsn)
  BY <1>2, <1>4, <1>5, SameSegment
<1>7. r.lsn + r.len <= NextSegment(r.lsn) /\ NextSegment(r.lsn) - r.lsn >= MaxMsgHeaderLen
  BY SMTT(30), <1>2, <1>3, <1>4, <1>5, <1>6, SizeAssumption
<1> QED
  BY <1>1, <1>7

\* The invariants leave one owner to a buffer that is ready to be written.
LEMMA OwnedOnce ==
  ASSUME \A x : Cardinality({x}) = 1
  PROVE  IInv /\ LogInv => WrittenExactlyOnce
<1> SUFFICES ASSUME IInv, LogInv, NEW i \in 1..Cur
             PROVE  IF bufs[i].sealed /\ bufs[i].writers = {}
                    THEN Cardinality(Owners(i)) = 1 \/ (error /\ Owners(i) = {})
                    ELSE Owners(i) = {}
  BY DEF WrittenExactlyOnce
<1>1. DutiesOK /\ DiskOK /\ i # 0
  BY SMTT(30), CurType DEF LogInv, IInv, SharedOK
<1>2. ASSUME NEW o \in Owners(i)
      PROVE  \/ \E t \in Threads : o = <<"sealer", t>> /\ Duty(t) = i /\ pc[t] # "exit_spawn"
             \/ \E t \in Threads : o = <<"last writer", t>> /\ Duty(t) = i /\ pc[t] = "exit_spawn"
             \/ \E x \in tasks : o = <<"task", x>> /\ x.stage = "queued" /\ x.buf = i
             \/ o = <<"done", i>> /\ i \in disk
  BY <1>2 DEF Owners, Writing, Duty
<1>3. /\ \A t \in Threads : Duty(t) = i =>
          /\ bufs[i].sealed /\ bufs[i].writers = {} /\ i \notin disk /\ ~Queued(i)
          /\ \A u \in Threads : Duty(u) = i => u = t
      /\ \A x \in tasks : x.buf = i /\ x.stage = "queued" =>
          /\ bufs[i].sealed /\ bufs[i].writers = {} /\ i \notin disk /\ Queued(i)
          /\ \A y \in tasks : y.buf = i => y = x
      /\ i \in disk => bufs[i].sealed /\ bufs[i].writers = {}
  BY SMTT(30), <1>1 DEF DutiesOK, DiskOK, Queued
<1>4. ASSUME NEW o \in Owners(i)
      PROVE  bufs[i].sealed /\ bufs[i].writers = {} /\ \A p \in Owners(i) : p = o
  <2>1. CASE \E t \in Threads : o = <<"sealer", t>> /\ Duty(t) = i /\ pc[t] # "exit_spawn"
    <3>1. PICK t \in Threads : o = <<"sealer", t>> /\ Duty(t) = i /\ pc[t] # "exit_spawn"
      BY <2>1
    <3>2. ASSUME NEW p \in Owners(i)
          PROVE  \/ \E u \in Threads : p = <<"sealer", u>> /\ Duty(u) = i /\ pc[u] # "exit_spawn"
                 \/ \E u \in Threads : p = <<"last writer", u>> /\ Duty(u) = i /\ pc[u] = "exit_spawn"
      <4>1. i \notin disk /\ \A x \in tasks : ~(x.buf = i /\ x.stage = "queued")
        BY <1>3, <3>1
      <4> QED
        BY <1>2, <3>2, <4>1
    <3> QED
      BY <1>3, <3>1, <3>2
  <2>2. CASE \E t \in Threads : o = <<"last writer", t>> /\ Duty(t) = i /\ pc[t] = "exit_spawn"
    <3>1. PICK t \in Threads : o = <<"last writer", t>> /\ Duty(t) = i /\ pc[t] = "exit_spawn"
      BY <2>2
    <3>2. ASSUME NEW p \in Owners(i)
          PROVE  \/ \E u \in Threads : p = <<"sealer", u>> /\ Duty(u) = i /\ pc[u] # "exit_spawn"
                 \/ \E u \in Threads : p = <<"last writer", u>> /\ Duty(u) = i /\ pc[u] = "exit_spawn"
      <4>1. i \notin disk /\ \A x \in tasks : ~(x.buf = i /\ x.stage = "queued")
        BY <1>3, <3>1
      <4> QED
        BY <1>2, <3>2, <4>1
    <3> QED
      BY <1>3, <3>1, <3>2
  <2>3. CASE \E x \in tasks : o = <<"task", x>> /\ x.stage = "queued" /\ x.buf = i
    <3>1. PICK x \in tasks : o = <<"task", x>> /\ x.stage = "queued" /\ x.buf = i
      BY <2>3
    <3>2. ASSUME NEW p \in Owners(i) PROVE \E y \in tasks : p = <<"task", y>> /\ y.buf = i
      BY <1>2, <1>3, <3>1, <3>2
    <3> QED
      BY <1>3, <3>1, <3>2
  <2>4. CASE o = <<"done", i>> /\ i \in disk
    <3>1. ASSUME NEW p \in Owners(i) PROVE p = <<"done", i>>
      BY <1>2, <1>3, <2>4, <3>1
    <3> QED
      BY <1>3, <2>4, <3>1
  <2> QED
    BY <1>2, <1>4, <2>1, <2>2, <2>3, <2>4
<1>5. CASE bufs[i].sealed /\ bufs[i].writers = {}
  <2>1. error \/ Owners(i) # {}
    <3>1. error \/ i \in disk \/ Queued(i) \/ \E t \in Threads : Duty(t) = i
      BY <1>1, <1>5 DEF DutiesOK
    <3>2. i \in disk => <<"done", i>> \in Owners(i)
      BY DEF Owners
    <3>3. Queued(i) => Owners(i) # {}
      BY DEF Owners, Queued, Writing
    <3>4. ASSUME NEW t \in Threads, Duty(t) = i PROVE Owners(i) # {}
      <4>1. CASE pc[t] = "exit_spawn"
        <5>1. <<"last writer", t>> \in Owners(i)
          BY <3>4, <4>1 DEF Duty, Owners
        <5> QED
          BY <5>1
      <4>2. CASE pc[t] # "exit_spawn"
        <5>1. /\ pc[t] \in {"seal_swap", "seal_spawn"}
              /\ seen[t].header.writers = {} /\ seen[t].buf = i
          BY <1>1, <3>4, <4>2 DEF Duty
        <5>2. <<"sealer", t>> \in Owners(i)
          BY <5>1 DEF Owners
        <5> QED
          BY <5>2
      <4> QED
        BY <4>1, <4>2
    <3> QED
      BY <3>1, <3>2, <3>3, <3>4
  <2>2. ASSUME NEW o \in Owners(i) PROVE Cardinality(Owners(i)) = 1
    <3>1. Owners(i) = {o}
      BY <1>4, <2>2
    <3> QED
      BY <3>1
  <2> QED
    BY <1>5, <2>1, <2>2
<1> QED
  BY <1>4, <1>5

\* The invariants give every counted writer a holder, unless heap writes fail.
LEMMA WritersCounted ==
  ASSUME HeapErrors = FALSE
  PROVE  IInv /\ LogInv => WritersAreHeld
<1> SUFFICES ASSUME IInv, LogInv, NEW i \in 1..Cur, NEW lsn \in bufs[i].writers
             PROVE  \E h \in Held : h[2].buf = i /\ h[2].lsn = lsn
  BY DEF WritersAreHeld
<1>1. PICK t, r : t \in Threads /\ r \in HeldBy(t) /\ r.buf = i /\ r.lsn = lsn
  BY SMTT(30) DEF LogInv, HeldOK, Counted
<1>2. <<t, r>> \in Held
  BY <1>1 DEF Held, HeldBy, Claimed, Pegged
<1> QED
  BY <1>1, <1>2

\* The invariants imply the assertions of StabilityIntervals.
LEMMA Asserted == IInv /\ LogInv => AssertionsHold
<1>1. IInv /\ LogInv => IntervalsAreNew
  <2> SUFFICES ASSUME IInv, LogInv, NEW x \in tasks, x.stage = "synced",
                      NEW lsn \in Extent(bufs[x.buf])
               PROVE  lsn > intervals.stable /\ lsn \notin intervals.synced
    BY DEF IntervalsAreNew
  <2>1. x.buf \in 1..Cur /\ disk \subseteq 1..Cur /\ Unmarked(x.buf)
    BY DEF IInv, SharedOK, DiskOK, Unmarked
  <2>2. /\ intervals.stable \in Int /\ lsn \in Int /\ StartLsn \in Nat /\ StartLsn <= lsn
    <3>1. bufs[x.buf] \in BufType /\ StartLsn \in Nat /\ StartLsn <= bufs[x.buf].lsn
          /\ End(bufs[x.buf]) \in Nat
      BY <2>1, BufEnds, WithinLog DEF LogInv
    <3>2. intervals.stable \in Int
      BY IntervalTypes
    <3>3. bufs[x.buf].lsn \in Nat
      BY <3>1 DEF BufType
    <3> QED
      BY SMTT(30), <3>1, <3>2, <3>3 DEF Extent
  <2>3. lsn \notin intervals.synced \cup (StartLsn..intervals.stable)
    <3>1. SUFFICES ASSUME NEW i \in disk, lsn \in Extent(bufs[i]), ~Unmarked(i) PROVE FALSE
      BY DEF LogInv, MarksOK
    <3>2. i = x.buf
      BY <2>1, <3>1, ExtentsDisjoint DEF LogInv
    <3> QED
      BY <2>1, <3>1, <3>2
  <2> QED
    BY SMTT(30), <2>2, <2>3
<1>2. IInv /\ LogInv => BatchMarksAreOrdered
  <2> SUFFICES ASSUME IInv, LogInv, NEW t \in Threads, pc[t] = "mark_writebatch"
               PROVE  /\ intervals.stable < peg[t].lsn /\ peg[t].lsn < goal[t]
                      /\ \A b \in intervals.batches : b.high < peg[t].lsn
    BY DEF BatchMarksAreOrdered
  <2>1. peg[t] # None /\ goal[t] \in Int
    BY SMTT(30) DEF IInv, LocalsOK, ThreadOK, Place, Batching, Stabilizing, Lsn
  <2>2. peg[t] \in HeldBy(t)
    BY <2>1 DEF HeldBy, Pegged
  <2>3. peg[t].lsn \in Nat /\ peg[t].len \in Nat /\ peg[t].len > 1 /\ intervals.stable < peg[t].lsn
    BY <2>2, HeldLong, HeldIsNotStable
  <2>4. BatchOK(t)
    BY DEF LogInv
  <2> QED
    BY SMTT(30), <2>1, <2>3, <2>4 DEF BatchOK
<1> QED
  BY <1>1, <1>2 DEF AssertionsHold

\* The invariants keep the stable LSN out of every batch.
LEMMA BatchesWhole == IInv /\ LogInv => BatchesStabilizeAtomically
<1> SUFFICES ASSUME IInv, LogInv PROVE BatchesStabilizeAtomically
  OBVIOUS
<1>1. ASSUME NEW t \in Threads, peg[t] # None PROVE stable_lsn < peg[t].lsn
  <2>1. peg[t] \in HeldBy(t)
    BY <1>1 DEF HeldBy, Pegged
  <2> QED
    BY <2>1, HeldIsNotStable
<1>2. ASSUME NEW b \in intervals.batches PROVE stable_lsn < b.low /\ stable_lsn < b.high
  <2>1. stable_lsn \in Int /\ b.low \in Int /\ b.high \in Int
    BY IntervalTypes
  <2> QED
    BY SMTT(30), <2>1 DEF LogInv, BatchesOK
<1> QED
  BY <1>1, <1>2 DEF BatchesStabilizeAtomically
============================================================================
