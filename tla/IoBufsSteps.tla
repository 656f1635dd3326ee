---------------------------- MODULE IoBufsSteps ----------------------------
(***************************************************************************)
(* Every step of IoBufs preserves the first invariant; what the operators  *)
(* of Intervals compute, which the marks of the threadpool need.           *)
(***************************************************************************)
EXTENDS IoBufsFrames
USE ZenonT(30)

(* What steps leave alone.                                                 *)

\* A thread keeps its place while another one changes only what is not frozen.
LEMMA BystanderOK ==
  ASSUME SharedOK, Frozen, Cur \in Nat, Cur' \in Nat,
         NEW u \in Threads, ThreadOK(u), HandoverOK(u), Bystander(u)
  PROVE  ThreadOK(u)' /\ HandoverOK(u)'
<1>1. ThreadOK(u)'
  BY SMTT(30) DEF ThreadOK, Bystander, Frozen, Place, Reserving, Batching, Stabilizing
<1>2. HandoverOK(u)'
  BY DEF ThreadOK, HandoverOK, Bystander, Frozen, Place, Reserving
<1> QED
  BY <1>1, <1>2

\* A step by thread t on its own locals, seen as a whole.
LEMMA LocalsStep ==
  ASSUME LocalsOK, SharedOK, Frozen, Cur \in Nat, Cur' \in Nat, NEW t \in Threads,
         pc' \in [Threads -> Labels], op' \in [Threads -> OpNames \cup {"none"}],
         seen' \in [Threads -> SeenType \cup {None}],
         res' \in [Threads -> ResType \cup {None}],
         peg' \in [Threads -> ResType \cup {None}],
         goal' \in [Threads -> Lsn \cup {None}],
         ThreadOK(t)', HandoverOK(t)', \A u \in Threads \ {t} : Bystander(u)
  PROVE  LocalsOK'
<1>1. ASSUME NEW u \in Threads PROVE ThreadOK(u)' /\ HandoverOK(u)'
  BY BystanderOK DEF LocalsOK
<1> QED
  BY <1>1 DEF LocalsOK

\* Returning from an operation leaves every thread in a proper place.
LEMMA ReturnOkLocals ==
  ASSUME LocalsOK, SharedOK, Frozen, Cur \in Nat, Cur' \in Nat, NEW t \in Threads,
         NEW p, Wakes(p), ReturnOk(t, p)
  PROVE  LocalsOK'
<1> USE DEF LocalsOK, ReturnOk
<1>1. p \in [Threads -> Labels]
  BY WakesType
<1>2. ThreadOK(t)'
  BY SMTT(30), <1>1 DEF ThreadOK, Place, Frozen, Reserving, Batching, Stabilizing
<1>3. HandoverOK(t)'
  BY <1>1 DEF HandoverOK
<1>4. ASSUME NEW u \in Threads \ {t} PROVE Bystander(u)
  BY <1>1, WakesType DEF Bystander
<1>5. pc' \in [Threads -> Labels]
  BY <1>1 DEF Labels
<1> QED
  BY <1>2, <1>3, <1>4, <1>5, LocalsStep

\* So does returning an error, to the top or into the abort of a manifest.
LEMMA ReturnErrLocals ==
  ASSUME LocalsOK, SharedOK, Frozen, Cur \in Nat, Cur' \in Nat, NEW t \in Threads,
         NEW p, Wakes(p), ReturnErr(t, p)
  PROVE  LocalsOK'
<1> USE DEF LocalsOK, ReturnErr
<1>1. p \in [Threads -> Labels]
  BY WakesType
<1>2. ThreadOK(t)'
  BY SMTT(30), <1>1 DEF ThreadOK, Place, Frozen, Reserving, Batching, Stabilizing
<1>3. HandoverOK(t)'
  BY <1>1 DEF HandoverOK
<1>4. ASSUME NEW u \in Threads \ {t} PROVE Bystander(u)
  BY <1>1, WakesType DEF Bystander
<1>5. pc' \in [Threads -> Labels]
  BY <1>1 DEF Labels
<1> QED
  BY <1>2, <1>3, <1>4, <1>5, LocalsStep

\* So does returning from maybe_seal_and_write_iobuf to one of its callers.
LEMMA SealReturnLocals ==
  ASSUME LocalsOK, SharedOK, Frozen, Cur \in Nat, Cur' \in Nat, NEW t \in Threads,
         pc[t] \in {"seal_cas", "seal_swap", "seal_spawn"},
         NEW p, Wakes(p), SealReturn(t, p)
  PROVE  LocalsOK'
<1>1. CASE seen[t].after = "idle"
  BY <1>1, ReturnOkLocals DEF SealReturn
<1>2. CASE seen[t].after # "idle"
  <2> USE DEF LocalsOK
  <2>1. p \in [Threads -> Labels]
    BY WakesType
  <2>2. /\ pc' = [p EXCEPT ![t] = seen[t].after]
        /\ seen' = [seen EXCEPT ![t] = None]
        /\ UNCHANGED <<op, res, peg, goal>>
    BY <1>2 DEF SealReturn
  <2>3. seen[t] \in SeenType /\ seen[t].after \in {"reserve", "batch", "stable_check"}
    BY <1>2 DEF ThreadOK, SeenType
  <2>4. ThreadOK(t)'
    BY SMTT(30), <2>1, <2>2, <2>3
       DEF ThreadOK, Place, Frozen, Reserving, Batching, Stabilizing
  <2>5. HandoverOK(t)'
    BY <2>1, <2>2, <2>3 DEF HandoverOK
  <2>6. ASSUME NEW u \in Threads \ {t} PROVE Bystander(u)
    BY <2>1, <2>2, WakesType DEF Bystander
  <2>7. pc' \in [Threads -> Labels] /\ seen' \in [Threads -> SeenType \cup {None}]
    BY <2>1, <2>2, <2>3 DEF Labels
  <2> QED
    BY <2>2, <2>4, <2>5, <2>6, <2>7, LocalsStep
<1> QED
  BY <1>1, <1>2

\* What is on disk stays there.
LEMMA OnDiskStays ==
  ASSUME SharedOK, Frozen, Cur' \in Nat, disk \subseteq disk', NEW lsn, OnDisk(lsn)
  PROVE  OnDisk(lsn)'
<1>1. PICK i \in disk : lsn \in Extent(bufs[i])
  BY DEF OnDisk
<1>2. i \in 1..Cur /\ bufs[i].sealed
  BY <1>1 DEF SharedOK, DiskOK
<1>3. Extent(bufs'[i]) = Extent(bufs[i])
  BY <1>2 DEF Frozen, Extent, End
<1> QED
  BY <1>1, <1>3 DEF OnDisk

\* A step that writes nothing to disk and folds nothing into the intervals.
LEMMA SharedStep ==
  ASSUME SharedOK, Frozen, Cur' \in Nat,
         bufs' \in Seq(BufType), bufs' # <<>>, BufsOK', disk' = disk,
         intervals' \in IntervalsType, stable_lsn' = stable_lsn,
         intervals'.synced = intervals.synced, intervals'.stable = intervals.stable,
         max_reserved' \in Lsn, error' \in BOOLEAN, page' \in Nat \cup {None},
         tasks' \subseteq TaskType,
         \A x \in tasks' : \/ x \in tasks
                           \/ x.buf \in 1..Cur /\ bufs[x.buf].sealed /\ x.stage = "queued"
  PROVE  SharedOK'
<1> USE CurType
<1>1. DiskOK'
  <2>1. \A i \in 1..Cur : i \in 1..Cur' /\ (bufs[i].sealed => bufs'[i].sealed)
    BY SMTT(30) DEF Frozen
  <2>2. disk' \subseteq 1..Cur' /\ \A i \in disk' : bufs'[i].sealed
    BY <2>1 DEF SharedOK, DiskOK
  <2>3. ASSUME NEW x \in tasks'
        PROVE  /\ x.buf \in 1..Cur /\ bufs[x.buf].sealed
               /\ x.stage = "synced" => x.buf \in disk
    BY <2>3 DEF SharedOK, DiskOK
  <2>4. ASSUME NEW x \in tasks'
        PROVE  /\ x.buf \in 1..Cur' /\ bufs'[x.buf].sealed
               /\ x.stage = "synced" => x.buf \in disk'
    BY <2>1, <2>3
  <2> QED
    BY <2>2, <2>4 DEF DiskOK
<1>2. IntervalsOK'
  <2>1. ASSUME NEW lsn \in intervals'.synced PROVE OnDisk(lsn)'
    BY <2>1, OnDiskStays DEF SharedOK, IntervalsOK
  <2>2. ASSUME NEW lsn \in StartLsn'..intervals'.stable PROVE OnDisk(lsn)'
    BY <2>2, OnDiskStays, StartStays DEF SharedOK, IntervalsOK
  <2> QED
    BY <2>1, <2>2 DEF SharedOK, IntervalsOK
<1> QED
  BY <1>1, <1>2 DEF SharedOK, IntervalsType

\* The same when no buffer changes either.
LEMMA SharedKeepsBufs ==
  ASSUME SharedOK, UNCHANGED <<bufs, disk, intervals, stable_lsn>>,
         max_reserved' \in Lsn, error' \in BOOLEAN, page' \in Nat \cup {None},
         tasks' \subseteq TaskType,
         \A x \in tasks' : \/ x \in tasks
                           \/ x.buf \in 1..Cur /\ bufs[x.buf].sealed /\ x.stage = "queued"
  PROVE  SharedOK' /\ Frozen /\ Cur' = Cur
<1>1. Frozen /\ Cur' = Cur /\ BufsOK'
  BY SameBufs
<1> QED
  BY <1>1, CurType, SharedStep DEF SharedOK

\* A step on thread-local state alone keeps the shared part of the invariant.
LEMMA SharedUnchanged ==
  ASSUME SharedOK, UNCHANGED <<shared, page>>
  PROVE  SharedOK' /\ Frozen /\ Cur' = Cur
BY SharedKeepsBufs DEF SharedOK, shared
----------------------------------------------------------------------------
(* Reservations.                                                           *)

\* A reservation that is wanted has a length.
LEMMA WantedType ==
  ASSUME NEW len \in MsgLens \cup {ManifestLen}
  PROVE  Wanted(len) \in ResType
BY SizeAssumption DEF Wanted, ResType

\* What a thread loads before its compare-and-swap is a header and a way back.
LEMMA LoadType ==
  ASSUME SharedOK, NEW i \in 1..Cur, NEW full \in BOOLEAN,
         NEW after \in {"idle", "reserve", "batch", "stable_check"}
  PROVE  /\ Load(i, full, after) \in SeenType
         /\ Load(i, full, after).buf = i /\ Load(i, full, after).after = after
         /\ Load(i, full, after).header = Header(i)
         /\ Header(i).sealed = bufs[i].sealed /\ Header(i).offset = bufs[i].offset
<1>1. bufs[i] \in BufType /\ i \in Nat
  BY SMTT(30), CurType
<1>2. Header(i) \in HeaderType
  BY <1>1 DEF Header, HeaderType, BufType
<1> QED
  BY <1>1, <1>2 DEF Load, SeenType, Header

\* Entering an operation preserves the invariant, whatever is wanted or waited for.
LEMMA BeginStep ==
  ASSUME IInv, NEW t \in Threads, NEW o \in OpNames,
         NEW label \in {"reserve", "stable_check", "roll_iobuf"}, Begin(t, o, label),
         NEW r \in ResType \cup {None}, res' = [res EXCEPT ![t] = r],
         NEW g \in Lsn \cup {None}, goal' = [goal EXCEPT ![t] = g],
         label = "reserve" \/ (label = "roll_iobuf" /\ o # "roll") => r \in ResType,
         label = "stable_check" => g \in Lsn
  PROVE  IInv' /\ Frozen
<1>1. SharedOK' /\ Frozen /\ Cur' = Cur
  BY SharedUnchanged DEF Begin, IInv
<1>2. /\ pc' = [pc EXCEPT ![t] = label] /\ op' = [op EXCEPT ![t] = o]
      /\ seen' = seen /\ peg' = peg
  BY DEF Begin
<1>3. ThreadOK(t)'
  BY <1>1, <1>2 DEF IInv, LocalsOK, ThreadOK, Place, Reserving, Batching, Stabilizing
<1>4. HandoverOK(t)'
  BY <1>2 DEF IInv, LocalsOK, HandoverOK
<1>5. ASSUME NEW u \in Threads \ {t} PROVE Bystander(u)
  BY <1>2 DEF IInv, LocalsOK, Bystander
<1>6. /\ pc' \in [Threads -> Labels] /\ op' \in [Threads -> OpNames \cup {"none"}]
      /\ seen' \in [Threads -> SeenType \cup {None}]
      /\ peg' \in [Threads -> ResType \cup {None}]
      /\ res' \in [Threads -> ResType \cup {None}]
      /\ goal' \in [Threads -> Lsn \cup {None}]
  BY <1>2 DEF IInv, LocalsOK, Labels
<1>7. LocalsOK'
  BY <1>1, <1>3, <1>4, <1>5, <1>6, CurType, LocalsStep DEF IInv
<1> QED
  BY <1>1, <1>7 DEF IInv

\* Every operation is entered that way.
LEMMA StartStep ==
  ASSUME IInv, NEW t \in Threads, Start(t)
  PROVE  IInv' /\ Frozen
<1>1. /\ res[t] \in ResType \cup {None} /\ res = [res EXCEPT ![t] = res[t]]
      /\ goal[t] \in Lsn \cup {None} /\ goal = [goal EXCEPT ![t] = goal[t]]
  BY DEF IInv, LocalsOK
<1>2. CASE StartWrite(t)
  <2>1. PICK o \in {"write", "open_tree"}, len \in MsgLens :
            Begin(t, o, "reserve") /\ res' = [res EXCEPT ![t] = Wanted(len)] /\ goal' = goal
    BY <1>2 DEF StartWrite
  <2>2. o \in OpNames /\ Wanted(len) \in ResType
    BY WantedType DEF OpNames
  <2> QED
    BY <1>1, <2>1, <2>2, BeginStep
<1>3. CASE StartFlush(t)
  <2>1. PICK o \in {"flush", "snapshot"} :
            /\ Begin(t, o, "stable_check")
            /\ goal' = [goal EXCEPT ![t] = max_reserved] /\ res' = res
    BY <1>3 DEF StartFlush
  <2>2. o \in OpNames /\ max_reserved \in Lsn
    BY DEF OpNames, IInv, SharedOK
  <2> QED
    BY <1>1, <2>1, <2>2, BeginStep
<1>4. CASE StartRead(t)
  <2>1. "read" \in OpNames /\ page \in Lsn
    BY <1>4 DEF StartRead, OpNames, IInv, SharedOK, Lsn
  <2> QED
    BY <1>1, <1>4, <2>1, BeginStep DEF StartRead
<1>5. CASE StartRoll(t)
  <2>1. "roll" \in OpNames
    BY DEF OpNames
  <2> QED
    BY <1>1, <1>5, <2>1, BeginStep DEF StartRoll
<1>6. CASE pin_log(t)
  <2>1. "batch" \in OpNames /\ Wanted(ManifestLen) \in ResType
    BY WantedType DEF OpNames
  <2> QED
    BY <1>1, <1>6, <2>1, BeginStep DEF pin_log
<1> QED
  BY <1>2, <1>3, <1>4, <1>5, <1>6 DEF Start

\* reserve_inner's check of the global error preserves the invariant.
LEMMA ReserveErrorStep ==
  ASSUME IInv, NEW t \in Threads, ReserveError(t)
  PROVE  IInv' /\ Frozen
<1>1. SharedOK' /\ Frozen /\ Cur' = Cur
  BY SharedUnchanged DEF ReserveError, IInv
<1> QED
  BY <1>1, CurType, WakesPc, ReturnErrLocals DEF IInv, ReserveError

\* reserve_inner's load of the current header preserves the invariant.
LEMMA ReserveLoadStep ==
  ASSUME IInv, NEW t \in Threads, ReserveLoad(t)
  PROVE  IInv' /\ Frozen
<1>1. SharedOK' /\ Frozen /\ Cur' = Cur
  BY SharedUnchanged DEF ReserveLoad, IInv
<1>2. Cur \in Nat \ {0} /\ Cur \in 1..Cur /\ bufs[Cur] \in BufType /\ ~bufs[Cur].sealed
  BY SMTT(30), CurType DEF IInv, ReserveLoad
<1>3. res[t] \in ResType /\ res' = res /\ peg' = peg /\ goal' = goal /\ op' = op
  BY DEF ReserveLoad, IInv, LocalsOK, ThreadOK, Place, Reserving
<1>4. bufs' = bufs
  BY DEF ReserveLoad, shared
<1>5. PICK full \in BOOLEAN, label \in {"claim", "seal_cas"} :
        /\ seen' = [seen EXCEPT ![t] = Load(Cur, full, "reserve")]
        /\ pc' = [pc EXCEPT ![t] = label]
        /\ label = "claim" => bufs[Cur].offset + res[t].len <= bufs[Cur].capacity
  <2>1. CASE WouldOverflow(bufs[Cur], res[t].len)
    BY <2>1 DEF ReserveLoad
  <2>2. CASE ~WouldOverflow(bufs[Cur], res[t].len)
    <3>1. bufs[Cur].offset + res[t].len <= bufs[Cur].capacity
      BY SMTT(30), <1>2, <1>3, <2>2 DEF WouldOverflow, BufType, ResType
    <3> QED
      BY <2>2, <3>1 DEF ReserveLoad
  <2> QED
    BY <2>1, <2>2
<1>6. /\ Load(Cur, full, "reserve") \in SeenType
      /\ Load(Cur, full, "reserve").buf = Cur
      /\ Load(Cur, full, "reserve").after = "reserve"
      /\ Load(Cur, full, "reserve").header.sealed = FALSE
      /\ Load(Cur, full, "reserve").header.offset = bufs[Cur].offset
  BY SMTT(30), <1>2, LoadType DEF IInv, BufType
<1>7. ThreadOK(t)'
  BY <1>1, <1>2, <1>3, <1>5, <1>6
     DEF IInv, LocalsOK, ThreadOK, Place, Reserving, Batching, Stabilizing
<1>8. HandoverOK(t)'
  BY <1>2, <1>3, <1>4, <1>5, <1>6 DEF IInv, LocalsOK, HandoverOK
<1>9. ASSUME NEW u \in Threads \ {t} PROVE Bystander(u)
  BY <1>3, <1>5 DEF IInv, LocalsOK, Bystander
<1>10. LocalsOK'
  BY <1>1, <1>2, <1>3, <1>5, <1>6, <1>7, <1>8, <1>9, LocalsStep
     DEF IInv, LocalsOK, Labels
<1> QED
  BY <1>1, <1>10 DEF IInv

\* Replacing one buffer by another that extends it.
LEMMA UpdateBuf ==
  ASSUME SharedOK, NEW i \in 1..Cur, NEW b \in BufType, bufs' = [bufs EXCEPT ![i] = b],
         b.lsn = bufs[i].lsn, b.capacity = bufs[i].capacity, b.offset <= b.capacity,
         bufs[i].sealed => b.sealed /\ b.offset = bufs[i].offset /\ b.maxed = bufs[i].maxed
  PROVE  Frozen /\ Cur' = Cur /\ BufsOK' /\ bufs' \in Seq(BufType) /\ bufs' # <<>>
<1>1. bufs' \in Seq(BufType) /\ Len(bufs') = Len(bufs) /\ bufs' # <<>>
  BY SMTT(30), CurType DEF SharedOK, Cur
<1>2. /\ bufs'[i] = b /\ \A j \in 1..Cur : j # i => bufs'[j] = bufs[j]
  BY SMTT(30) DEF SharedOK, Cur
<1> QED
  BY SMTT(30), <1>1, <1>2 DEF SharedOK, Frozen, Cur, BufsOK

\* The compare-and-swap that claims space preserves the invariant: what it compared
\* is not sealed, so no frozen buffer grows.
LEMMA ReserveClaimStep ==
  ASSUME IInv, NEW t \in Threads, ReserveClaim(t)
  PROVE  IInv' /\ Frozen
<1> DEFINE i == seen[t].buf
           lsn == bufs[i].lsn + seen[t].header.offset
           b == [bufs[i] EXCEPT !.offset = bufs[i].offset + res[t].len,
                                !.writers = bufs[i].writers \cup {lsn}]
           r == [buf |-> i, lsn |-> lsn, len |-> res[t].len]
<1>1. /\ pc[t] = "claim" /\ i \in 1..Cur /\ seen[t] \in SeenType /\ res[t] \in ResType
      /\ ~seen[t].header.sealed
      /\ seen[t].header.offset + res[t].len <= bufs[i].capacity
  BY DEF IInv, LocalsOK, ThreadOK, HandoverOK, ReserveClaim, ClaimIf, Place, Reserving
<1>2. bufs[i] \in BufType /\ Cur \in Nat
  BY <1>1, CurType DEF IInv
<1>3. /\ seen' = [seen EXCEPT ![t] = None]
      /\ UNCHANGED <<tasks, disk, intervals, stable_lsn, max_reserved, error,
                     op, peg, goal, page>>
  BY DEF ReserveClaim, ClaimIf
<1>4. CASE Header(i) = seen[t].header
  <2>1. /\ bufs' = [bufs EXCEPT ![i] = b] /\ res' = [res EXCEPT ![t] = r]
        /\ pc' = [pc EXCEPT ![t] = "bump"]
    BY <1>4 DEF ReserveClaim, ClaimIf
  <2>2. bufs[i].sealed = FALSE /\ bufs[i].offset = seen[t].header.offset
    <3>1. bufs[i].sealed \in BOOLEAN
      BY <1>2 DEF BufType
    <3>2. Header(i).sealed = bufs[i].sealed /\ Header(i).offset = bufs[i].offset
      BY DEF Header
    <3> QED
      BY <1>1, <1>4, <3>1, <3>2
  <2>3. /\ b \in BufType /\ b.lsn = bufs[i].lsn /\ b.capacity = bufs[i].capacity
        /\ b.offset <= b.capacity
    <3>1. bufs[i].offset + res[t].len \in Nat /\ lsn \in Nat
      BY SMTT(30), <1>1, <1>2 DEF BufType, ResType, SeenType, HeaderType
    <3> QED
      BY <1>1, <1>2, <2>2, <3>1 DEF BufType
  <2>4. r \in ResType
    BY SMTT(30), <1>1, <1>2 DEF ResType, BufType, SeenType, HeaderType
  <2> HIDE DEF b, r
  <2>5. Frozen /\ Cur' = Cur /\ BufsOK' /\ bufs' \in Seq(BufType) /\ bufs' # <<>>
    BY <1>1, <2>1, <2>2, <2>3, UpdateBuf DEF IInv
  <2>6. SharedOK'
    BY <1>2, <1>3, <2>5, SharedStep DEF IInv, SharedOK
  <2>7. ThreadOK(t)' /\ HandoverOK(t)'
    BY <1>1, <1>3, <2>1, <2>4, <2>5
       DEF r, IInv, LocalsOK, ThreadOK, HandoverOK, Place, Reserving, Batching, Stabilizing
  <2>8. ASSUME NEW u \in Threads \ {t} PROVE Bystander(u)
    BY <1>3, <2>1 DEF IInv, LocalsOK, Bystander
  <2>9. LocalsOK'
    BY <1>2, <1>3, <2>1, <2>4, <2>5, <2>7, <2>8, LocalsStep DEF IInv, LocalsOK, Labels
  <2> QED
    BY <2>5, <2>6, <2>9 DEF IInv
<1>5. CASE Header(i) # seen[t].header
  <2>1. bufs' = bufs /\ res' = res /\ pc' = [pc EXCEPT ![t] = "reserve"]
    BY <1>5 DEF ReserveClaim, ClaimIf
  <2>2. SharedOK' /\ Frozen /\ Cur' = Cur
    BY <1>3, <2>1, SharedUnchanged DEF shared, IInv
  <2>3. ThreadOK(t)' /\ HandoverOK(t)'
    BY <1>1, <1>3, <2>1, <2>2
       DEF IInv, LocalsOK, ThreadOK, HandoverOK, Place, Reserving, Batching, Stabilizing
  <2>4. ASSUME NEW u \in Threads \ {t} PROVE Bystander(u)
    BY <1>3, <2>1 DEF IInv, LocalsOK, Bystander
  <2>5. LocalsOK'
    BY <1>2, <1>3, <2>1, <2>2, <2>3, <2>4, LocalsStep DEF IInv, LocalsOK, Labels
  <2> QED
    BY <2>2, <2>5 DEF IInv
<1> QED
  BY <1>4, <1>5

\* bump_atomic_lsn stores an LSN.
LEMMA BumpType ==
  ASSUME SharedOK, NEW r \in ResType, bump_atomic_lsn(r.lsn + r.len - 1)
  PROVE  max_reserved' \in Lsn
BY SMTT(30) DEF SharedOK, bump_atomic_lsn, ResType, Lsn

\* Raising max_reserved_lsn and filling the slice preserve the invariant.
LEMMA ReserveFillStep ==
  ASSUME IInv, NEW t \in Threads, ReserveFill(t)
  PROVE  IInv' /\ Frozen
<1>1. pc[t] = "bump" /\ res[t] \in ResType /\ res[t].buf \in 1..Cur
  BY DEF IInv, LocalsOK, ThreadOK, ReserveFill, Place, Reserving
<1>2. page' \in Nat \cup {None}
  BY <1>1 DEF ReserveFill, IInv, SharedOK, ResType
<1>3. SharedOK' /\ Frozen /\ Cur' = Cur
  BY <1>1, <1>2, BumpType, SharedKeepsBufs DEF ReserveFill, IInv, SharedOK
<1>4. /\ pc' \in [Threads -> Labels] /\ peg' \in [Threads -> ResType \cup {None}]
      /\ res' \in [Threads -> ResType \cup {None}]
  BY <1>1 DEF ReserveFill, IInv, LocalsOK, Labels
<1>5. /\ pc'[t] \in {"pin_seal", "exit"} /\ seen'[t] = seen[t] /\ goal'[t] = goal[t]
      /\ pc'[t] = "pin_seal" => peg'[t] = res[t]
      /\ pc'[t] = "exit" => peg'[t] = peg[t] /\ res'[t] = res[t]
  BY <1>1 DEF ReserveFill, IInv, LocalsOK
<1>6. ThreadOK(t)' /\ HandoverOK(t)'
  <2>1. ThreadOK(t)
    BY DEF IInv, LocalsOK
  <2>2. res[t] # None
    BY <1>1, NoneAssumption
  <2>3. ThreadOK(t)'
    BY <1>1, <1>3, <1>5, <2>1, <2>2 DEF ThreadOK, Place, Reserving, Batching, Stabilizing
  <2>4. HandoverOK(t)'
    BY <1>5 DEF HandoverOK
  <2> QED
    BY <2>3, <2>4
<1>7. ASSUME NEW u \in Threads \ {t} PROVE Bystander(u)
  BY DEF ReserveFill, IInv, LocalsOK, Bystander
<1>8. LocalsOK'
  <2>1. /\ op' \in [Threads -> OpNames \cup {"none"}]
        /\ seen' \in [Threads -> SeenType \cup {None}]
        /\ goal' \in [Threads -> Lsn \cup {None}]
    BY DEF ReserveFill, IInv, LocalsOK
  <2> QED
    BY <1>3, <1>4, <1>6, <1>7, <2>1, CurType, LocalsStep DEF IInv
<1> QED
  BY <1>3, <1>8 DEF IInv

\* A heap item that cannot be written preserves the invariant.
LEMMA ReserveHeapErrorStep ==
  ASSUME IInv, NEW t \in Threads, ReserveHeapError(t)
  PROVE  IInv' /\ Frozen
<1>1. res[t] \in ResType
  BY DEF IInv, LocalsOK, ThreadOK, ReserveHeapError, Place, Reserving
<1>2. SharedOK' /\ Frozen /\ Cur' = Cur
  BY <1>1, BumpType, SharedKeepsBufs DEF ReserveHeapError, IInv, SharedOK
<1> QED
  BY <1>2, CurType, WakesPc, ReturnErrLocals DEF IInv, ReserveHeapError

\* Leaving a buffer preserves the invariant; the last writer takes the duty to write.
LEMMA ExitReservationStep ==
  ASSUME IInv, NEW t \in Threads, exit_reservation(t)
  PROVE  IInv' /\ Frozen
<1> DEFINE i == res[t].buf
           left == bufs[i].writers \ {res[t].lsn}
           b == [bufs[i] EXCEPT !.writers = left]
<1>1. pc[t] = "exit" /\ res[t] \in ResType /\ i \in 1..Cur
  BY DEF IInv, LocalsOK, ThreadOK, exit_reservation, Leave, Place, Reserving
<1>2. bufs[i] \in BufType /\ bufs[i].offset <= bufs[i].capacity /\ Cur \in Nat
  BY <1>1, CurType DEF IInv, SharedOK, BufsOK
<1>3. bufs' = [bufs EXCEPT ![i] = b]
  BY DEF exit_reservation, Leave
<1>4. /\ b \in BufType /\ b.lsn = bufs[i].lsn /\ b.capacity = bufs[i].capacity
      /\ b.offset = bufs[i].offset /\ b.offset <= b.capacity
      /\ bufs[i].sealed => b.sealed /\ b.maxed = bufs[i].maxed
  BY <1>2 DEF BufType
<1> HIDE DEF b
<1>5. Frozen /\ Cur' = Cur /\ BufsOK' /\ bufs' \in Seq(BufType) /\ bufs' # <<>>
  BY <1>1, <1>2, <1>3, <1>4, UpdateBuf DEF IInv
<1>6. SharedOK'
  BY <1>2, <1>5, SharedStep DEF exit_reservation, Leave, IInv, SharedOK
<1>7. CASE left = {} /\ bufs[i].sealed
  <2>1. pc' = [pc EXCEPT ![t] = "exit_spawn"] /\ UNCHANGED <<op, seen, res, peg, goal>>
    BY <1>7 DEF exit_reservation, Leave
  <2>2. ThreadOK(t)' /\ HandoverOK(t)'
    BY <1>1, <1>5, <1>7, <2>1
       DEF IInv, LocalsOK, ThreadOK, HandoverOK, Frozen, Place, Reserving, Batching, Stabilizing
  <2>3. ASSUME NEW u \in Threads \ {t} PROVE Bystander(u)
    BY <2>1 DEF IInv, LocalsOK, Bystander
  <2>4. LocalsOK'
    BY <1>2, <1>5, <2>1, <2>2, <2>3, LocalsStep DEF IInv, LocalsOK, Labels
  <2> QED
    BY <1>5, <1>6, <2>4 DEF IInv
<1>8. CASE ~(left = {} /\ bufs[i].sealed)
  <2>1. ReturnOk(t, pc)
    BY <1>8 DEF exit_reservation, Leave
  <2> QED
    BY <1>2, <1>5, <1>6, <2>1, WakesPc, ReturnOkLocals DEF IInv
<1> QED
  BY <1>7, <1>8

\* A task for a sealed buffer.
LEMMA TaskOK ==
  ASSUME SharedOK, NEW i \in 1..Cur, bufs[i].sealed, NEW notify \in BOOLEAN,
         tasks' = tasks \cup {Task(i, notify)}
  PROVE  /\ tasks' \subseteq TaskType
         /\ \A x \in tasks' : \/ x \in tasks
                              \/ x.buf \in 1..Cur /\ bufs[x.buf].sealed /\ x.stage = "queued"
BY SMTT(30), CurType DEF SharedOK, Task, TaskType

\* Handing the buffer to the threadpool from exit_reservation preserves the invariant.
LEMMA ExitSpawnStep ==
  ASSUME IInv, NEW t \in Threads, ExitSpawn(t)
  PROVE  IInv' /\ Frozen
<1>1. pc[t] = "exit_spawn" /\ res[t].buf \in 1..Cur /\ bufs[res[t].buf].sealed
  BY DEF IInv, LocalsOK, ThreadOK, HandoverOK, ExitSpawn
<1>2. CASE error
  <2>1. SharedOK' /\ Frozen /\ Cur' = Cur
    BY <1>2, SharedUnchanged DEF ExitSpawn, IInv, shared
  <2> QED
    BY <1>2, <2>1, CurType, WakesPc, ReturnErrLocals DEF IInv, ExitSpawn
<1>3. CASE ~error
  <2>1. SharedOK' /\ Frozen /\ Cur' = Cur
    BY <1>1, <1>3, TaskOK, SharedKeepsBufs DEF ExitSpawn, IInv, SharedOK
  <2> QED
    BY <1>3, <2>1, CurType, WakesPc, ReturnOkLocals DEF IInv, ExitSpawn
<1> QED
  BY <1>2, <1>3
----------------------------------------------------------------------------
(* maybe_seal_and_write_iobuf.                                             *)

\* maybe_seal's compare-and-swap preserves the invariant: it freezes a buffer that
\* was open, and has no effect on one that was not.
LEMMA SealCasStep ==
  ASSUME IInv, NEW t \in Threads, SealCas(t)
  PROVE  IInv' /\ Frozen
<1> DEFINE i == seen[t].buf
           maxed == \/ seen[t].full
                    \/ bufs[i].capacity - seen[t].header.offset < MaxMsgHeaderLen
           b == [bufs[i] EXCEPT !.sealed = TRUE, !.maxed = maxed]
<1>1. /\ pc[t] = "seal_cas" /\ i \in 1..Cur /\ seen[t] \in SeenType
      /\ ~seen[t].header.sealed
  BY DEF IInv, LocalsOK, ThreadOK, HandoverOK, SealCas
<1>2. bufs[i] \in BufType /\ bufs[i].offset <= bufs[i].capacity /\ Cur \in Nat
  BY <1>1, CurType DEF IInv, SharedOK, BufsOK
<1>3. CASE Header(i) = seen[t].header
  <2>1. /\ bufs' = [bufs EXCEPT ![i] = b] /\ pc' = [pc EXCEPT ![t] = "seal_swap"]
        /\ UNCHANGED <<op, seen, res, peg, goal>>
    BY <1>3 DEF SealCas
  <2>2. ~bufs[i].sealed
    BY SMTT(30), <1>1, <1>2, <1>3 DEF Header, BufType
  <2>3. maxed \in BOOLEAN
    OBVIOUS
  <2> HIDE DEF maxed
  <2>4. /\ b \in BufType /\ b.lsn = bufs[i].lsn /\ b.capacity = bufs[i].capacity
        /\ b.offset <= b.capacity /\ b.sealed
    BY <1>2, <2>3 DEF BufType
  <2> HIDE DEF b
  <2>5. Frozen /\ Cur' = Cur /\ BufsOK' /\ bufs' \in Seq(BufType) /\ bufs' # <<>>
    BY <1>1, <2>1, <2>2, <2>4, UpdateBuf DEF IInv
  <2>6. SharedOK'
    BY <1>2, <2>5, SharedStep DEF SealCas, IInv, SharedOK
  <2>7. bufs'[i].sealed
    BY SMTT(30), <1>1, <2>1, <2>4 DEF IInv, SharedOK, Cur
  <2>8. ThreadOK(t)' /\ HandoverOK(t)'
    BY <1>1, <2>1, <2>5, <2>7
       DEF IInv, LocalsOK, ThreadOK, HandoverOK, Place, Reserving, Batching, Stabilizing
  <2>9. ASSUME NEW u \in Threads \ {t} PROVE Bystander(u)
    BY <2>1 DEF IInv, LocalsOK, Bystander
  <2>10. LocalsOK'
    BY <1>2, <2>1, <2>5, <2>8, <2>9, LocalsStep DEF IInv, LocalsOK, Labels
  <2> QED
    BY <2>5, <2>6, <2>10 DEF IInv
<1>4. CASE Header(i) # seen[t].header
  <2>1. SealReturn(t, pc) /\ UNCHANGED <<shared, page>>
    BY <1>4 DEF SealCas, shared
  <2>2. SharedOK' /\ Frozen /\ Cur' = Cur
    BY <2>1, SharedUnchanged DEF IInv
  <2> QED
    BY <1>1, <1>2, <2>1, <2>2, WakesPc, SealReturnLocals DEF IInv
<1> QED
  BY <1>3, <1>4

\* Installing the next buffer preserves the invariant.
LEMMA SealSwapStep ==
  ASSUME IInv, NEW t \in Threads, SealSwap(t)
  PROVE  IInv' /\ Frozen
<1> DEFINE b == NextBuf(bufs[seen[t].buf])
<1>1. pc[t] = "seal_swap" /\ seen[t].buf \in 1..Cur
  BY DEF IInv, LocalsOK, ThreadOK, SealSwap, Install
<1>2. bufs[seen[t].buf] \in BufType /\ Cur \in Nat
  BY <1>1, CurType DEF IInv
<1>3. b \in BufType /\ b.offset <= b.capacity
  BY <1>1, <1>2, NextBufType DEF IInv, SharedOK, BufsOK
<1>4. bufs' = Append(bufs, b)
  BY DEF SealSwap, Install
<1> HIDE DEF b
<1>5. /\ bufs' \in Seq(BufType) /\ bufs' # <<>> /\ Cur' = Cur + 1 /\ bufs'[Cur + 1] = b
      /\ \A i \in 1..Cur : bufs'[i] = bufs[i]
  BY SMTT(30), <1>3, <1>4 DEF IInv, SharedOK, Cur
<1>6. Frozen /\ BufsOK'
  <2>1. Frozen
    BY SMTT(30), <1>2, <1>5 DEF Frozen
  <2>2. \A i \in 1..(Cur + 1) : i \in 1..Cur \/ i = Cur + 1
    BY SMTT(30), <1>2
  <2>3. BufsOK'
    BY <1>3, <1>5, <2>2 DEF IInv, SharedOK, BufsOK
  <2> QED
    BY <2>1, <2>3
<1>7. SharedOK'
  BY SMTT(30), <1>2, <1>5, <1>6, SharedStep DEF SealSwap, Install, IInv, SharedOK
<1>8. CASE seen[t].header.writers = {}
  <2>1. /\ pc' = [NotifyAll(pc) EXCEPT ![t] = "seal_spawn"]
        /\ UNCHANGED <<op, seen, res, peg, goal>>
    BY <1>8 DEF SealSwap, Install
  <2>2. NotifyAll(pc) \in [Threads -> Labels]
    BY WakesPc, WakesType DEF IInv, LocalsOK
  <2>a. /\ pc'[t] = "seal_spawn" /\ seen'[t] = seen[t] /\ res'[t] = res[t]
        /\ peg'[t] = peg[t] /\ goal'[t] = goal[t] /\ op'[t] = op[t]
    BY <2>1, <2>2
  <2>b. ThreadOK(t) /\ HandoverOK(t)
    BY DEF IInv, LocalsOK
  <2>c. ThreadOK(t)'
    <3>1. \A j : j \in 1..Cur => j \in 1..Cur'
      BY SMTT(30), <1>2, <1>5
    <3>2. Place(t)' = Place(t)
      BY <1>1, <2>a DEF Place
    <3> QED
      BY <1>1, <2>a, <2>b, <3>1, <3>2 DEF ThreadOK
  <2>d. HandoverOK(t)'
    BY <1>1, <1>2, <1>5, <2>a, <2>b DEF HandoverOK
  <2>3. ThreadOK(t)' /\ HandoverOK(t)'
    BY <2>c, <2>d
  <2>4. ASSUME NEW u \in Threads \ {t} PROVE Bystander(u)
    BY <2>1, <2>2, WakesPc, WakesType DEF IInv, LocalsOK, Bystander
  <2>5. LocalsOK'
    BY SMTT(30), <1>2, <1>5, <1>6, <2>1, <2>2, <2>3, <2>4, LocalsStep DEF IInv, LocalsOK, Labels
  <2> QED
    BY <1>6, <1>7, <2>5 DEF IInv
<1>9. CASE seen[t].header.writers # {}
  <2>1. SealReturn(t, NotifyAll(pc))
    BY <1>9 DEF SealSwap, Install
  <2> QED
    BY SMTT(30), <1>1, <1>2, <1>5, <1>6, <1>7, <2>1, WakesPc, SealReturnLocals DEF IInv
<1> QED
  BY <1>8, <1>9

\* Failing to get a new segment preserves the invariant.
LEMMA SealErrorStep ==
  ASSUME IInv, NEW t \in Threads, SealError(t)
  PROVE  IInv' /\ Frozen
<1>1. SharedOK' /\ Frozen /\ Cur' = Cur
  BY SharedKeepsBufs DEF SealError, IInv, SharedOK
<1> QED
  BY <1>1, CurType, WakesPc, ReturnErrLocals DEF IInv, SealError

\* Handing the buffer to the threadpool from maybe_seal preserves the invariant.
LEMMA SealSpawnStep ==
  ASSUME IInv, NEW t \in Threads, SealSpawn(t)
  PROVE  IInv' /\ Frozen
<1>1. pc[t] = "seal_spawn" /\ seen[t].buf \in 1..Cur /\ bufs[seen[t].buf].sealed
  BY DEF IInv, LocalsOK, ThreadOK, HandoverOK, SealSpawn
<1>2. CASE error
  <2>1. SharedOK' /\ Frozen /\ Cur' = Cur
    BY <1>2, SharedUnchanged DEF SealSpawn, IInv, shared
  <2> QED
    BY <1>2, <2>1, CurType, WakesPc, ReturnErrLocals DEF IInv, SealSpawn
<1>3. CASE ~error
  <2>1. SharedOK' /\ Frozen /\ Cur' = Cur
    BY <1>1, <1>3, TaskOK, SharedKeepsBufs DEF SealSpawn, IInv, SharedOK
  <2> QED
    BY <1>1, <1>3, <2>1, CurType, WakesPc, SealReturnLocals DEF IInv, SealSpawn
<1> QED
  BY <1>2, <1>3
----------------------------------------------------------------------------
(* roll_iobuf, batches and make_stable_inner.                              *)

\* A thread goes on to another place, without changing anything else.
LEMMA GotoStep ==
  ASSUME IInv, NEW t \in Threads, NEW label \in Labels, pc' = [pc EXCEPT ![t] = label],
         UNCHANGED <<shared, op, seen, res, peg, goal, page>>,
         label \notin {"claim", "bump", "exit", "exit_spawn", "roll_iobuf",
                       "seal_cas", "seal_swap", "seal_spawn"},
         label = "reserve" => res[t] \in ResType,
         label \in Batching => peg[t] # None,
         label \in Stabilizing => goal[t] \in Lsn
  PROVE  IInv' /\ Frozen
<1>1. SharedOK' /\ Frozen /\ Cur' = Cur
  BY SharedUnchanged DEF IInv
<1>2. ThreadOK(t)'
  BY <1>1 DEF IInv, LocalsOK, ThreadOK, Place, Reserving, Labels
<1>3. HandoverOK(t)'
  BY DEF IInv, LocalsOK, HandoverOK
<1>4. ASSUME NEW u \in Threads \ {t} PROVE Bystander(u)
  BY DEF IInv, LocalsOK, Bystander
<1>5. LocalsOK'
  BY <1>1, <1>2, <1>3, <1>4, CurType, LocalsStep DEF IInv, LocalsOK
<1> QED
  BY <1>1, <1>5 DEF IInv

\* A thread goes on to seal a buffer it found open.
LEMMA GotoSeal ==
  ASSUME IInv, NEW t \in Threads, NEW i \in 1..Cur, ~bufs[i].sealed,
         NEW full \in BOOLEAN, NEW after \in {"idle", "reserve", "batch", "stable_check"},
         pc' = [pc EXCEPT ![t] = "seal_cas"],
         seen' = [seen EXCEPT ![t] = Load(i, full, after)],
         UNCHANGED <<shared, op, res, peg, goal, page>>,
         after = "reserve" => res[t] \in ResType,
         after = "batch" => peg[t] # None,
         after = "stable_check" => goal[t] \in Lsn
  PROVE  IInv' /\ Frozen
<1>1. SharedOK' /\ Frozen /\ Cur' = Cur
  BY SharedUnchanged DEF IInv
<1>2. bufs[i].sealed = FALSE
  BY CurType DEF IInv, BufType
<1> DEFINE s == Load(i, full, after)
<1>3. /\ s \in SeenType /\ s.buf = i /\ s.after = after
      /\ s.header.sealed = FALSE
  BY SMTT(30), <1>2, LoadType DEF IInv
<1>a. seen' = [seen EXCEPT ![t] = s]
  OBVIOUS
<1> HIDE DEF s
<1>4. ThreadOK(t)'
  BY <1>1, <1>3, <1>a DEF IInv, LocalsOK, ThreadOK, Place, Reserving, Batching, Stabilizing
<1>5. HandoverOK(t)'
  BY <1>3, <1>a DEF IInv, LocalsOK, HandoverOK
<1>6. ASSUME NEW u \in Threads \ {t} PROVE Bystander(u)
  BY <1>a DEF IInv, LocalsOK, Bystander
<1>7. pc' \in [Threads -> Labels] /\ seen' \in [Threads -> SeenType \cup {None}]
  BY SMTT(30), <1>3, <1>a DEF IInv, LocalsOK, Labels
<1>8. LocalsOK'
  BY <1>1, <1>4, <1>5, <1>6, <1>7, CurType, LocalsStep DEF IInv, LocalsOK
<1> QED
  BY <1>1, <1>8 DEF IInv

\* A thread returns, without changing anything shared.
LEMMA GotoReturn ==
  ASSUME IInv, NEW t \in Threads, UNCHANGED <<shared, page>>,
         NEW p, Wakes(p), ReturnOk(t, p) \/ ReturnErr(t, p)
  PROVE  IInv' /\ Frozen
<1>1. SharedOK' /\ Frozen /\ Cur' = Cur
  BY SharedUnchanged DEF IInv
<1> QED
  BY <1>1, CurType, ReturnOkLocals, ReturnErrLocals DEF IInv

\* The current buffer is among the buffers.
LEMMA CurIsOpen ==
  ASSUME IInv, ~bufs[Cur].sealed
  PROVE  Cur \in 1..Cur
BY SMTT(30), CurType DEF IInv

\* roll_iobuf preserves the invariant.
LEMMA RollStep ==
  ASSUME IInv, NEW t \in Threads, roll_iobuf(t)
  PROVE  IInv' /\ Frozen
<1> DEFINE after == IF op[t] = "roll" THEN "idle" ELSE "reserve"
<1>1. pc[t] = "roll_iobuf" /\ UNCHANGED <<shared, page>>
  BY DEF roll_iobuf
<1>2. after = "reserve" => res[t] \in ResType
  BY <1>1 DEF IInv, LocalsOK, ThreadOK
<1>3. CASE (bufs[Cur].sealed \/ bufs[Cur].offset = 0) /\ after = "idle"
  BY <1>1, <1>3, WakesPc, GotoReturn DEF roll_iobuf
<1>4. CASE (bufs[Cur].sealed \/ bufs[Cur].offset = 0) /\ after # "idle"
  <2>1. pc' = [pc EXCEPT ![t] = "reserve"] /\ UNCHANGED <<op, seen, res, peg, goal>>
    BY <1>4 DEF roll_iobuf
  <2> QED
    BY <1>1, <1>2, <1>4, <2>1, GotoStep DEF Labels, Batching, Stabilizing
<1>5. CASE ~(bufs[Cur].sealed \/ bufs[Cur].offset = 0)
  <2>1. /\ pc' = [pc EXCEPT ![t] = "seal_cas"]
        /\ seen' = [seen EXCEPT ![t] = Load(Cur, FALSE, after)]
        /\ UNCHANGED <<op, res, peg, goal>>
    BY <1>5 DEF roll_iobuf
  <2>2. after \in {"idle", "reserve"} /\ FALSE \in BOOLEAN
    OBVIOUS
  <2> HIDE DEF after
  <2> QED
    BY <1>1, <1>2, <1>5, <2>1, <2>2, CurIsOpen, GotoSeal
<1> QED
  BY <1>3, <1>4, <1>5

\* pin_log's attempt to seal the manifest's buffer preserves the invariant.
LEMMA PinSealStep ==
  ASSUME IInv, NEW t \in Threads, PinSeal(t)
  PROVE  IInv' /\ Frozen
<1>1. pc[t] = "pin_seal" /\ UNCHANGED <<shared, op, res, peg, goal, page>>
  BY DEF PinSeal
<1>2. peg[t] # None /\ peg[t].buf \in 1..Cur
  BY <1>1 DEF IInv, LocalsOK, ThreadOK, Place, Batching
<1>3. CASE bufs[peg[t].buf].sealed
  <2>1. pc' = [pc EXCEPT ![t] = "batch"] /\ UNCHANGED seen
    BY <1>3 DEF PinSeal
  <2> QED
    BY <1>1, <1>2, <2>1, GotoStep DEF Labels, Stabilizing
<1>4. CASE ~bufs[peg[t].buf].sealed
  <2>1. /\ pc' = [pc EXCEPT ![t] = "seal_cas"]
        /\ seen' = [seen EXCEPT ![t] = Load(peg[t].buf, FALSE, "batch")]
    BY <1>4 DEF PinSeal
  <2>2. FALSE \in BOOLEAN
    OBVIOUS
  <2> QED
    BY <1>1, <1>2, <1>4, <2>1, <2>2, GotoSeal
<1> QED
  BY <1>3, <1>4

\* The operations inside a batch, and its end, preserve the invariant.
LEMMA BatchStep ==
  ASSUME IInv, NEW t \in Threads, BatchWrite(t) \/ BatchRead(t) \/ seal_batch(t)
  PROVE  IInv' /\ Frozen
<1>1. /\ pc[t] = "batch" /\ UNCHANGED <<shared, page>>
      /\ UNCHANGED <<op, seen, peg>>
  BY DEF BatchWrite, BatchRead, seal_batch
<1>2. peg[t] # None
  BY <1>1 DEF IInv, LocalsOK, ThreadOK, Place, Batching
<1>3. SharedOK' /\ Frozen /\ Cur' = Cur
  BY <1>1, SharedUnchanged DEF IInv
<1>4. CASE BatchWrite(t)
  <2>1. PICK len \in MsgLens : res' = [res EXCEPT ![t] = Wanted(len)]
    BY <1>4 DEF BatchWrite
  <2>2. Wanted(len) \in ResType
    BY WantedType
  <2>3. pc' = [pc EXCEPT ![t] = "reserve"] /\ goal' = goal
    BY <1>4 DEF BatchWrite
  <2>4. ThreadOK(t)' /\ HandoverOK(t)'
    BY <1>1, <1>2, <1>3, <2>1, <2>2, <2>3
       DEF IInv, LocalsOK, ThreadOK, HandoverOK, Place, Reserving, Batching, Stabilizing
  <2>5. ASSUME NEW u \in Threads \ {t} PROVE Bystander(u)
    BY <1>1, <2>1, <2>3 DEF IInv, LocalsOK, Bystander
  <2>6. LocalsOK'
    BY <1>1, <1>3, <2>1, <2>2, <2>3, <2>4, <2>5, CurType, LocalsStep DEF IInv, LocalsOK, Labels
  <2> QED
    BY <1>3, <2>6 DEF IInv
<1>5. CASE BatchRead(t) \/ seal_batch(t)
  <2>1. PICK g \in Lsn, label \in {"stable_check", "mark_writebatch"} :
            goal' = [goal EXCEPT ![t] = g] /\ pc' = [pc EXCEPT ![t] = label] /\ res' = res
    <3>1. CASE BatchRead(t)
      <4>1. page \in Lsn
        BY <3>1 DEF BatchRead, IInv, SharedOK, Lsn
      <4> QED
        BY <3>1, <4>1 DEF BatchRead
    <3>2. CASE seal_batch(t)
      <4>1. max_reserved \in Lsn
        BY DEF IInv, SharedOK
      <4> QED
        BY <3>2, <4>1 DEF seal_batch
    <3> QED
      BY <1>5, <3>1, <3>2
  <2>2. ThreadOK(t)' /\ HandoverOK(t)'
    BY <1>1, <1>2, <1>3, <2>1
       DEF IInv, LocalsOK, ThreadOK, HandoverOK, Place, Reserving, Batching, Stabilizing
  <2>3. ASSUME NEW u \in Threads \ {t} PROVE Bystander(u)
    BY <1>1, <2>1 DEF IInv, LocalsOK, Bystander
  <2>4. LocalsOK'
    BY <1>1, <1>3, <2>1, <2>2, <2>3, CurType, LocalsStep DEF IInv, LocalsOK, Labels
  <2> QED
    BY <1>3, <2>4 DEF IInv
<1> QED
  BY <1>4, <1>5

\* Recording a batch preserves the invariant: batches only hold publication back.
LEMMA MarkWritebatchStep ==
  ASSUME IInv, NEW t \in Threads, mark_writebatch(t)
  PROVE  IInv' /\ Frozen
<1>1. /\ pc[t] = "mark_writebatch"
      /\ UNCHANGED <<bufs, tasks, disk, stable_lsn, max_reserved, error, op, seen, page>>
      /\ pc' = [pc EXCEPT ![t] = "exit"] /\ res' = [res EXCEPT ![t] = peg[t]]
      /\ peg' = [peg EXCEPT ![t] = None] /\ goal' = [goal EXCEPT ![t] = None]
  BY DEF mark_writebatch
<1>2. peg[t] \in ResType /\ peg[t].buf \in 1..Cur /\ goal[t] \in Lsn
  BY <1>1 DEF IInv, LocalsOK, ThreadOK, Place, Batching, Stabilizing
<1>3. /\ intervals' \in IntervalsType
      /\ intervals'.synced = intervals.synced /\ intervals'.stable = intervals.stable
  <2>1. intervals \in IntervalsType
    BY DEF IInv, SharedOK
  <2>2. [low |-> peg[t].lsn, high |-> goal[t]] \in [low : Nat, high : Lsn]
    BY <1>2 DEF ResType
  <2> QED
    BY SMTT(30), <2>1, <2>2 DEF mark_writebatch, mark_batch, MarkBatch, IntervalsType
<1>4. Frozen /\ Cur' = Cur /\ BufsOK'
  BY <1>1, SameBufs DEF IInv
<1>5. SharedOK'
  <2>1. /\ bufs' \in Seq(BufType) /\ bufs' # <<>> /\ tasks' \subseteq TaskType
        /\ max_reserved' \in Lsn /\ error' \in BOOLEAN /\ page' \in Nat \cup {None}
    BY <1>1 DEF IInv, SharedOK
  <2> QED
    BY <1>1, <1>3, <1>4, <2>1, CurType, SharedStep DEF IInv
<1>6. ThreadOK(t)' /\ HandoverOK(t)'
  BY <1>1, <1>2, <1>4
     DEF IInv, LocalsOK, ThreadOK, HandoverOK, Place, Reserving, Batching, Stabilizing
<1>7. ASSUME NEW u \in Threads \ {t} PROVE Bystander(u)
  BY <1>1 DEF IInv, LocalsOK, Bystander
<1>8. LocalsOK'
  BY <1>1, <1>2, <1>4, <1>6, <1>7, CurType, LocalsStep DEF IInv, LocalsOK, Labels
<1> QED
  BY <1>4, <1>5, <1>8 DEF IInv

\* Waiting for an LSN preserves the invariant.
LEMMA MakeStableStep ==
  ASSUME IInv, NEW t \in Threads, StableCheck(t) \/ StableBody(t) \/ StableLock(t)
  PROVE  IInv' /\ Frozen
<1>1. /\ pc[t] \in {"stable_check", "stable_body", "stable_lock"}
      /\ UNCHANGED <<shared, page>>
  BY DEF StableCheck, StableBody, StableLock
<1>2. goal[t] \in Lsn
  BY <1>1 DEF IInv, LocalsOK, ThreadOK, Place, Stabilizing
<1>3. CASE \E p : Wakes(p) /\ (ReturnOk(t, p) \/ ReturnErr(t, p))
  BY <1>1, <1>3, GotoReturn
<1>4. CASE \E label \in {"stable_body", "stable_lock", "waiting"} :
              /\ pc' = [pc EXCEPT ![t] = label]
              /\ UNCHANGED <<op, seen, res, peg, goal>>
  <2>1. PICK label \in {"stable_body", "stable_lock", "waiting"} :
              /\ pc' = [pc EXCEPT ![t] = label]
              /\ UNCHANGED <<op, seen, res, peg, goal>>
    BY <1>4
  <2> QED
    BY <1>1, <1>2, <2>1, GotoStep DEF Labels, Batching
<1>5. CASE /\ ~bufs[Cur].sealed /\ pc' = [pc EXCEPT ![t] = "seal_cas"]
           /\ seen' = [seen EXCEPT ![t] = Load(Cur, FALSE, "stable_check")]
           /\ UNCHANGED <<op, res, peg, goal>>
  <2>1. FALSE \in BOOLEAN
    OBVIOUS
  <2> QED
    BY <1>1, <1>2, <1>5, <2>1, CurIsOpen, GotoSeal
<1>6. CASE StableCheck(t)
  BY <1>3, <1>4, <1>6, WakesPc DEF StableCheck
<1>7. CASE StableBody(t)
  BY <1>3, <1>4, <1>5, <1>7, WakesPc DEF StableBody
<1>8. CASE StableLock(t)
  BY <1>3, <1>4, <1>8, WakesPc DEF StableLock
<1> QED
  BY <1>6, <1>7, <1>8
----------------------------------------------------------------------------
(* The tasks of the threadpool, but for their marks.                       *)

\* Only notifications reach the locals.
LEMMA NotifyLocals ==
  ASSUME LocalsOK, SharedOK, Frozen, Cur' = Cur, Wakes(pc'),
         UNCHANGED <<op, seen, res, peg, goal>>
  PROVE  LocalsOK'
<1>1. /\ pc' \in [Threads -> Labels]
      /\ \A u \in Threads : pc'[u] = pc[u] \/ (pc[u] = "waiting" /\ pc'[u] = "stable_body")
  BY WakesType DEF LocalsOK
<1>2. ASSUME NEW u \in Threads PROVE ThreadOK(u)' /\ HandoverOK(u)'
  <2>1. Bystander(u)
    BY <1>1 DEF Bystander
  <2> QED
    BY <2>1, CurType, BystanderOK DEF LocalsOK
<1> QED
  BY <1>1, <1>2 DEF LocalsOK

\* Writing a sealed buffer preserves the invariant.
LEMMA WriteStep ==
  ASSUME IInv, NEW x \in tasks, write_to_log(x)
  PROVE  IInv' /\ Frozen
<1>1. Frozen /\ Cur' = Cur /\ BufsOK'
  BY SameBufs DEF write_to_log, IInv
<1>2. Wakes(pc') /\ UNCHANGED <<op, seen, res, peg, goal>>
  BY DEF write_to_log, locals, Wakes
<1>3. LocalsOK'
  BY <1>1, <1>2, NotifyLocals DEF IInv
<1>4. /\ UNCHANGED <<bufs, intervals, stable_lsn, max_reserved, error, page>>
      /\ x \in TaskType /\ x.buf \in 1..Cur /\ bufs[x.buf].sealed
      /\ disk' = disk \cup {x.buf}
  BY DEF write_to_log, IInv, SharedOK, DiskOK
<1>5. /\ tasks' \subseteq TaskType
      /\ \A y \in tasks' : y \in tasks \/ y.buf = x.buf
  BY <1>4 DEF write_to_log, IInv, SharedOK, TaskType
<1>6. DiskOK'
  BY <1>1, <1>4, <1>5 DEF IInv, SharedOK, DiskOK
<1>7. IntervalsOK'
  <2>1. ASSUME NEW lsn, OnDisk(lsn) PROVE OnDisk(lsn)'
    BY <1>1, <1>4, <2>1, CurType, OnDiskStays DEF IInv
  <2> QED
    BY <1>1, <1>4, <2>1, StartStays DEF IInv, SharedOK, IntervalsOK
<1> QED
  BY <1>1, <1>3, <1>4, <1>5, <1>6, <1>7 DEF IInv, SharedOK, TaskType

\* A failing task preserves the invariant.
LEMMA TaskErrorStep ==
  ASSUME IInv, NEW x \in tasks, TaskError(x)
  PROVE  IInv' /\ Frozen
<1>1. SharedOK' /\ Frozen /\ Cur' = Cur
  BY SharedKeepsBufs DEF TaskError, IInv, SharedOK
<1>2. Wakes(pc') /\ UNCHANGED <<op, seen, res, peg, goal>>
  BY DEF TaskError, Wakes
<1> QED
  BY <1>1, <1>2, NotifyLocals DEF IInv
============================================================================
