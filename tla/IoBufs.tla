------------------------------- MODULE IoBufs -------------------------------
(***************************************************************************)
(* The lock-free write path of sled's log: threads reserve space in the    *)
(* current IO buffer, buffers are sealed and replaced, the last thread out *)
(* of a sealed buffer hands it to the threadpool, written buffers are      *)
(* folded into the contiguous stable LSN, and threads block until an LSN   *)
(* is stable (make_stable) or merely written (make_durable).               *)
(*                                                                         *)
(* src/src/pagecache/{iobuf,logger,reservation,header}.rs, and pin_log and *)
(* seal_batch of src/src/pagecache/mod.rs.                                 *)
(*                                                                         *)
(* One step is one atomic access to shared state: a load of the current    *)
(* buffer with its header, a compare-and-swap of a header, or a critical   *)
(* section under the `intervals` mutex.                                    *)
(***************************************************************************)
EXTENDS Integers, Sequences, FiniteSets, Intervals

CONSTANTS
    Threads,
    SegmentSize,      \* config.segment_size, in log bytes
    SegHeaderLen,     \* SEG_HEADER_LEN
    MaxMsgHeaderLen,  \* MAX_MSG_HEADER_LEN, the red zone at a segment's end
    MsgLens,          \* inline lengths a message may have
    ManifestLen,      \* inline length of a BatchManifest message
    MaxWriters,       \* header::MAX_WRITERS
    StartLsns,        \* LSNs the log may be (re)started at
    MaxLsn,           \* bound: no write is started once the log reaches it
    Ops,              \* Ops[t]: the operations thread t may perform
    IoErrors,         \* may writing the log fail?
    HeapErrors,       \* may writing a heap item fail?
    None

OpNames == {"write", "open_tree", "read", "flush", "snapshot", "roll", "batch"}

\* Operations that hold the shared side of the concurrency control lock; a
\* batch holds the exclusive side, the others hold neither.
SharedOps == {"write", "read", "flush", "roll"}

ASSUME SizeAssumption ==
    /\ SegmentSize \in Nat /\ SegHeaderLen \in Nat \ {0}
    /\ MaxMsgHeaderLen \in Nat \ {0} /\ MaxWriters \in Nat \ {0}
    /\ SegHeaderLen + MaxMsgHeaderLen <= SegmentSize
    /\ MaxLsn \in Nat
    /\ MsgLens \subseteq Nat /\ ManifestLen \in Nat
    /\ \A len \in MsgLens \cup {ManifestLen} :
            len > 1 /\ SegHeaderLen + len <= SegmentSize

ASSUME StartAssumption ==
    /\ StartLsns \subseteq Nat
    /\ \A lsn \in StartLsns :
            \/ lsn % SegmentSize = 0
            \/ (lsn % SegmentSize) + MaxMsgHeaderLen < SegmentSize

ASSUME OpsAssumption ==
    /\ Ops \in [Threads -> SUBSET OpNames]
    /\ IoErrors \in BOOLEAN /\ HeapErrors \in BOOLEAN

----------------------------------------------------------------------------
(* What is recorded about buffers, tasks, reservations and threads.        *)

Lsn == Nat \cup {-1}

HeaderType == [offset : Nat, writers : SUBSET Nat, sealed : BOOLEAN, maxed : BOOLEAN]

BufType == [lsn : Nat, capacity : Nat, offset : Nat, writers : SUBSET Nat,
            sealed : BOOLEAN, maxed : BOOLEAN]

IntervalsType == [stable : Lsn, synced : SUBSET Nat,
                  batches : SUBSET [low : Nat, high : Lsn]]

TaskType == [buf : Nat, notify : BOOLEAN, stage : {"queued", "synced", "failing"}]

Labels == {"idle", "reserve", "claim", "bump", "exit", "exit_spawn",
           "seal_cas", "seal_swap", "seal_spawn", "roll_iobuf", "pin_seal",
           "batch", "mark_writebatch", "stable_check", "stable_body",
           "stable_lock", "waiting"}

ResType == [buf : Nat, lsn : Nat, len : Nat]

SeenType == [buf : Nat, header : HeaderType, full : BOOLEAN,
             after : {"idle", "reserve", "batch", "stable_check"}]

ASSUME NoneAssumption == None \notin ResType \cup SeenType \cup Lsn
----------------------------------------------------------------------------
VARIABLES
    bufs,          \* every IoBuf created so far; the last one is `iobuf`
    tasks,         \* write_to_log closures given to the threadpool
    disk,          \* indices of the buffers written and fsynced
    intervals,     \* StabilityIntervals, behind its mutex
    stable_lsn,    \* the published stable LSN
    max_reserved,  \* max_reserved_lsn
    error,         \* is the global error set?
    pc, op,        \* what each thread does next, and for which operation
    seen,          \* the buffer and header a thread loaded before its CAS
    res,           \* the reservation a thread wants or holds
    peg,           \* the batch manifest reservation a thread holds
    goal,          \* the LSN a thread waits for, or seals its batch with
    page           \* LSN of the message a page in the page table points to

shared == <<bufs, tasks, disk, intervals, stable_lsn, max_reserved, error>>
locals == <<pc, op, seen, res, peg, goal>>
vars == <<shared, locals, page>>
----------------------------------------------------------------------------
(* IO buffers.  The header word is the fields offset, writers, sealed and  *)
(* maxed.  `writers` holds the LSNs of the reservations inside instead of  *)
(* their number: at one offset the set can only shrink, so two headers are *)
(* equal exactly when their words are.                                     *)

Cur == Len(bufs)

Header(i) == [offset |-> bufs[i].offset, writers |-> bufs[i].writers,
              sealed |-> bufs[i].sealed, maxed |-> bufs[i].maxed]

NextSegment(lsn) == ((lsn \div SegmentSize) + 1) * SegmentSize

\* The LSN after the last one a buffer accounts for: a maxed buffer is padded
\* to the end of its segment.
End(b) == IF b.maxed THEN NextSegment(b.lsn) ELSE b.lsn + b.offset

Extent(b) == b.lsn .. End(b) - 1

\* A buffer at the start of a segment begins with the segment header.
store_segment_header(lsn) ==
    [lsn |-> lsn, capacity |-> SegmentSize, offset |-> SegHeaderLen,
     writers |-> {}, sealed |-> FALSE, maxed |-> FALSE]

BareBuf(lsn, capacity) ==
    [lsn |-> lsn, capacity |-> capacity, offset |-> 0,
     writers |-> {}, sealed |-> FALSE, maxed |-> FALSE]

\* Mutant: a buffer that is padded to its segment's end is followed by one that
\* starts after the last message.
NextBufInPadding(b) == BareBuf(b.lsn + b.offset, b.capacity - b.offset)

\* The buffer that follows a sealed one.
NextBuf(b) ==
    IF b.maxed THEN store_segment_header(NextSegment(b.lsn))
               ELSE BareBuf(b.lsn + b.offset, b.capacity - b.offset)

BufAt(lsn) == CHOOSE i \in 1..Cur : lsn \in bufs[i].lsn .. bufs[i].lsn + bufs[i].offset - 1
----------------------------------------------------------------------------
(* IoBufs::mark_interval and Reservation::mark_writebatch reach the        *)
(* StabilityIntervals under the mutex.                                     *)

mark_batch(low, high) == intervals' = MarkBatch(intervals, low, high)

mark_fsync(S) ==
    /\ intervals' = MarkFsync(intervals, S)
    /\ stable_lsn' = Published(intervals'.stable, intervals.batches, stable_lsn)
----------------------------------------------------------------------------
(* Thread bookkeeping.                                                     *)

\* interval_updated.notify_all(): every thread blocked in make_stable resumes.
NotifyAll(p) ==
    [t \in Threads |-> IF p[t] = "waiting" THEN "stable_body" ELSE p[t]]

\* The operation at hand succeeded: back to the batch it is part of, if any.
\* `p` is pc after any notification.
ReturnOk(t, p) ==
    /\ pc' = [p EXCEPT ![t] = IF peg[t] = None THEN "idle" ELSE "batch"]
    /\ op' = [op EXCEPT ![t] = IF peg[t] = None THEN "none" ELSE @]
    /\ seen' = [seen EXCEPT ![t] = None]
    /\ res' = [res EXCEPT ![t] = None]
    /\ goal' = [goal EXCEPT ![t] = None]
    /\ UNCHANGED peg

\* It failed: the error is returned to the top.  Dropping the RecoveryGuard of
\* an enclosing batch aborts the manifest's reservation.
ReturnErr(t, p) ==
    /\ pc' = [p EXCEPT ![t] = IF peg[t] = None THEN "idle" ELSE "exit"]
    /\ op' = [op EXCEPT ![t] = IF peg[t] = None THEN "none" ELSE @]
    /\ seen' = [seen EXCEPT ![t] = None]
    /\ res' = [res EXCEPT ![t] = peg[t]]
    /\ peg' = [peg EXCEPT ![t] = None]
    /\ goal' = [goal EXCEPT ![t] = None]

\* Load the current buffer and its header, for a later compare-and-swap.  When
\* that is maybe_seal's, `full` is from_reserve and `after` where it returns.
Load(i, full, after) ==
    [buf |-> i, header |-> Header(i), full |-> full, after |-> after]

Wanted(len) == [buf |-> 0, lsn |-> 0, len |-> len]
----------------------------------------------------------------------------
Init ==
    /\ \E lsn \in StartLsns :
        /\ bufs = <<IF lsn % SegmentSize = 0
                    THEN store_segment_header(lsn)
                    ELSE BareBuf(lsn, NextSegment(lsn) - lsn)>>
        /\ intervals = [stable |-> lsn - 1, synced |-> {}, batches |-> {}]
        /\ stable_lsn = lsn - 1
        /\ max_reserved = lsn - 1
    /\ tasks = {} /\ disk = {} /\ error = FALSE
    /\ pc = [t \in Threads |-> "idle"]
    /\ op = [t \in Threads |-> "none"]
    /\ seen = [t \in Threads |-> None]
    /\ res = [t \in Threads |-> None]
    /\ peg = [t \in Threads |-> None]
    /\ goal = [t \in Threads |-> None]
    /\ page = None
----------------------------------------------------------------------------
(* Starting an operation.                                                  *)

\* concurrency_control::read() and write(), see module ConcurrencyControl.
Admitted(t, o) ==
    /\ pc[t] = "idle" /\ o \in Ops[t]
    /\ o \in SharedOps => \A u \in Threads : op[u] # "batch"
    /\ o = "batch" => \A u \in Threads : op[u] \notin SharedOps \cup {"batch"}

Room == End(bufs[Cur]) < MaxLsn

Begin(t, o, label) ==
    /\ Admitted(t, o)
    /\ pc' = [pc EXCEPT ![t] = label]
    /\ op' = [op EXCEPT ![t] = o]
    /\ UNCHANGED <<shared, seen, peg, page>>

\* Log::reserve for a page operation, or for a page of a tree being opened.
StartWrite(t) ==
    \E o \in {"write", "open_tree"}, len \in MsgLens :
        /\ Room
        /\ Begin(t, o, "reserve")
        /\ res' = [res EXCEPT ![t] = Wanted(len)]
        /\ UNCHANGED goal

\* Mutant: the barrier is the start of the current buffer.
StartFlushAtBuffer(t) ==
    \E o \in {"flush", "snapshot"} :
        /\ Begin(t, o, "stable_check")
        /\ goal' = [goal EXCEPT ![t] = bufs[Cur].lsn - 1]
        /\ UNCHANGED res

\* flush, and the same barrier taken by take_fuzzy_snapshot.
StartFlush(t) ==
    \E o \in {"flush", "snapshot"} :
        /\ Begin(t, o, "stable_check")
        /\ goal' = [goal EXCEPT ![t] = max_reserved]
        /\ UNCHANGED res

\* A page is pulled from the log: make_durable on the LSN of a message.
StartRead(t) ==
    /\ page # None
    /\ Begin(t, "read", "stable_check")
    /\ goal' = [goal EXCEPT ![t] = page]
    /\ UNCHANGED res

StartRoll(t) ==
    /\ Begin(t, "roll", "roll_iobuf")
    /\ UNCHANGED <<goal, res>>

\* pin_log, to begin a batch.
pin_log(t) ==
    /\ Room
    /\ Begin(t, "batch", "roll_iobuf")
    /\ res' = [res EXCEPT ![t] = Wanted(ManifestLen)]
    /\ UNCHANGED goal
----------------------------------------------------------------------------
(* Log::reserve_inner.                                                     *)

\* The loop's first check.
ReserveError(t) ==
    /\ pc[t] = "reserve" /\ error
    /\ ReturnErr(t, NotifyAll(pc))
    /\ UNCHANGED <<shared, page>>

\* Mutant: the red zone is not checked.
WouldOverflowCapacity(b, len) == b.offset + len > b.capacity

\* The message does not fit, or would begin in the red zone.
WouldOverflow(b, len) ==
    \/ b.offset + len > b.capacity
    \/ b.capacity - b.offset < MaxMsgHeaderLen

\* Load the current buffer.  A sealed buffer, and one with as many writers as
\* its header can count, are spun on.
ReserveLoad(t) ==
    LET b == bufs[Cur] IN
    /\ pc[t] = "reserve" /\ ~error /\ ~b.sealed
    /\ \/ /\ WouldOverflow(b, res[t].len)
          /\ seen' = [seen EXCEPT ![t] = Load(Cur, TRUE, "reserve")]
          /\ pc' = [pc EXCEPT ![t] = "seal_cas"]
       \/ /\ ~WouldOverflow(b, res[t].len)
          /\ Cardinality(b.writers) # MaxWriters
          /\ seen' = [seen EXCEPT ![t] = Load(Cur, FALSE, "reserve")]
          /\ pc' = [pc EXCEPT ![t] = "claim"]
    /\ UNCHANGED <<shared, op, res, peg, goal, page>>

\* Claim the space at the offset that was loaded, if the header passes the test.
ClaimIf(t, unchanged) ==
    LET i == seen[t].buf
        b == bufs[i]
        lsn == b.lsn + seen[t].header.offset
    IN
    /\ pc[t] = "claim"
    /\ IF unchanged
       THEN /\ bufs' = [bufs EXCEPT ![i] = [b EXCEPT !.offset = b.offset + res[t].len,
                                                    !.writers = b.writers \cup {lsn}]]
            /\ res' = [res EXCEPT ![t] = [buf |-> i, lsn |-> lsn, len |-> @.len]]
            /\ pc' = [pc EXCEPT ![t] = "bump"]
       ELSE /\ pc' = [pc EXCEPT ![t] = "reserve"]
            /\ UNCHANGED <<bufs, res>>
    /\ seen' = [seen EXCEPT ![t] = None]
    /\ UNCHANGED <<tasks, disk, intervals, stable_lsn, max_reserved, error,
                   op, peg, goal, page>>

\* Mutants: a plain store instead of a compare-and-swap; a comparison that leaves
\* out the sealed bit.
ReserveClaimBlind(t) == ClaimIf(t, ~bufs[seen[t].buf].sealed)

ReserveClaimSealed(t) == ClaimIf(t, bufs[seen[t].buf].offset = seen[t].header.offset)

\* The compare-and-swap that claims the space, entering as a writer.
ReserveClaim(t) == ClaimIf(t, Header(seen[t].buf) = seen[t].header)

bump_atomic_lsn(lsn) == max_reserved' = IF max_reserved < lsn THEN lsn ELSE max_reserved

IsManifest(t) == op[t] = "batch" /\ peg[t] = None

\* Does any thread pull pages?  Otherwise `page` need not be kept.
Pulled == \E t \in Threads : Ops[t] \cap {"read", "batch"} # {}

\* Raise max_reserved_lsn and serialize the message into the claimed bytes.  The
\* caller then tries to make a page point to the message and completes or aborts
\* the reservation.  `page` stands for the pages of the trees that are open.
ReserveFill(t) ==
    /\ pc[t] = "bump"
    /\ bump_atomic_lsn(res[t].lsn + res[t].len - 1)
    /\ IF IsManifest(t)
       THEN /\ pc' = [pc EXCEPT ![t] = "pin_seal"]
            /\ peg' = [peg EXCEPT ![t] = res[t]]
            /\ res' = [res EXCEPT ![t] = None]
            /\ UNCHANGED page
       ELSE /\ pc' = [pc EXCEPT ![t] = "exit"]
            /\ page' \in {page} \cup {lsn \in {res[t].lsn} : op[t] # "open_tree" /\ Pulled}
            /\ UNCHANGED <<peg, res>>
    /\ UNCHANGED <<bufs, tasks, disk, intervals, stable_lsn, error, op, seen, goal>>

\* encapsulate fails to write a heap item: reserve_inner returns the error, and
\* nothing takes the writer it entered out of the header again.
ReserveHeapError(t) ==
    /\ pc[t] = "bump" /\ HeapErrors /\ ~IsManifest(t)
    /\ bump_atomic_lsn(res[t].lsn + res[t].len - 1)
    /\ ReturnErr(t, pc)
    /\ UNCHANGED <<bufs, tasks, disk, intervals, stable_lsn, error, page>>
----------------------------------------------------------------------------
(* Log::exit_reservation, from Reservation::complete and abort.            *)

Task(i, notify) == [buf |-> i, notify |-> notify, stage |-> "queued"]

\* Leave the buffer to the other writers; the last one out of a sealed buffer has
\* to write it.
Leave(t, left) ==
    LET i == res[t].buf IN
    /\ pc[t] = "exit"
    /\ bufs' = [bufs EXCEPT ![i] = [bufs[i] EXCEPT !.writers = left]]
    /\ IF left = {} /\ bufs[i].sealed
       THEN /\ pc' = [pc EXCEPT ![t] = "exit_spawn"]
            /\ UNCHANGED <<op, seen, res, peg, goal>>
       ELSE ReturnOk(t, pc)
    /\ UNCHANGED <<tasks, disk, intervals, stable_lsn, max_reserved, error, page>>

\* Mutant: the writer count of an open buffer is not decremented.
exit_reservationLeaks(t) ==
    LET b == bufs[res[t].buf]
    IN  Leave(t, IF b.sealed THEN b.writers \ {res[t].lsn} ELSE b.writers)

exit_reservation(t) == Leave(t, bufs[res[t].buf].writers \ {res[t].lsn})

\* Unless an error was hit, have the threadpool write the buffer.  The closure
\* does not notify anyone when the write fails.
ExitSpawn(t) ==
    /\ pc[t] = "exit_spawn"
    /\ IF error
       THEN ReturnErr(t, NotifyAll(pc)) /\ UNCHANGED tasks
       ELSE ReturnOk(t, pc) /\ tasks' = tasks \cup {Task(res[t].buf, FALSE)}
    /\ UNCHANGED <<bufs, disk, intervals, stable_lsn, max_reserved, error, page>>
----------------------------------------------------------------------------
(* maybe_seal_and_write_iobuf.                                             *)

SealReturn(t, p) ==
    IF seen[t].after = "idle"
    THEN ReturnOk(t, p)
    ELSE /\ pc' = [p EXCEPT ![t] = seen[t].after]
         /\ seen' = [seen EXCEPT ![t] = None]
         /\ UNCHANGED <<op, res, peg, goal>>

\* Seal the header that was loaded; a lost race is not retried.
SealCas(t) ==
    LET i == seen[t].buf
        maxed == \/ seen[t].full
                 \/ bufs[i].capacity - seen[t].header.offset < MaxMsgHeaderLen
    IN
    /\ pc[t] = "seal_cas"
    /\ IF Header(i) = seen[t].header
       THEN /\ bufs' = [bufs EXCEPT ![i] = [bufs[i] EXCEPT !.sealed = TRUE, !.maxed = maxed]]
            /\ pc' = [pc EXCEPT ![t] = "seal_swap"]
            /\ UNCHANGED <<op, seen, res, peg, goal>>
       ELSE SealReturn(t, pc) /\ UNCHANGED bufs
    /\ UNCHANGED <<tasks, disk, intervals, stable_lsn, max_reserved, error, page>>

\* Install the next buffer, under the intervals mutex.  The sealer goes on to write
\* the buffer if nobody was left inside.
Install(t, alone) ==
    /\ pc[t] = "seal_swap"
    /\ bufs' = Append(bufs, NextBuf(bufs[seen[t].buf]))
    /\ IF alone
       THEN /\ pc' = [NotifyAll(pc) EXCEPT ![t] = "seal_spawn"]
            /\ UNCHANGED <<op, seen, res, peg, goal>>
       ELSE SealReturn(t, NotifyAll(pc))
    /\ UNCHANGED <<tasks, disk, intervals, stable_lsn, max_reserved, error, page>>

\* Mutant: who writes the buffer is decided from its header as it is now.
SealSwapReload(t) == Install(t, bufs[seen[t].buf].writers = {})

\* It is decided from the header that was sealed.
SealSwap(t) == Install(t, seen[t].header.writers = {})

\* The segment accountant has no segment to offer.
SealError(t) ==
    /\ pc[t] = "seal_swap" /\ IoErrors /\ bufs[seen[t].buf].maxed
    /\ error' = TRUE
    /\ ReturnErr(t, NotifyAll(pc))
    /\ UNCHANGED <<bufs, tasks, disk, intervals, stable_lsn, max_reserved, page>>

\* No writer was inside when the buffer was sealed: have it written.
SealSpawn(t) ==
    /\ pc[t] = "seal_spawn"
    /\ IF error
       THEN ReturnErr(t, pc) /\ UNCHANGED tasks
       ELSE SealReturn(t, pc) /\ tasks' = tasks \cup {Task(seen[t].buf, TRUE)}
    /\ UNCHANGED <<bufs, disk, intervals, stable_lsn, max_reserved, error, page>>
----------------------------------------------------------------------------
(* roll_iobuf, on its own and as the first step of pin_log, and pin_log's  *)
(* attempt to seal the buffer that holds its manifest.                     *)

roll_iobuf(t) ==
    LET b == bufs[Cur]
        after == IF op[t] = "roll" THEN "idle" ELSE "reserve"
    IN
    /\ pc[t] = "roll_iobuf"
    /\ IF b.sealed \/ b.offset = 0
       THEN IF after = "idle"
            THEN ReturnOk(t, pc)
            ELSE /\ pc' = [pc EXCEPT ![t] = after]
                 /\ UNCHANGED <<op, seen, res, peg, goal>>
       ELSE /\ seen' = [seen EXCEPT ![t] = Load(Cur, FALSE, after)]
            /\ pc' = [pc EXCEPT ![t] = "seal_cas"]
            /\ UNCHANGED <<op, res, peg, goal>>
    /\ UNCHANGED <<shared, page>>

PinSeal(t) ==
    LET i == peg[t].buf IN
    /\ pc[t] = "pin_seal"
    /\ IF bufs[i].sealed
       THEN pc' = [pc EXCEPT ![t] = "batch"] /\ UNCHANGED seen
       ELSE /\ pc' = [pc EXCEPT ![t] = "seal_cas"]
            /\ seen' = [seen EXCEPT ![t] = Load(i, FALSE, "batch")]
    /\ UNCHANGED <<shared, op, res, peg, goal, page>>
----------------------------------------------------------------------------
(* The body of a batch, and RecoveryGuard::seal_batch.                     *)

BatchWrite(t) ==
    /\ pc[t] = "batch" /\ Room
    /\ \E len \in MsgLens : res' = [res EXCEPT ![t] = Wanted(len)]
    /\ pc' = [pc EXCEPT ![t] = "reserve"]
    /\ UNCHANGED <<shared, op, seen, peg, goal, page>>

BatchRead(t) ==
    /\ pc[t] = "batch" /\ page # None
    /\ goal' = [goal EXCEPT ![t] = page]
    /\ pc' = [pc EXCEPT ![t] = "stable_check"]
    /\ UNCHANGED <<shared, op, seen, res, peg, page>>

\* Everything reserved by now belongs to the batch.
seal_batch(t) ==
    /\ pc[t] = "batch"
    /\ goal' = [goal EXCEPT ![t] = max_reserved]
    /\ pc' = [pc EXCEPT ![t] = "mark_writebatch"]
    /\ UNCHANGED <<shared, op, seen, res, peg, page>>

\* Record the batch, then complete the manifest; a batch that ends at its own
\* manifest's LSN is aborted instead.
mark_writebatch(t) ==
    /\ pc[t] = "mark_writebatch"
    /\ IF peg[t].lsn = goal[t]
       THEN UNCHANGED intervals
       ELSE mark_batch(peg[t].lsn, goal[t])
    /\ pc' = [pc EXCEPT ![t] = "exit"]
    /\ res' = [res EXCEPT ![t] = peg[t]]
    /\ peg' = [peg EXCEPT ![t] = None]
    /\ goal' = [goal EXCEPT ![t] = None]
    /\ UNCHANGED <<bufs, tasks, disk, stable_lsn, max_reserved, error, op, seen, page>>
----------------------------------------------------------------------------
(* make_stable_inner.                                                      *)

\* make_durable, used to read a message back, accepts partial durability.
Partial(t) == op[t] \in {"read", "batch"}

\* The loop condition, with a fresh load of the stable LSN.
StableCheck(t) ==
    /\ pc[t] = "stable_check"
    /\ IF stable_lsn >= goal[t]
       THEN ReturnOk(t, pc)
       ELSE /\ pc' = [pc EXCEPT ![t] = "stable_body"]
            /\ UNCHANGED <<op, seen, res, peg, goal>>
    /\ UNCHANGED <<shared, page>>

\* Seal the current buffer if the LSN waited for may be in it.
StableBody(t) ==
    LET b == bufs[Cur] IN
    /\ pc[t] = "stable_body"
    /\ IF error
       THEN ReturnErr(t, NotifyAll(pc))
       ELSE IF b.offset = 0 \/ b.sealed \/ b.lsn > goal[t]
       THEN /\ pc' = [pc EXCEPT ![t] = "stable_lock"]
            /\ UNCHANGED <<op, seen, res, peg, goal>>
       ELSE /\ pc' = [pc EXCEPT ![t] = "seal_cas"]
            /\ seen' = [seen EXCEPT ![t] = Load(Cur, FALSE, "stable_check")]
            /\ UNCHANGED <<op, res, peg, goal>>
    /\ UNCHANGED <<shared, page>>

\* Is the first part of the message at `lsn` known to be written?
Written(lsn) == intervals.stable > lsn \/ {lsn, lsn + 1} \subseteq intervals.synced

\* Under the intervals mutex: return, or wait on interval_updated.
StableLock(t) ==
    /\ pc[t] = "stable_lock"
    /\ IF error
       THEN ReturnErr(t, NotifyAll(pc))
       ELSE IF stable_lsn >= goal[t] \/ (Partial(t) /\ Written(goal[t]))
       THEN ReturnOk(t, pc)
       ELSE /\ pc' = [pc EXCEPT ![t] = "waiting"]
            /\ UNCHANGED <<op, seen, res, peg, goal>>
    /\ UNCHANGED <<shared, page>>
----------------------------------------------------------------------------
(* IoBufs::write_to_log, run by the threadpool.                            *)

\* Pad, pwrite and fsync the buffer.
write_to_log(x) ==
    /\ x.stage = "queued"
    /\ disk' = disk \cup {x.buf}
    /\ tasks' = (tasks \ {x}) \cup {[x EXCEPT !.stage = "synced"]}
    /\ UNCHANGED <<bufs, intervals, stable_lsn, max_reserved, error, locals, page>>

\* Mutant: a buffer is marked before it is written.
mark_intervalFirst(x) ==
    /\ x.stage \in {"queued", "synced"}
    /\ mark_fsync(Extent(bufs[x.buf]))
    /\ pc' = NotifyAll(pc)
    /\ tasks' = tasks \ {x}
    /\ UNCHANGED <<bufs, disk, max_reserved, error, op, seen, res, peg, goal, page>>

\* Fold the buffer into the stable prefix.  sa_stabilize follows, and may fail.
mark_interval(x) ==
    /\ x.stage = "synced"
    /\ mark_fsync(Extent(bufs[x.buf]))
    /\ pc' = NotifyAll(pc)
    /\ \/ tasks' = tasks \ {x}
       \/ IoErrors /\ tasks' = (tasks \ {x}) \cup {[x EXCEPT !.stage = "failing"]}
    /\ UNCHANGED <<bufs, disk, max_reserved, error, op, seen, res, peg, goal, page>>

\* The write, the fsync or sa_stabilize failed.
TaskError(x) ==
    /\ IoErrors /\ x.stage \in {"queued", "failing"}
    /\ error' = TRUE
    /\ pc' = IF x.notify THEN NotifyAll(pc) ELSE pc
    /\ tasks' = tasks \ {x}
    /\ UNCHANGED <<bufs, disk, intervals, stable_lsn, max_reserved,
                   op, seen, res, peg, goal, page>>
----------------------------------------------------------------------------
Start(t) == StartWrite(t) \/ StartFlush(t) \/ StartRead(t) \/ StartRoll(t) \/ pin_log(t)

\* What a thread does within an operation without waiting for its client.
Step(t) ==
    \/ ReserveError(t) \/ ReserveLoad(t) \/ ReserveClaim(t)
    \/ ReserveFill(t) \/ ReserveHeapError(t)
    \/ exit_reservation(t) \/ ExitSpawn(t)
    \/ SealCas(t) \/ SealSwap(t) \/ SealError(t) \/ SealSpawn(t)
    \/ roll_iobuf(t) \/ PinSeal(t) \/ mark_writebatch(t)
    \/ StableCheck(t) \/ StableBody(t) \/ StableLock(t)

TaskStep ==
    \E x \in tasks : write_to_log(x) \/ mark_interval(x) \/ TaskError(x)

Next ==
    \/ \E t \in Threads :
        Start(t) \/ Step(t) \/ BatchWrite(t) \/ BatchRead(t) \/ seal_batch(t)
    \/ TaskStep

Spec == Init /\ [][Next]_vars

\* Threads inside an operation are scheduled, the threadpool runs its tasks, and
\* a batch consists of finitely many operations.
Fairness ==
    /\ \A t \in Threads : WF_vars(Step(t)) /\ SF_vars(seal_batch(t))
    /\ WF_vars(TaskStep)

FairSpec == Spec /\ Fairness
----------------------------------------------------------------------------
(* Properties.                                                             *)

\* Type invariant of the IoBufs state and of the locals of the threads in it; no
\* buffer is filled beyond its capacity.
TypeOK ==
    /\ bufs \in Seq(BufType) /\ bufs # <<>>
    /\ \A i \in 1..Cur : bufs[i].offset <= bufs[i].capacity
    /\ tasks \subseteq TaskType /\ disk \subseteq Nat
    /\ intervals \in IntervalsType
    /\ stable_lsn \in Lsn /\ max_reserved \in Lsn /\ error \in BOOLEAN
    /\ pc \in [Threads -> Labels]
    /\ op \in [Threads -> OpNames \cup {"none"}]
    /\ seen \in [Threads -> SeenType \cup {None}]
    /\ res \in [Threads -> ResType \cup {None}]
    /\ peg \in [Threads -> ResType \cup {None}]
    /\ goal \in [Threads -> Lsn \cup {None}]
    /\ page \in Nat \cup {None}

Bytes(r) == r.lsn .. r.lsn + r.len - 1

\* The live Reservations: whose holder may still write into its slice.
Held == {<<t, res[t]>> : t \in {u \in Threads : pc[u] \in {"bump", "exit"}}}
        \cup {<<t, peg[t]>> : t \in {u \in Threads : peg[u] # None}}

Writing == {x \in tasks : x.stage = "queued"}

\* IoBuf::get_mut_range hands out no two overlapping mutable slices: neither two
\* reservations, nor a reservation and a buffer being padded and written, nor
\* two buffers being written.
NoAliasing ==
    /\ \A h, k \in Held : h # k => Bytes(h[2]) \cap Bytes(k[2]) = {}
    /\ \A h \in Held, x \in Writing : Bytes(h[2]) \cap Extent(bufs[x.buf]) = {}
    /\ \A x, y \in Writing :
            x # y => Extent(bufs[x.buf]) \cap Extent(bufs[y.buf]) = {}

\* A reservation ends within its segment and never begins in the red zone of
\* MAX_MSG_HEADER_LEN bytes where recovery assumes no message begins.
RedZoneRespected ==
    \A h \in Held :
        /\ h[2].lsn + h[2].len <= NextSegment(h[2].lsn)
        /\ NextSegment(h[2].lsn) - h[2].lsn >= MaxMsgHeaderLen

\* Who is responsible for having buffer i written from here on.
Owners(i) ==
    {<<"sealer", t>> : t \in {u \in Threads :
        /\ pc[u] \in {"seal_swap", "seal_spawn"}
        /\ seen[u].buf = i /\ seen[u].header.writers = {}}}
    \cup {<<"last writer", t>> : t \in {u \in Threads :
        pc[u] = "exit_spawn" /\ res[u].buf = i}}
    \cup {<<"task", x>> : x \in {y \in Writing : y.buf = i}}
    \cup (IF i \in disk THEN {<<"done", i>>} ELSE {})

\* The handover between the sealer and the last writer of a buffer loses no
\* buffer and duplicates none: a sealed buffer without writers has exactly one
\* thread or task that will write it, or is written; one with writers, or not
\* sealed, has none.  Only an error leaves a buffer unwritten.
WrittenExactlyOnce ==
    \A i \in 1..Cur :
        IF bufs[i].sealed /\ bufs[i].writers = {}
        THEN Cardinality(Owners(i)) = 1 \/ (error /\ Owners(i) = {})
        ELSE Owners(i) = {}

StartLsn == bufs[1].lsn

OnDisk(lsn) == \E i \in disk : lsn \in Extent(bufs[i])

\* Every LSN up to the published stable LSN has been written and fsynced,
\* whatever the order the threadpool writes buffers in: stable_lsn is "the
\* highest CONTIGUOUS log sequence number that has been written".
StableIsDurable == \A lsn \in StartLsn..stable_lsn : OnDisk(lsn)

\* The stable LSN never lies inside a batch: neither in one whose manifest is
\* still held, nor in a sealed one that is not on disk completely.
BatchesStabilizeAtomically ==
    /\ \A t \in Threads : peg[t] # None => stable_lsn < peg[t].lsn
    /\ \A b \in intervals.batches : stable_lsn < b.low /\ stable_lsn < b.high

\* The assertions on batches in mark_batch and mark_fsync: when a batch is marked
\* its manifest is not stable yet, although every buffer below it may be, the
\* batch is not empty, and it lies above the batches marked before it.
BatchMarksAreOrdered ==
    \A t \in Threads : pc[t] = "mark_writebatch" =>
        /\ intervals.stable < peg[t].lsn /\ peg[t].lsn < goal[t]
        /\ \A b \in intervals.batches : b.high < peg[t].lsn

\* Every writer counted in a header is a reservation some thread holds and will
\* complete or abort, so no buffer is kept from being written for ever: "We
\* auto-abort if the user never uses a reservation".
WritersAreHeld ==
    \A i \in 1..Cur : \A lsn \in bufs[i].writers :
        \E h \in Held : h[2].buf = i /\ h[2].lsn = lsn

\* The assertion in mark_fsync: a buffer's interval is above the stable prefix
\* and none of it has been marked before.
IntervalsAreNew ==
    \A x \in tasks : x.stage = "synced" =>
        \A lsn \in Extent(bufs[x.buf]) :
            lsn > intervals.stable /\ lsn \notin intervals.synced

\* The assertions of StabilityIntervals hold whenever it is called.
AssertionsHold == IntervalsAreNew /\ BatchMarksAreOrdered

\* Once sealed, a buffer's extent is final: no thread that loaded its header
\* earlier still claims space in it or seals it again, so the bytes that are
\* padded and written are the ones that were reserved.
SealedIsFinal ==
    [][\A i \in 1..Cur : bufs[i].sealed =>
        /\ bufs'[i].sealed /\ bufs'[i].offset = bufs[i].offset
        /\ Extent(bufs'[i]) = Extent(bufs[i])]_vars

Finishes(t) == pc[t] # "idle" /\ pc'[t] = "idle"

\* The bytes of messages whose reserve() has returned.
Reserved ==
    LET first(b) == IF b.lsn % SegmentSize = 0 THEN b.lsn + SegHeaderLen ELSE b.lsn
    IN  UNION {first(bufs[i]) .. bufs[i].lsn + bufs[i].offset - 1 : i \in 1..Cur}
        \ UNION {Bytes(res[t]) : t \in {u \in Threads : pc[u] = "bump"}}

\* A flush is a barrier: when it is called it covers everything reserved by then,
\* and when it returns without an error all that is durable.  (stable_check only
\* returns Ok; from elsewhere the error is returned when there is one.)
FlushCovers ==
    \A t \in Threads :
        /\ op[t] # "flush" /\ op'[t] = "flush" => \A lsn \in Reserved : lsn <= goal'[t]
        /\ op[t] = "flush" /\ Finishes(t) /\ (pc[t] = "stable_check" \/ ~error')
            => \A lsn \in StartLsn..goal[t] : OnDisk(lsn)
FlushIsABarrier == [][FlushCovers]_vars

\* make_durable returns without an error only once the message is on disk, also
\* when it is not part of the contiguous prefix.
ReadWaits ==
    \A t \in Threads :
        pc[t] \in {"stable_check", "stable_lock"} /\ Partial(t) /\ ~error
        /\ pc'[t] \in {"idle", "batch"}
            => \A lsn \in {goal[t], goal[t] + 1} : OnDisk(lsn)
ReadsAreDurable == [][ReadWaits]_vars

\* Every flush, and every other operation, comes back to its caller.
OperationsReturn == \A t \in Threads : pc[t] # "idle" ~> pc[t] = "idle"

\* Threads blocked on an LSN are woken once the global error is set.
ErrorsWakeWaiters ==
    \A t \in Threads : (error /\ pc[t] = "waiting") ~> pc[t] # "waiting"

\* pin_log rolls the buffer before and after reserving the manifest "to avoid a
\* deadlock where the batch reservation causes writes to fail to flush to
\* disk": a batch never waits for a message in the buffer its own manifest
\* reservation keeps from being written.
PinAvoidsDeadlock ==
    \A t \in Threads :
        pc[t] = "waiting" /\ peg[t] # None => BufAt(goal[t]) # peg[t].buf

\* A batch in which nothing was reserved is aborted instead of being recorded.
EmptyBatchesAreAborted ==
    [][\A t \in Threads :
        pc[t] = "mark_writebatch" /\ goal[t] = peg[t].lsn + peg[t].len - 1
            => intervals' = intervals \/ pc'[t] = pc[t]]_vars
----------------------------------------------------------------------------
Durable == UNION {Extent(bufs[i]) : i \in disk}

Log == INSTANCE DurableLog WITH
    tip <- End(bufs[Cur]), durable <- Durable,
    stable <- stable_lsn, batches <- intervals.batches

\* IO buffers, headers, tasks and intervals implement the durable log: every
\* step of any thread is a step of the abstract log or invisible to it.
ImplementsDurableLog == Log!Spec
============================================================================
