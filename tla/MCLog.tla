------------------------------- MODULE MCLog --------------------------------
(***************************************************************************)
(* IdGen with two threads, and instances of the log that it writes to:     *)
(* IoBufs (batches beside writers, beside trees being opened and beside    *)
(* flushes; writers while writes fail), StabilityIntervals, and            *)
(* HeaderWord.                                                             *)
(***************************************************************************)
EXTENDS IdGen, TLC

CONSTANTS t, u

VARIABLES
  case,  \* which instance runs
  \* of IoBufs
  bufs, tasks, disk, intervals, stable_lsn, max_reserved, error, step, op, seen,
  res, peg, goal, page_lsn,
  \* of StabilityIntervals (with the names above that it shares)
  fsynced_ranges, batches, published, tip, unmarked, pinned,
  \* of HeaderWord
  word, capacity, fields

suiteVars == <<case, vars, bufs, tasks, disk, intervals, stable_lsn, max_reserved,
               error, step, op, seen, res, peg, goal, page_lsn, fsynced_ranges,
               batches, published, tip, unmarked, pinned, word, capacity, fields>>

Batch == INSTANCE IoBufs WITH
  Threads <- {t, u}, SegmentSize <- 7, SegHeaderLen <- 1, MaxMsgHeaderLen <- 2,
  MsgLens <- {2}, ManifestLen <- 2, MaxWriters <- 2, StartLsns <- {0}, MaxLsn <- 7,
  Ops <- (t :> {"write", "snapshot"} @@ u :> {"batch"}), IoErrors <- FALSE,
  HeapErrors <- FALSE, pc <- step, page <- page_lsn
OpenTree == INSTANCE IoBufs WITH
  Threads <- {t, u}, SegmentSize <- 7, SegHeaderLen <- 1, MaxMsgHeaderLen <- 2,
  MsgLens <- {2}, ManifestLen <- 2, MaxWriters <- 2, StartLsns <- {0}, MaxLsn <- 7,
  Ops <- (t :> {"open_tree"} @@ u :> {"batch"}), IoErrors <- FALSE,
  HeapErrors <- FALSE, pc <- step, page <- page_lsn
Barrier == INSTANCE IoBufs WITH
  Threads <- {t, u}, SegmentSize <- 7, SegHeaderLen <- 1, MaxMsgHeaderLen <- 2,
  MsgLens <- {2, 3}, ManifestLen <- 2, MaxWriters <- 2, StartLsns <- {0},
  MaxLsn <- 7, Ops <- (t :> {"write", "batch"} @@ u :> {"flush", "read"}),
  IoErrors <- FALSE, HeapErrors <- FALSE, pc <- step, page <- page_lsn
Errors == INSTANCE IoBufs WITH
  Threads <- {t, u}, SegmentSize <- 5, SegHeaderLen <- 1, MaxMsgHeaderLen <- 2,
  MsgLens <- {2}, ManifestLen <- 2, MaxWriters <- 2, StartLsns <- {0}, MaxLsn <- 5,
  Ops <- (t :> {"write"} @@ u :> {"flush", "roll"}), IoErrors <- TRUE,
  HeapErrors <- TRUE, pc <- step, page <- page_lsn
Marks == INSTANCE StabilityIntervals WITH
  MaxLsn <- 7, MaxLen <- 3
Word == INSTANCE HeaderWord WITH
  OffsetBits <- 5, WriterBits <- 2, SaltBits <- 2, SegmentSize <- 16,
  SegHeaderLen <- 3, MaxMsgHeaderLen <- 2

\* A component that does not run is left out of the state; IdGen stays as it begins.
NotIoBufs == <<vars, fsynced_ranges, batches, published, tip, unmarked, pinned,
               word, capacity, fields>>
OnlyIoBufs ==
  /\ fsynced_ranges = 0 /\ batches = 0 /\ published = 0 /\ tip = 0
  /\ unmarked = 0 /\ pinned = 0 /\ word = 0 /\ capacity = 0 /\ fields = 0
NotStabilityIntervals == <<vars, bufs, tasks, disk, intervals, max_reserved, error,
                           step, op, seen, res, peg, goal, page_lsn, word,
                           capacity, fields>>
OnlyStabilityIntervals ==
  /\ bufs = 0 /\ tasks = 0 /\ disk = 0 /\ intervals = 0 /\ max_reserved = 0
  /\ error = 0 /\ step = 0 /\ op = 0 /\ seen = 0 /\ res = 0 /\ peg = 0
  /\ goal = 0 /\ page_lsn = 0 /\ word = 0 /\ capacity = 0 /\ fields = 0
NotHeaderWord == <<vars, bufs, tasks, disk, intervals, stable_lsn, max_reserved,
                   error, step, op, seen, res, peg, goal, page_lsn, fsynced_ranges,
                   batches, published, tip, unmarked, pinned>>
OnlyHeaderWord ==
  /\ bufs = 0 /\ tasks = 0 /\ disk = 0 /\ intervals = 0 /\ stable_lsn = 0
  /\ max_reserved = 0 /\ error = 0 /\ step = 0 /\ op = 0 /\ seen = 0 /\ res = 0
  /\ peg = 0 /\ goal = 0 /\ page_lsn = 0 /\ fsynced_ranges = 0 /\ batches = 0
  /\ published = 0 /\ tip = 0 /\ unmarked = 0 /\ pinned = 0
NotIdGen == <<bufs, tasks, disk, intervals, stable_lsn, max_reserved, error, step,
              op, seen, res, peg, goal, page_lsn, fsynced_ranges, batches,
              published, tip, unmarked, pinned, word, capacity, fields>>
OnlyIdGen ==
  /\ bufs = 0 /\ tasks = 0 /\ disk = 0 /\ intervals = 0 /\ stable_lsn = 0
  /\ max_reserved = 0 /\ error = 0 /\ step = 0 /\ op = 0 /\ seen = 0 /\ res = 0
  /\ peg = 0 /\ goal = 0 /\ page_lsn = 0 /\ fsynced_ranges = 0 /\ batches = 0
  /\ published = 0 /\ tip = 0 /\ unmarked = 0 /\ pinned = 0 /\ word = 0
  /\ capacity = 0 /\ fields = 0

SuiteInit ==
  /\ Init
  /\ \/ case = "ids" /\ OnlyIdGen
     \/ case = "batch" /\ Batch!Init /\ OnlyIoBufs
     \/ case = "open_tree" /\ OpenTree!Init /\ OnlyIoBufs
     \/ case = "barrier" /\ Barrier!Init /\ OnlyIoBufs
     \/ case = "errors" /\ Errors!Init /\ OnlyIoBufs
     \/ case = "intervals" /\ Marks!Init /\ OnlyStabilityIntervals
     \/ case = "word" /\ Word!Init /\ OnlyHeaderWord

SuiteNext ==
  /\ UNCHANGED case
  /\ \/ case = "ids" /\ Next /\ UNCHANGED NotIdGen
     \/ case = "batch" /\ Batch!Next /\ UNCHANGED NotIoBufs
     \/ case = "open_tree" /\ OpenTree!Next /\ UNCHANGED NotIoBufs
     \/ case = "barrier" /\ Barrier!Next /\ UNCHANGED NotIoBufs
     \/ case = "errors" /\ Errors!Next /\ UNCHANGED NotIoBufs
     \/ case = "intervals" /\ Marks!Next /\ UNCHANGED NotStabilityIntervals
     \/ case = "word" /\ Word!Next /\ UNCHANGED NotHeaderWord

SuiteSpec == SuiteInit /\ [][SuiteNext]_suiteVars
-----------------------------------------------------------------------------
Symmetry == Permutations(Threads)

\* Type invariant of the IO buffers, the intervals and the header word.
LogTypeOK ==
  /\ case = "batch" => Batch!TypeOK
  /\ case = "open_tree" => OpenTree!TypeOK
  /\ case = "barrier" => Barrier!TypeOK
  /\ case = "errors" => Errors!TypeOK
  /\ case = "intervals" => Marks!TypeOK
  /\ case = "word" => Word!TypeOK

\* The stable LSN never lies inside a batch: neither in one whose manifest is still
\* held, nor in a sealed one that is not on disk completely.
BatchesStabilizeAtomically ==
  /\ case = "batch" => Batch!BatchesStabilizeAtomically
  /\ case = "open_tree" => OpenTree!BatchesStabilizeAtomically
  /\ case = "barrier" => Barrier!BatchesStabilizeAtomically

\* The assertions on batches in mark_batch and mark_fsync: when a batch is marked
\* its manifest is not stable yet, the batch is not empty, and it lies above the
\* batches marked before it.
BatchMarksAreOrdered ==
  /\ case = "batch" => Batch!BatchMarksAreOrdered
  /\ case = "open_tree" => OpenTree!BatchMarksAreOrdered
  /\ case = "barrier" => Barrier!BatchMarksAreOrdered

\* pin_log rolls the buffer before and after reserving the manifest "to avoid a
\* deadlock where the batch reservation causes writes to fail to flush to disk": a
\* batch never waits for a message in the buffer its own manifest reservation keeps
\* from being written, as long as no tree is opened beside it.
PinAvoidsDeadlock ==
  case = "batch" => Batch!PinAvoidsDeadlock

\* A flush is a barrier: when it is called it covers everything reserved by then,
\* and when it returns without an error all that is durable.
FlushIsABarrier ==
  [][/\ case = "barrier" => Barrier!FlushCovers
     /\ case = "errors" => Errors!FlushCovers]_suiteVars

\* make_durable returns without an error only once the message is on disk, also
\* when it is not part of the contiguous prefix.
ReadsAreDurable == [][case = "barrier" => Barrier!ReadWaits]_suiteVars

\* Whoever waits for the log is told of nothing that is not on disk.
WaitersAreToldTheTruth == FlushIsABarrier /\ ReadsAreDurable

\* When writes fail, as when they do not, a buffer is written by one thread at most
\* (handover between the sealer and the last writer).
WrittenExactlyOnce ==
  case = "errors" => Errors!WrittenExactlyOnce

\* Every LSN up to the published stable LSN has been written and fsynced, also when
\* other buffers have failed.
StableIsDurable ==
  case = "errors" => Errors!StableIsDurable

\* The assertions in mark_fsync's first loop: merging with the last range and sorting
\* keep the ranges non-empty, disjoint and in descending order, and the lowest of
\* them, looked at first, leaves a gap above the stable LSN.
RangesAreDescending ==
  case = "intervals" => Marks!RangesAreDescending

\* mark_fsync's loops over the vector and the map compute what module Intervals
\* defines on sets, and publish the same LSN, whatever the order of the marks.
AgreesWithIntervals == [][case = "intervals" => Marks!MarksAsIntervals]_suiteVars

\* mark_fsync returning None hides progress only while a batch is pending: when the
\* last batch is settled, the published LSN has caught up with the prefix.
NothingStaysHidden ==
  case = "intervals" => Marks!NothingStaysHidden

\* The published LSN is below every buffer that is not marked, below every batch that
\* is sealed and not settled, and below a manifest still being held.
PublishedIsSafe ==
  case = "intervals" => Marks!PublishedIsSafe

\* No field of the header word carries into the next: after any reservations, exits
\* and seals each accessor of header.rs returns what the operations add up to.
FieldsAgree ==
  case = "word" => Word!FieldsAgree

\* What the log's own bookkeeping and its assertions rely on, with batches and with
\* writes that fail; in the intervals and in the header word.
LogIsSound ==
  /\ TypeOK /\ LogTypeOK
  /\ BatchesStabilizeAtomically /\ BatchMarksAreOrdered /\ PinAvoidsDeadlock
  /\ WrittenExactlyOnce /\ StableIsDurable
  /\ RangesAreDescending /\ NothingStaysHidden /\ PublishedIsSafe /\ FieldsAgree
=============================================================================
