---------------------------- MODULE MCSegments ------------------------------
(***************************************************************************)
(* Instances of SegmentAccountant (operations applied in any order,        *)
(* segments used again, restarts) and of Heap (errors and reuse, crashes,  *)
(* two pages that share a slab).                                           *)
(***************************************************************************)
EXTENDS Integers, TLC

CONSTANTS t, u, v, p, q, p3, None

VARIABLES
  case,  \* which instance runs
  \* of SegmentAccountant
  sa, deferred, disk, log, stable, page, snapshot_min_lsn, op,
  \* of Heap (with the names above that it shares)
  slots, file_tip, tip, free, freeing, removals, pt, durable, inactive, snap, th,
  mode, era, failure

vars == <<case, sa, deferred, disk, log, stable, page, snapshot_min_lsn, op, slots,
          file_tip, tip, free, freeing, removals, pt, durable, inactive, snap, th,
          mode, era, failure>>

Race == INSTANCE SegmentAccountant WITH
  Threads <- {t, u}, Pids <- {p, q}, HeapPids <- {}, SegSize <- 2,
  MaxMessages <- 5, Threshold <- 50, ManyInactive <- 1, Links <- TRUE,
  Aborts <- FALSE, Crashes <- FALSE, Snapshots <- FALSE
Reuse == INSTANCE SegmentAccountant WITH
  Threads <- {v}, Pids <- {p, q}, HeapPids <- {p, q}, SegSize <- 1,
  MaxMessages <- 5, Threshold <- 50, ManyInactive <- 1, Links <- FALSE,
  Aborts <- TRUE, Crashes <- FALSE, Snapshots <- TRUE
Restart == INSTANCE SegmentAccountant WITH
  Threads <- {v}, Pids <- {p, q}, HeapPids <- {p, q}, SegSize <- 1,
  MaxMessages <- 5, Threshold <- 50, ManyInactive <- 1, Links <- FALSE,
  Aborts <- FALSE, Crashes <- TRUE, Snapshots <- FALSE
Items == INSTANCE Heap WITH
  Threads <- {t, u}, Pids <- {p3}, MaxLsn <- 4, MaxSlots <- 3, MaxCrashes <- 0,
  Snapshots <- FALSE, Errors <- TRUE
ItemsCrash == INSTANCE Heap WITH
  Threads <- {t, u}, Pids <- {p3}, MaxLsn <- 3, MaxSlots <- 2, MaxCrashes <- 1,
  Snapshots <- TRUE, Errors <- FALSE
ItemsPages == INSTANCE Heap WITH
  Threads <- {v}, Pids <- {p, q}, MaxLsn <- 4, MaxSlots <- 2, MaxCrashes <- 1,
  Snapshots <- TRUE, Errors <- FALSE

\* A component that does not run is left out of the state.
NotSegmentAccountant == <<slots, file_tip, tip, free, freeing, removals, pt,
                          durable, inactive, snap, th, mode, era, failure>>
OnlySegmentAccountant ==
  /\ slots = 0 /\ file_tip = 0 /\ tip = 0 /\ free = 0 /\ freeing = 0
  /\ removals = 0 /\ pt = 0 /\ durable = 0 /\ inactive = 0 /\ snap = 0 /\ th = 0
  /\ mode = 0 /\ era = 0 /\ failure = 0
NotHeap == <<sa, deferred, disk, stable, page, snapshot_min_lsn, op>>
OnlyHeap ==
  /\ sa = 0 /\ deferred = 0 /\ disk = 0 /\ stable = 0 /\ page = 0
  /\ snapshot_min_lsn = 0 /\ op = 0

Init ==
  \/ case = "race" /\ Race!Init /\ OnlySegmentAccountant
  \/ case = "reuse" /\ Reuse!Init /\ OnlySegmentAccountant
  \/ case = "restart" /\ Restart!Init /\ OnlySegmentAccountant
  \/ case = "heap" /\ Items!Init /\ OnlyHeap
  \/ case = "heap_crash" /\ ItemsCrash!Init /\ OnlyHeap
  \/ case = "heap_pages" /\ ItemsPages!Init /\ OnlyHeap

Next ==
  /\ UNCHANGED case
  /\ \/ case = "race" /\ Race!Next /\ UNCHANGED NotSegmentAccountant
     \/ case = "reuse" /\ Reuse!Next /\ UNCHANGED NotSegmentAccountant
     \/ case = "restart" /\ Restart!Next /\ UNCHANGED NotSegmentAccountant
     \/ case = "heap" /\ Items!Next /\ UNCHANGED NotHeap
     \/ case = "heap_crash" /\ ItemsCrash!Next /\ UNCHANGED NotHeap
     \/ case = "heap_pages" /\ ItemsPages!Next /\ UNCHANGED NotHeap

Spec == Init /\ [][Next]_vars
-----------------------------------------------------------------------------
Symmetry == Permutations({t, u}) \cup Permutations({p, q})

\* Type invariant of the accountant and of the slab.
TypeOK ==
  /\ case = "race" => Race!TypeOK
  /\ case = "reuse" => Reuse!TypeOK
  /\ case = "restart" => Restart!TypeOK
  /\ case = "heap" => Items!TypeOK
  /\ case = "heap_crash" => ItemsCrash!TypeOK
  /\ case = "heap_pages" => ItemsPages!TypeOK

\* None of the assertions, panics and unwraps of segment.rs fires, in whatever
\* order threads publish pages, mark them (at once, or through the stack, which
\* returns the operations in reverse) and complete them.
NoPanic ==
  /\ case = "race" => Race!NoPanic
  /\ case = "reuse" => Reuse!NoPanic
  /\ case = "restart" => Restart!NoPanic

\* A crash at any time finds everything it needs: no message that recovery may
\* still have to read lies in a segment that was reused or cut off, and no heap
\* item it refers to was freed.
Recoverable ==
  /\ case = "race" => Race!Recoverable
  /\ case = "restart" => Restart!Recoverable

\* Nor does a running database lose what its pages point to when segments are
\* freed, reused and cut off.
PagesAreOnDisk ==
  /\ case = "race" => Race!PagesAreOnDisk
  /\ case = "reuse" => Reuse!PagesAreOnDisk

\* Once every operation was applied, the count of pages that keep a segment from
\* being freed is exact, whatever order they were applied in.
CountsAreExact ==
  case = "race" => Race!CountsAreExact

\* No segment is lost and none is owned twice: a drained one that waits for its
\* replacements is known to the segment it waits for, the others can be handed out.
SegmentsAreOwned ==
  /\ case = "race" => Race!SegmentsAreOwned
  /\ case = "reuse" => Reuse!SegmentsAreOwned

\* A slot of the heap has one owner: it is free once, or it holds the item of one
\* page, is being written by one thread, or waits to be freed.
SlotsAreExclusive ==
  /\ case = "heap" => Items!SlotsAreExclusive
  /\ case = "heap_crash" => ItemsCrash!SlotsAreExclusive
  /\ case = "heap_pages" => ItemsPages!SlotsAreExclusive

\* The item of every page is in its slot, and is the one that was written for the
\* page in this history or before it (Slab::read).
ItemsAreThere ==
  /\ case = "heap_crash" => ItemsCrash!ItemsAreThere
  /\ case = "heap_pages" => ItemsPages!ItemsAreThere

\* A thread that reads a page with a pointer that may be old gets the item that
\* belongs to the pointer, or an error if the page has moved (PageCacheInner::get).
ReadsAreRight ==
  /\ case = "heap" => Items!ReadsAreRight
  /\ case = "heap_crash" => ItemsCrash!ReadsAreRight
  /\ case = "heap_pages" => ItemsPages!ReadsAreRight

\* The pages are those of the last completed records of the log, after a crash,
\* too: a dangling pointer is never the last (LogRead::DanglingHeap).
PagesFollowLog ==
  /\ case = "heap_crash" => ItemsCrash!PagesFollowLog
  /\ case = "heap_pages" => ItemsPages!PagesFollowLog

\* As long as the database is not restarted, every slot can be used again some day.
NoLeak ==
  case = "heap" => Items!NoLeak

\* No segment is lost, counted wrongly or owned twice, and no assertion fires.
SegmentsAreSound == TypeOK /\ NoPanic /\ CountsAreExact /\ SegmentsAreOwned

\* Nothing that a page or a recovery needs is ever given up.
NothingNeededIsLost == Recoverable /\ PagesAreOnDisk

\* The heap keeps every item that is referred to, once, and no other for ever.
HeapIsSound ==
  SlotsAreExclusive /\ ItemsAreThere /\ ReadsAreRight /\ PagesFollowLog /\ NoLeak
=============================================================================
