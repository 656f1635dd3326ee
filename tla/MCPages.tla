------------------------------ MODULE MCPages -------------------------------
(***************************************************************************)
(* PageTable with three threads that allocate and look up pages, and       *)
(* instances of PageCache: updates of a page that is moved and paged out,  *)
(* nodes in the heap, and pages that are freed and allocated again.        *)
(***************************************************************************)
EXTENDS PageTable, TLC

CONSTANTS t, u

VARIABLES
  case,  \* which instance runs
  \* of PageCache
  page, log, next_pid_to_allocate, allocating, free, deferred, snapshot_min,
  thread, failure

suiteVars == <<case, vars, page, log, next_pid_to_allocate, allocating, free,
               deferred, snapshot_min, thread, failure>>

Update == INSTANCE PageCache WITH
  Threads <- {t, u}, Pids <- {1}, MaxLsn <- 3, MaxOps <- 2,
  Kinds <- {"link", "replace", "rewrite"}, Heaps <- FALSE,
  PAGE_CONSOLIDATION_THRESHOLD <- 2, next_pid <- next_pid_to_allocate
Items == INSTANCE PageCache WITH
  Threads <- {t, u}, Pids <- {1}, MaxLsn <- 5, MaxOps <- 1,
  Kinds <- {"replace", "rewrite"}, Heaps <- TRUE,
  PAGE_CONSOLIDATION_THRESHOLD <- 2, next_pid <- next_pid_to_allocate
Freed == INSTANCE PageCache WITH
  Threads <- {t, u}, Pids <- {1, 2}, MaxLsn <- 4, MaxOps <- 2,
  Kinds <- {"free", "allocate", "rewrite"}, Heaps <- FALSE,
  PAGE_CONSOLIDATION_THRESHOLD <- 2, next_pid <- next_pid_to_allocate

\* A component that does not run is left out of the state; PageTable stays as it begins.
NotPageCache == vars
NotPageTable == <<page, log, next_pid_to_allocate, allocating, free, deferred,
                  snapshot_min, thread, failure>>
OnlyPageTable ==
  /\ page = 0 /\ log = 0 /\ next_pid_to_allocate = 0 /\ allocating = 0
  /\ free = 0 /\ deferred = 0 /\ snapshot_min = 0 /\ thread = 0 /\ failure = 0

SuiteInit ==
  /\ Init
  /\ \/ case = "table" /\ OnlyPageTable
     \/ case = "update" /\ Update!Init
     \/ case = "heap" /\ Items!Init
     \/ case = "free" /\ Freed!Init

SuiteNext ==
  /\ UNCHANGED case
  /\ \/ case = "table" /\ Next /\ UNCHANGED NotPageTable
     \/ case = "update" /\ Update!Next /\ UNCHANGED NotPageCache
     \/ case = "heap" /\ Items!Next /\ UNCHANGED NotPageCache
     \/ case = "free" /\ Freed!Next /\ UNCHANGED NotPageCache

SuiteSpec == SuiteInit /\ [][SuiteNext]_suiteVars
-----------------------------------------------------------------------------
Symmetry == Permutations({t, u}) \cup Permutations(Threads)

\* Type invariant of the page cache.
PagesTypeOK ==
  /\ case = "update" => Update!TypeOK
  /\ case = "heap" => Items!TypeOK
  /\ case = "free" => Freed!TypeOK

\* What is cached of a page is what its records say, and they can all be read: it
\* makes no difference whether a page is paged out (PageCacheInner::get).
CacheMatchesDisk ==
  /\ case = "update" => Update!CacheMatchesDisk
  /\ case = "heap" => Items!CacheMatchesDisk
  /\ case = "free" => Freed!CacheMatchesDisk

\* Replaying the log in its order gives the page as it is in memory: the records
\* that won their compare-and-set did so in the order of their LSNs (link and
\* cas_page reserve before they compare and set).
LogOrderIsPageOrder ==
  case = "update" => Update!LogOrderIsPageOrder

\* An operation that succeeds changes exactly the node its caller saw, also when
\* the page was moved, paged out and read back in between; no update is lost, and
\* a move changes nothing (the timestamps of CacheInfo).
UpdatesWhatWasSeen ==
  [][/\ case = "update" => Update!ChangesWhatWasSeen
     /\ case = "heap" => Items!ChangesWhatWasSeen]_suiteVars

\* No page is freed twice, given out while in use, or lost in allocation, and a
\* page that is in use can always be read (the panics of free and allocate_inner,
\* the error of get).
PagesDoNotFail ==
  /\ case = "update" => Update!NoFailure
  /\ case = "heap" => Items!NoFailure
  /\ case = "free" => Freed!NoFailure

\* A thread that came upon a pid never takes another page for the one it was
\* looking for: the pid is not given out again while it is pinned (the deferred
\* push to the free list).
NoStalePid ==
  case = "free" => Freed!NoStalePid

\* The page in memory, its records in the file and their order in the log agree.
MemoryFileAndLogAgree == CacheMatchesDisk /\ LogOrderIsPageOrder

\* Neither the page cache nor the page table fails, loses or leaks a page, or takes
\* one for another.
PagesAreSound ==
  TypeOK /\ NoFailure /\ NoLeak /\ PagesTypeOK /\ PagesDoNotFail /\ NoStalePid
=============================================================================
