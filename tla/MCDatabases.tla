---------------------------- MODULE MCDatabases -----------------------------
(***************************************************************************)
(* Instances of Transactions (transactions over two trees beside single    *)
(* operations, flushes, batches, storage errors) and of Tenants (trees     *)
(* opened, used and dropped by name).                                      *)
(***************************************************************************)
EXTENDS Naturals, TLC

CONSTANTS Threads, Absent

VARIABLES
  case,  \* which instance runs
  \* of Transactions
  db, log, stable, readers, writer, th, calls, crashes, errors,
  \* of Tenants (with the names above that it shares)
  up, pages, limbo, meta, tenants, handles, tlock, cc, trees

vars == <<case, db, log, stable, readers, writer, th, calls, crashes, errors, up,
          pages, limbo, meta, tenants, handles, tlock, cc, trees>>

Multi == INSTANCE Transactions WITH
  Trees <- 2, Keys <- {1}, Values <- {1},
  Calls <- {"transaction", "get", "insert"},
  ClosureOps <- {"get", "insert", "remove"}, MaxOps <- 2, MaxCalls <- 2,
  MaxCrashes <- 1, MaxErrors <- 0
Flush == INSTANCE Transactions WITH
  Trees <- 2, Keys <- {1}, Values <- {1}, Calls <- {"transaction"},
  ClosureOps <- {"insert", "flush"}, MaxOps <- 2, MaxCalls <- 2, MaxCrashes <- 1,
  MaxErrors <- 0
Batch == INSTANCE Transactions WITH
  Trees <- 1, Keys <- {1, 2}, Values <- {1},
  Calls <- {"transaction", "apply_batch"}, ClosureOps <- {"apply_batch"},
  MaxOps <- 2, MaxCalls <- 2, MaxCrashes <- 1, MaxErrors <- 0
Errors == INSTANCE Transactions WITH
  Trees <- 2, Keys <- {1}, Values <- {1}, Calls <- {"transaction"},
  ClosureOps <- {"insert", "remove"}, MaxOps <- 2, MaxCalls <- 2, MaxCrashes <- 1,
  MaxErrors <- 1
NameSpace == INSTANCE Tenants WITH
  Default <- "default", Names <- {"a"}, MaxPid <- 12,
  Calls <- {"open", "use", "drop"}, MaxCalls <- 3, MaxCrashes <- 1

\* A component that does not run is left out of the state.
NotTransactions == <<up, pages, limbo, meta, tenants, handles, tlock, cc, trees>>
OnlyTransactions ==
  /\ up = 0 /\ pages = 0 /\ limbo = 0 /\ meta = 0 /\ tenants = 0 /\ handles = 0
  /\ tlock = 0 /\ cc = 0 /\ trees = 0
NotTenants == <<db, stable, readers, writer, errors>>
OnlyTenants ==
  /\ db = 0 /\ stable = 0 /\ readers = 0 /\ writer = 0 /\ errors = 0

Init ==
  \/ case = "trees" /\ Multi!Init /\ OnlyTransactions
  \/ case = "flush" /\ Flush!Init /\ OnlyTransactions
  \/ case = "batch" /\ Batch!Init /\ OnlyTransactions
  \/ case = "errors" /\ Errors!Init /\ OnlyTransactions
  \/ case = "names" /\ NameSpace!Init /\ OnlyTenants

Next ==
  /\ UNCHANGED case
  /\ \/ case = "trees" /\ Multi!Next /\ UNCHANGED NotTransactions
     \/ case = "flush" /\ Flush!Next /\ UNCHANGED NotTransactions
     \/ case = "batch" /\ Batch!Next /\ UNCHANGED NotTransactions
     \/ case = "errors" /\ Errors!Next /\ UNCHANGED NotTransactions
     \/ case = "names" /\ NameSpace!Next /\ UNCHANGED NotTenants

Spec == Init /\ [][Next]_vars
-----------------------------------------------------------------------------
Symmetry == Permutations(Threads)

\* Type invariant of the stores, the locks and the threads.
TypeOK ==
  /\ case = "trees" => Multi!TypeOK
  /\ case = "flush" => Flush!TypeOK
  /\ case = "batch" => Batch!TypeOK
  /\ case = "errors" => Errors!TypeOK
  /\ case = "names" => NameSpace!TypeOK

\* Every call takes effect at one instant, with all of its reads right at that
\* instant; what it wrote is there as a whole or not at all after a crash, and is
\* there if it asked for a flush and returned (transaction, apply_batch).
SerialStoreSpec ==
  /\ case = "trees" => Multi!Store!Init
  /\ case = "flush" => Flush!Store!Init
  /\ case = "batch" => Batch!Store!Init
  /\ [][/\ case = "trees" => [Multi!Store!Next]_(Multi!Store!vars)
        /\ case = "flush" => [Flush!Store!Next]_(Flush!Store!vars)
        /\ case = "batch" => [Batch!Store!Next]_(Batch!Store!vars)]_vars

\* A closure sees one state of the trees, with its own writes on top, however the
\* calls around it go or fail (stage, TransactionalTree::get).
ClosureSeesOneState ==
  /\ case = "trees" => Multi!ClosureSeesOneState
  /\ case = "errors" => Errors!ClosureSeesOneState

\* What readers see is what recovery would make of the log: no write is in one and
\* not in the other, even when a batch fails half-way (apply_batch_inner).
MemoryFollowsLog ==
  /\ case = "batch" => Batch!MemoryFollowsLog
  /\ case = "errors" => Errors!MemoryFollowsLog

\* Every tree the meta page names is whole: all of its pages are there, are its
\* own, and no other tree's, also after a crash in the middle of a drop
\* (open_tree, drop_tree, gc_pages).
RootsAreWhole ==
  case = "names" => NameSpace!RootsAreWhole

\* A handle leads into its own tree or is gone, however the pids were used again:
\* nobody reaches a page of another tree through it (tree.root.store).
HandlesStayHome ==
  case = "names" => NameSpace!HandlesStayHome

\* While nobody holds the lock of `tenants`, it has a handle for every root in the
\* meta page, and for no other name; the handle leads to that tree.
TenantsFollowMeta ==
  case = "names" => NameSpace!TenantsFollowMeta

\* As long as nothing crashed, no page is lost: once all calls are over, every page
\* is free or in a tree (gc_pages, which says it leaves orphans after a crash only).
NoOrphan ==
  case = "names" => NameSpace!NoOrphan

\* Transactions read one state, and memory and log never differ.
CommitsAreSound == TypeOK /\ ClosureSeesOneState /\ MemoryFollowsLog

\* Names, handles and trees belong together, and no page is lost.
NamesAreSound == RootsAreWhole /\ HandlesStayHome /\ TenantsFollowMeta /\ NoOrphan
=============================================================================
