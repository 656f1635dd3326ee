----------------------------- MODULE MCRuntime ------------------------------
(***************************************************************************)
(* Instances of the parts that the others rest on: Lru (threads that race  *)
(* for the access queue; one that fills a shard), Stack, ThreadPool,       *)
(* Subscribers (that iterate; that poll or wait with a timeout and leave), *)
(* Lazy, and IdGen with a single thread.                                   *)
(***************************************************************************)
EXTENDS Naturals, TLC

CONSTANTS t, u, v, s1, w, x, i1, d1, e1, c1, c2, c3, WriteTask, None

VARIABLES
  case,  \* which instance runs
  \* of Lru
  block, blocks, writing, full_list, lock, thread, entries, size, list, node,
  evicted,
  \* of Stack
  head, mem, pins, waits, th, content, pushes, fault, dropped, twice,
  \* of ThreadPool
  queue, waiting_threads, total_workers, spawning, broken, promise, sealed, wpc,
  task, performed, overshoots, spc, seen,
  \* of Subscribers
  page, writer, watched, senders, waker, shot, chan, sub, open,
  \* of Lazy (with the names above that it shares)
  value, init_mu, pc, made, calls, failed,
  \* of IdGen (with the names above that it shares)
  idgen, idgen_persists, idgen_persist_mu, log, durable, up, given, ret, key

vars == <<case, block, blocks, writing, full_list, lock, thread, entries, size,
          list, node, evicted, head, mem, pins, waits, th, content, pushes, fault,
          dropped, twice, queue, waiting_threads, total_workers, spawning, broken,
          promise, sealed, wpc, task, performed, overshoots, spc, seen, page,
          writer, watched, senders, waker, shot, chan, sub, open, value, init_mu,
          pc, made, calls, failed, idgen, idgen_persists, idgen_persist_mu, log,
          durable, up, given, ret, key>>

\* The first subscriber watches everything, the second one the keys below "k".
prefix(n) == IF n = 1 THEN "" ELSE "k"

Access == INSTANCE Lru WITH
  Threads <- {t, u, v}, Positions <- {0}, Sizes <- {2}, Capacity <- 2,
  MAX_QUEUE_ITEMS <- 1, MaxAccesses <- 2, MaxBlocks <- 4
Shard == INSTANCE Lru WITH
  Threads <- {s1}, Positions <- 0..2, Sizes <- {2, 3}, Capacity <- 6,
  MAX_QUEUE_ITEMS <- 1, MaxAccesses <- 4, MaxBlocks <- 5
Items == INSTANCE Stack WITH
  Threads <- {w, x}, Addrs <- 1..3, MaxPushes <- 3
Pool == INSTANCE ThreadPool WITH
  Workers <- {i1, d1, e1}, Immortal <- {i1}, Clients <- {c1, c2, c3},
  Write <- WriteTask, Flushes <- {c2}, Panics <- {c1}, MaxThreads <- 3,
  MinPerformed <- 1, MinOvershoots <- 1, Wrap <- 8
Events == INSTANCE Subscribers WITH
  Writers <- {w, x}, Iters <- {1, 2}, Polls <- {}, Timeouts <- {}, Leavers <- {},
  Capacity <- 1, MaxOps <- 1, Prefixes <- <<"", "k">>, PrefixOf <- prefix
Wakers == INSTANCE Subscribers WITH
  Writers <- {w, x}, Iters <- {}, Polls <- {1}, Timeouts <- {2}, Leavers <- {2},
  Capacity <- 1, MaxOps <- 1, Prefixes <- <<"", "k">>, PrefixOf <- prefix
Value == INSTANCE Lazy WITH
  Threads <- {t, u, v}, MaxDerefs <- 2
Ids == INSTANCE IdGen WITH
  Threads <- {s1}, Interval <- 2, InOrder <- TRUE, MaxId <- 7, MaxMessages <- 5

\* A component that does not run is left out of the state.
NotLru == <<head, mem, pins, waits, th, content, pushes, fault, dropped, twice,
            queue, waiting_threads, total_workers, spawning, broken, promise,
            sealed, wpc, task, performed, overshoots, spc, seen, page, writer,
            watched, senders, waker, shot, chan, sub, open, value, init_mu, pc,
            made, calls, failed, idgen, idgen_persists, idgen_persist_mu, log,
            durable, up, given, ret, key>>
OnlyLru ==
  /\ head = 0 /\ mem = 0 /\ pins = 0 /\ waits = 0 /\ th = 0 /\ content = 0
  /\ pushes = 0 /\ fault = 0 /\ dropped = 0 /\ twice = 0 /\ queue = 0
  /\ waiting_threads = 0 /\ total_workers = 0 /\ spawning = 0 /\ broken = 0
  /\ promise = 0 /\ sealed = 0 /\ wpc = 0 /\ task = 0 /\ performed = 0
  /\ overshoots = 0 /\ spc = 0 /\ seen = 0 /\ page = 0 /\ writer = 0
  /\ watched = 0 /\ senders = 0 /\ waker = 0 /\ shot = 0 /\ chan = 0 /\ sub = 0
  /\ open = 0 /\ value = 0 /\ init_mu = 0 /\ pc = 0 /\ made = 0 /\ calls = 0
  /\ failed = 0 /\ idgen = 0 /\ idgen_persists = 0 /\ idgen_persist_mu = 0
  /\ log = 0 /\ durable = 0 /\ up = 0 /\ given = 0 /\ ret = 0 /\ key = 0
NotStack == <<block, blocks, writing, full_list, lock, thread, entries, size, list,
              node, evicted, queue, waiting_threads, total_workers, spawning,
              broken, promise, sealed, wpc, task, performed, overshoots, spc, seen,
              page, writer, watched, senders, waker, shot, chan, sub, open, value,
              init_mu, pc, made, calls, failed, idgen, idgen_persists,
              idgen_persist_mu, log, durable, up, given, ret, key>>
OnlyStack ==
  /\ block = 0 /\ blocks = 0 /\ writing = 0 /\ full_list = 0 /\ lock = 0
  /\ thread = 0 /\ entries = 0 /\ size = 0 /\ list = 0 /\ node = 0
  /\ evicted = 0 /\ queue = 0 /\ waiting_threads = 0 /\ total_workers = 0
  /\ spawning = 0 /\ broken = 0 /\ promise = 0 /\ sealed = 0 /\ wpc = 0
  /\ task = 0 /\ performed = 0 /\ overshoots = 0 /\ spc = 0 /\ seen = 0
  /\ page = 0 /\ writer = 0 /\ watched = 0 /\ senders = 0 /\ waker = 0
  /\ shot = 0 /\ chan = 0 /\ sub = 0 /\ open = 0 /\ value = 0 /\ init_mu = 0
  /\ pc = 0 /\ made = 0 /\ calls = 0 /\ failed = 0 /\ idgen = 0
  /\ idgen_persists = 0 /\ idgen_persist_mu = 0 /\ log = 0 /\ durable = 0
  /\ up = 0 /\ given = 0 /\ ret = 0 /\ key = 0
NotThreadPool == <<block, blocks, writing, full_list, lock, thread, entries, size,
                   list, node, evicted, head, mem, pins, waits, th, content,
                   pushes, fault, dropped, twice, page, writer, watched, senders,
                   waker, shot, chan, sub, open, value, init_mu, pc, made, calls,
                   failed, idgen, idgen_persists, idgen_persist_mu, log, durable,
                   up, given, ret, key>>
OnlyThreadPool ==
  /\ block = 0 /\ blocks = 0 /\ writing = 0 /\ full_list = 0 /\ lock = 0
  /\ thread = 0 /\ entries = 0 /\ size = 0 /\ list = 0 /\ node = 0
  /\ evicted = 0 /\ head = 0 /\ mem = 0 /\ pins = 0 /\ waits = 0 /\ th = 0
  /\ content = 0 /\ pushes = 0 /\ fault = 0 /\ dropped = 0 /\ twice = 0
  /\ page = 0 /\ writer = 0 /\ watched = 0 /\ senders = 0 /\ waker = 0
  /\ shot = 0 /\ chan = 0 /\ sub = 0 /\ open = 0 /\ value = 0 /\ init_mu = 0
  /\ pc = 0 /\ made = 0 /\ calls = 0 /\ failed = 0 /\ idgen = 0
  /\ idgen_persists = 0 /\ idgen_persist_mu = 0 /\ log = 0 /\ durable = 0
  /\ up = 0 /\ given = 0 /\ ret = 0 /\ key = 0
NotSubscribers == <<block, blocks, writing, full_list, lock, thread, entries, size,
                    list, node, evicted, head, mem, pins, waits, th, content,
                    pushes, fault, dropped, twice, queue, waiting_threads,
                    total_workers, spawning, broken, promise, sealed, wpc, task,
                    performed, overshoots, spc, seen, value, init_mu, pc, made,
                    calls, failed, idgen, idgen_persists, idgen_persist_mu, log,
                    durable, up, given, ret, key>>
OnlySubscribers ==
  /\ block = 0 /\ blocks = 0 /\ writing = 0 /\ full_list = 0 /\ lock = 0
  /\ thread = 0 /\ entries = 0 /\ size = 0 /\ list = 0 /\ node = 0
  /\ evicted = 0 /\ head = 0 /\ mem = 0 /\ pins = 0 /\ waits = 0 /\ th = 0
  /\ content = 0 /\ pushes = 0 /\ fault = 0 /\ dropped = 0 /\ twice = 0
  /\ queue = 0 /\ waiting_threads = 0 /\ total_workers = 0 /\ spawning = 0
  /\ broken = 0 /\ promise = 0 /\ sealed = 0 /\ wpc = 0 /\ task = 0
  /\ performed = 0 /\ overshoots = 0 /\ spc = 0 /\ seen = 0 /\ value = 0
  /\ init_mu = 0 /\ pc = 0 /\ made = 0 /\ calls = 0 /\ failed = 0 /\ idgen = 0
  /\ idgen_persists = 0 /\ idgen_persist_mu = 0 /\ log = 0 /\ durable = 0
  /\ up = 0 /\ given = 0 /\ ret = 0 /\ key = 0
NotLazy == <<block, blocks, writing, full_list, lock, thread, entries, size, list,
             node, evicted, head, mem, pins, waits, th, content, pushes, fault,
             dropped, twice, queue, waiting_threads, total_workers, spawning,
             broken, promise, sealed, wpc, task, performed, overshoots, spc, page,
             writer, watched, senders, waker, shot, chan, sub, open, idgen,
             idgen_persists, idgen_persist_mu, log, durable, up, given, ret, key>>
OnlyLazy ==
  /\ block = 0 /\ blocks = 0 /\ writing = 0 /\ full_list = 0 /\ lock = 0
  /\ thread = 0 /\ entries = 0 /\ size = 0 /\ list = 0 /\ node = 0
  /\ evicted = 0 /\ head = 0 /\ mem = 0 /\ pins = 0 /\ waits = 0 /\ th = 0
  /\ content = 0 /\ pushes = 0 /\ fault = 0 /\ dropped = 0 /\ twice = 0
  /\ queue = 0 /\ waiting_threads = 0 /\ total_workers = 0 /\ spawning = 0
  /\ broken = 0 /\ promise = 0 /\ sealed = 0 /\ wpc = 0 /\ task = 0
  /\ performed = 0 /\ overshoots = 0 /\ spc = 0 /\ page = 0 /\ writer = 0
  /\ watched = 0 /\ senders = 0 /\ waker = 0 /\ shot = 0 /\ chan = 0 /\ sub = 0
  /\ open = 0 /\ idgen = 0 /\ idgen_persists = 0 /\ idgen_persist_mu = 0
  /\ log = 0 /\ durable = 0 /\ up = 0 /\ given = 0 /\ ret = 0 /\ key = 0
NotIdGen == <<block, blocks, writing, full_list, lock, thread, entries, size, list,
              node, evicted, head, mem, pins, waits, th, content, pushes, fault,
              dropped, twice, queue, waiting_threads, total_workers, spawning,
              broken, promise, sealed, wpc, task, performed, overshoots, spc, seen,
              writer, watched, senders, waker, shot, chan, sub, open, value,
              init_mu, made, calls, failed>>
OnlyIdGen ==
  /\ block = 0 /\ blocks = 0 /\ writing = 0 /\ full_list = 0 /\ lock = 0
  /\ thread = 0 /\ entries = 0 /\ size = 0 /\ list = 0 /\ node = 0
  /\ evicted = 0 /\ head = 0 /\ mem = 0 /\ pins = 0 /\ waits = 0 /\ th = 0
  /\ content = 0 /\ pushes = 0 /\ fault = 0 /\ dropped = 0 /\ twice = 0
  /\ queue = 0 /\ waiting_threads = 0 /\ total_workers = 0 /\ spawning = 0
  /\ broken = 0 /\ promise = 0 /\ sealed = 0 /\ wpc = 0 /\ task = 0
  /\ performed = 0 /\ overshoots = 0 /\ spc = 0 /\ seen = 0 /\ writer = 0
  /\ watched = 0 /\ senders = 0 /\ waker = 0 /\ shot = 0 /\ chan = 0 /\ sub = 0
  /\ open = 0 /\ value = 0 /\ init_mu = 0 /\ made = 0 /\ calls = 0 /\ failed = 0

Init ==
  \/ case = "access" /\ Access!Init /\ OnlyLru
  \/ case = "shard" /\ Shard!Init /\ OnlyLru
  \/ case = "stack" /\ Items!Init /\ OnlyStack
  \/ case = "pool" /\ Pool!Init /\ OnlyThreadPool
  \/ case = "events" /\ Events!Init /\ OnlySubscribers
  \/ case = "wakers" /\ Wakers!Init /\ OnlySubscribers
  \/ case = "lazy" /\ Value!Init /\ OnlyLazy
  \/ case = "ids" /\ Ids!Init /\ OnlyIdGen

Next ==
  /\ UNCHANGED case
  /\ \/ case = "access" /\ Access!Next /\ UNCHANGED NotLru
     \/ case = "shard" /\ Shard!Next /\ UNCHANGED NotLru
     \/ case = "stack" /\ Items!Next /\ UNCHANGED NotStack
     \/ case = "pool" /\ Pool!Next /\ UNCHANGED NotThreadPool
     \/ case = "events" /\ Events!Next /\ UNCHANGED NotSubscribers
     \/ case = "wakers" /\ Wakers!Next /\ UNCHANGED NotSubscribers
     \/ case = "lazy" /\ Value!Next /\ UNCHANGED NotLazy
     \/ case = "ids" /\ Ids!Next /\ UNCHANGED NotIdGen

Spec == Init /\ [][Next]_vars
-----------------------------------------------------------------------------
Symmetry == Permutations({t, u, v}) \cup Permutations({w, x}) \cup Permutations({d1, e1})

\* Type invariant of the components.
TypeOK ==
  /\ case = "access" => Access!TypeOK
  /\ case = "shard" => Shard!TypeOK
  /\ case = "stack" => Items!TypeOK
  /\ case = "pool" => Pool!TypeOK
  /\ case = "events" => Events!TypeOK
  /\ case = "wakers" => Wakers!TypeOK
  /\ case = "ids" => Ids!TypeOK

\* No block of the access queue, and so no access, is lost or applied twice: a
\* block that was published is in one place at a time, and has been drained, which
\* waits for all its places, when it is in none (AccessQueue::push against take).
BlockIsInOnePlace ==
  case = "access" => Access!BlockIsInOnePlace

\* One thread at a time works on a shard of the cache.
OneDrainer ==
  case = "access" => Access!OneDrainer

\* The linked list of a shard, its entries and its size agree whatever was promoted
\* and evicted, and no more than the capacity is kept unless it is a single page
\* (Shard::accessed, DoublyLinkedList).
ShardIsConsistent ==
  case = "shard" => Shard!ShardIsConsistent

\* The least recently used pages are evicted, and only as many as needed.
EvictsLeastRecentlyUsed == [][case = "shard" => Shard!EvictsOldest]_vars

\* No thread reads a node of the stack that has been freed, and no node is freed
\* twice or while the stack holds it: neither a race for the head, an address used
\* again (the ABA case of pop) nor the recursive drop of a node breaks this.
MemoryIsSafe ==
  case = "stack" => Items!MemoryIsSafe

\* The nodes from the head on are the items pushed and not yet taken, last in first
\* out.
HoldsContent ==
  case = "stack" => Items!HoldsContent

\* What pop and take_iter return, read after they changed the head, is what the
\* stack held when they did.
ReturnsWhatItTook ==
  case = "stack" => Items!ReturnsWhatItTook

\* A submitted task is in exactly one place until its promise is resolved: in the
\* queue or on a thread, never lost between them and never taken twice, whatever
\* threads are started, woken by the same notification, or end.
TaskIsInOnePlace ==
  case = "pool" => Pool!TaskIsInOnePlace

\* At most one dynamic thread is on its way at any time: the flag that is taken by
\* the submitter is released by the thread it starts.
OneThreadIsStarting ==
  case = "pool" => Pool!OneThreadIsStarting

\* Every subscriber that iterates is told of consecutive updates, in the order in
\* which they were made, although places are reserved before the update is made and
\* filled after it (Tree::watch_prefix; insert_inner reads the page before it
\* reserves).
NoGaps ==
  case = "events" => Events!NoGaps

\* No subscriber, however it waits, sees updates repeated or out of order.
InOrder ==
  case = "wakers" => Wakers!InOrder

\* A lazy value is made at most once, everyone who returns has that value, and the
\* assertions on the old pointer and on the lock hold.
MadeOnce ==
  case = "lazy" => Value!MadeOnce

\* As long as one thread asks for IDs and the log is written in order, no ID is
\* returned twice, however often the database crashes (generate_id_inner).
IdsAreUnique ==
  case = "ids" => Ids!IdsAreUnique

\* Every access to the cache is applied once, and the cache agrees with itself.
CacheIsSound == TypeOK /\ BlockIsInOnePlace /\ OneDrainer /\ ShardIsConsistent

\* The lock-free stack holds and returns what was pushed, in memory that is its own.
StackIsSound == MemoryIsSafe /\ HoldsContent /\ ReturnsWhatItTook

\* The pool runs every task once, on threads that start one at a time.
PoolIsSound == TaskIsInOnePlace /\ OneThreadIsStarting

\* Subscribers are told of updates in the order in which they were made.
EventsAreInOrder == NoGaps /\ InOrder

\* A lazy value is made once, and an ID given out once.
MadeAndGivenOnce == MadeOnce /\ IdsAreUnique
=============================================================================
