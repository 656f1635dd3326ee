---------------------------- MODULE MCProgress ------------------------------
(***************************************************************************)
(* ConcurrencyControl with three threads, and small instances of the other *)
(* components under fairness.  The threads of all of them are numbered, so *)
(* that one fairness condition for each number serves every instance.      *)
(***************************************************************************)
EXTENDS ConcurrencyControl, TLC

VARIABLES
  case,  \* which instance runs
  \* of IoBufs
  bufs, tasks, disk, intervals, stable_lsn, max_reserved, error, step, op, seen,
  res, peg, goal, page,
  \* of Lru
  block, blocks, writing, full_list, lock, thread, entries, size, list, node,
  evicted,
  \* of ThreadPool (with the names above that it shares)
  queue, waiting_threads, total_workers, spawning, broken, promise, sealed, wpc,
  task, performed, overshoots, spc,
  \* of Subscribers (with the names above that it shares)
  updater, watched, senders, waker, shot, chan, sub, open,
  \* of Shutdown (with the names above that it shares)
  users, pagecache, shutdown, mutex, flusher, dropper, closing, snap, log,
  \* of Transactions (with the names above that it shares)
  db, stable, cc_readers, cc_writer, th, calls, crashes, errors,
  \* of Tenants (with the names above that it shares)
  up, pages, limbo, meta, tenants, handles, tlock, cc, trees,
  \* of Tree (with the names above that it shares)
  root, ret, failed,
  \* of Lazy (with the names above that it shares)
  value, init_mu, made

suiteVars == <<case, vars, bufs, tasks, disk, intervals, stable_lsn, max_reserved,
               error, step, op, seen, res, peg, goal, page, block, blocks, writing,
               full_list, lock, thread, entries, size, list, node, evicted, queue,
               waiting_threads, total_workers, spawning, broken, promise, sealed,
               wpc, task, performed, overshoots, spc, updater, watched, senders,
               waker, shot, chan, sub, open, users, pagecache, shutdown, mutex,
               flusher, dropper, closing, snap, log, db, stable, cc_readers,
               cc_writer, th, calls, crashes, errors, up, pages, limbo, meta,
               tenants, handles, tlock, cc, trees, root, ret, failed, value,
               init_mu, made>>

prefix(s) == ""
name == <<"a", "b">>

Log == INSTANCE IoBufs WITH
  Threads <- {1, 2}, SegmentSize <- 5, SegHeaderLen <- 1, MaxMsgHeaderLen <- 2,
  MsgLens <- {2}, ManifestLen <- 2, MaxWriters <- 2, StartLsns <- {0}, MaxLsn <- 5,
  Ops <- <<{"write", "batch"}, {"flush"}>>, IoErrors <- FALSE, HeapErrors <- FALSE,
  pc <- step
Cache == INSTANCE Lru WITH
  Threads <- {1, 2}, Positions <- {0}, Sizes <- {2}, Capacity <- 2,
  MAX_QUEUE_ITEMS <- 2, MaxAccesses <- 3, MaxBlocks <- 4
Pool == INSTANCE ThreadPool WITH
  Workers <- {4, 5}, Immortal <- {4}, Clients <- {1, 2}, Flushes <- {},
  Panics <- {}, Write <- 0, MaxThreads <- 2, MinPerformed <- 1, MinOvershoots <- 1,
  Wrap <- 8
Events == INSTANCE Subscribers WITH
  Writers <- {"a", "b"}, Iters <- {3}, Polls <- {}, Timeouts <- {}, Leavers <- {},
  Capacity <- 1, MaxOps <- 1, Prefixes <- <<"">>, PrefixOf <- prefix,
  writer <- updater
Close == INSTANCE Shutdown WITH
  Users <- {"a", "b"}, MaxWrites <- 2, Snapshots <- TRUE, Faults <- TRUE
Commits == INSTANCE Transactions WITH
  Threads <- {1, 2}, Trees <- 1, Keys <- {1}, Values <- {1}, Absent <- 0,
  Calls <- {"transaction", "insert"}, ClosureOps <- {"insert", "flush"},
  MaxOps <- 2, MaxCalls <- 2, MaxCrashes <- 0, MaxErrors <- 1,
  readers <- cc_readers, writer <- cc_writer
NameSpace == INSTANCE Tenants WITH
  Threads <- {1, 2}, Default <- "default", Names <- {"a"}, MaxPid <- 12,
  Calls <- {"open", "use", "drop", "checksum"}, MaxCalls <- 2, MaxCrashes <- 0
OneTree == INSTANCE Tree WITH
  Threads <- {1, 2}, Inf <- 3, MaxVal <- 1, Pids <- 1..7, SplitAbove <- 2,
  MergeBelow <- 2, Separators <- {0, 1}, Uppers <- {}, FirstKeys <- {0, 1},
  Kinds <- {"set", "del"}, MaxCalls <- 1, MaxCrashes <- 0
Once == INSTANCE Lazy WITH
  MaxDerefs <- 2, pc <- step

\* A component that does not run is left out of the state; ConcurrencyControl stays as it begins.
NotIoBufs == <<vars, block, blocks, writing, full_list, lock, thread, entries,
               size, list, node, evicted, queue, waiting_threads, total_workers,
               spawning, broken, promise, sealed, wpc, task, performed, overshoots,
               spc, updater, watched, senders, waker, shot, chan, sub, open, users,
               pagecache, shutdown, mutex, flusher, dropper, closing, snap, log,
               db, stable, cc_readers, cc_writer, th, calls, crashes, errors, up,
               pages, limbo, meta, tenants, handles, tlock, cc, trees, root, ret,
               failed, value, init_mu, made>>
OnlyIoBufs ==
  /\ block = 0 /\ blocks = 0 /\ writing = 0 /\ full_list = 0 /\ lock = 0
  /\ thread = 0 /\ entries = 0 /\ size = 0 /\ list = 0 /\ node = 0
  /\ evicted = 0 /\ queue = 0 /\ waiting_threads = 0 /\ total_workers = 0
  /\ spawning = 0 /\ broken = 0 /\ promise = 0 /\ sealed = 0 /\ wpc = 0
  /\ task = 0 /\ performed = 0 /\ overshoots = 0 /\ spc = 0 /\ updater = 0
  /\ watched = 0 /\ senders = 0 /\ waker = 0 /\ shot = 0 /\ chan = 0 /\ sub = 0
  /\ open = 0 /\ users = 0 /\ pagecache = 0 /\ shutdown = 0 /\ mutex = 0
  /\ flusher = 0 /\ dropper = 0 /\ closing = 0 /\ snap = 0 /\ log = 0 /\ db = 0
  /\ stable = 0 /\ cc_readers = 0 /\ cc_writer = 0 /\ th = 0 /\ calls = 0
  /\ crashes = 0 /\ errors = 0 /\ up = 0 /\ pages = 0 /\ limbo = 0 /\ meta = 0
  /\ tenants = 0 /\ handles = 0 /\ tlock = 0 /\ cc = 0 /\ trees = 0 /\ root = 0
  /\ ret = 0 /\ failed = 0 /\ value = 0 /\ init_mu = 0 /\ made = 0
NotLru == <<vars, bufs, tasks, disk, intervals, stable_lsn, max_reserved, error,
            step, op, seen, res, peg, goal, page, queue, waiting_threads,
            total_workers, spawning, broken, promise, sealed, wpc, task, performed,
            overshoots, spc, updater, watched, senders, waker, shot, chan, sub,
            open, users, pagecache, shutdown, mutex, flusher, dropper, closing,
            snap, log, db, stable, cc_readers, cc_writer, th, calls, crashes,
            errors, up, pages, limbo, meta, tenants, handles, tlock, cc, trees,
            root, ret, failed, value, init_mu, made>>
OnlyLru ==
  /\ bufs = 0 /\ tasks = 0 /\ disk = 0 /\ intervals = 0 /\ stable_lsn = 0
  /\ max_reserved = 0 /\ error = 0 /\ step = 0 /\ op = 0 /\ seen = 0 /\ res = 0
  /\ peg = 0 /\ goal = 0 /\ page = 0 /\ queue = 0 /\ waiting_threads = 0
  /\ total_workers = 0 /\ spawning = 0 /\ broken = 0 /\ promise = 0
  /\ sealed = 0 /\ wpc = 0 /\ task = 0 /\ performed = 0 /\ overshoots = 0
  /\ spc = 0 /\ updater = 0 /\ watched = 0 /\ senders = 0 /\ waker = 0
  /\ shot = 0 /\ chan = 0 /\ sub = 0 /\ open = 0 /\ users = 0 /\ pagecache = 0
  /\ shutdown = 0 /\ mutex = 0 /\ flusher = 0 /\ dropper = 0 /\ closing = 0
  /\ snap = 0 /\ log = 0 /\ db = 0 /\ stable = 0 /\ cc_readers = 0
  /\ cc_writer = 0 /\ th = 0 /\ calls = 0 /\ crashes = 0 /\ errors = 0 /\ up = 0
  /\ pages = 0 /\ limbo = 0 /\ meta = 0 /\ tenants = 0 /\ handles = 0
  /\ tlock = 0 /\ cc = 0 /\ trees = 0 /\ root = 0 /\ ret = 0 /\ failed = 0
  /\ value = 0 /\ init_mu = 0 /\ made = 0
NotThreadPool == <<vars, bufs, tasks, disk, intervals, stable_lsn, max_reserved,
                   error, step, op, res, peg, goal, page, block, blocks, writing,
                   full_list, lock, thread, entries, size, list, node, evicted,
                   updater, watched, senders, waker, shot, chan, sub, open, users,
                   pagecache, shutdown, mutex, flusher, dropper, closing, snap,
                   log, db, stable, cc_readers, cc_writer, th, calls, crashes,
                   errors, up, pages, limbo, meta, tenants, handles, tlock, cc,
                   trees, root, ret, failed, value, init_mu, made>>
OnlyThreadPool ==
  /\ bufs = 0 /\ tasks = 0 /\ disk = 0 /\ intervals = 0 /\ stable_lsn = 0
  /\ max_reserved = 0 /\ error = 0 /\ step = 0 /\ op = 0 /\ res = 0 /\ peg = 0
  /\ goal = 0 /\ page = 0 /\ block = 0 /\ blocks = 0 /\ writing = 0
  /\ full_list = 0 /\ lock = 0 /\ thread = 0 /\ entries = 0 /\ size = 0
  /\ list = 0 /\ node = 0 /\ evicted = 0 /\ updater = 0 /\ watched = 0
  /\ senders = 0 /\ waker = 0 /\ shot = 0 /\ chan = 0 /\ sub = 0 /\ open = 0
  /\ users = 0 /\ pagecache = 0 /\ shutdown = 0 /\ mutex = 0 /\ flusher = 0
  /\ dropper = 0 /\ closing = 0 /\ snap = 0 /\ log = 0 /\ db = 0 /\ stable = 0
  /\ cc_readers = 0 /\ cc_writer = 0 /\ th = 0 /\ calls = 0 /\ crashes = 0
  /\ errors = 0 /\ up = 0 /\ pages = 0 /\ limbo = 0 /\ meta = 0 /\ tenants = 0
  /\ handles = 0 /\ tlock = 0 /\ cc = 0 /\ trees = 0 /\ root = 0 /\ ret = 0
  /\ failed = 0 /\ value = 0 /\ init_mu = 0 /\ made = 0
NotSubscribers == <<vars, bufs, tasks, disk, intervals, stable_lsn, max_reserved,
                    error, step, op, seen, res, peg, goal, block, blocks, writing,
                    full_list, lock, thread, entries, size, list, node, evicted,
                    queue, waiting_threads, total_workers, spawning, broken,
                    promise, sealed, wpc, task, performed, overshoots, spc, users,
                    pagecache, shutdown, mutex, flusher, dropper, closing, snap,
                    log, db, stable, cc_readers, cc_writer, th, calls, crashes,
                    errors, up, pages, limbo, meta, tenants, handles, tlock, cc,
                    trees, root, ret, failed, value, init_mu, made>>
OnlySubscribers ==
  /\ bufs = 0 /\ tasks = 0 /\ disk = 0 /\ intervals = 0 /\ stable_lsn = 0
  /\ max_reserved = 0 /\ error = 0 /\ step = 0 /\ op = 0 /\ seen = 0 /\ res = 0
  /\ peg = 0 /\ goal = 0 /\ block = 0 /\ blocks = 0 /\ writing = 0
  /\ full_list = 0 /\ lock = 0 /\ thread = 0 /\ entries = 0 /\ size = 0
  /\ list = 0 /\ node = 0 /\ evicted = 0 /\ queue = 0 /\ waiting_threads = 0
  /\ total_workers = 0 /\ spawning = 0 /\ broken = 0 /\ promise = 0
  /\ sealed = 0 /\ wpc = 0 /\ task = 0 /\ performed = 0 /\ overshoots = 0
  /\ spc = 0 /\ users = 0 /\ pagecache = 0 /\ shutdown = 0 /\ mutex = 0
  /\ flusher = 0 /\ dropper = 0 /\ closing = 0 /\ snap = 0 /\ log = 0 /\ db = 0
  /\ stable = 0 /\ cc_readers = 0 /\ cc_writer = 0 /\ th = 0 /\ calls = 0
  /\ crashes = 0 /\ errors = 0 /\ up = 0 /\ pages = 0 /\ limbo = 0 /\ meta = 0
  /\ tenants = 0 /\ handles = 0 /\ tlock = 0 /\ cc = 0 /\ trees = 0 /\ root = 0
  /\ ret = 0 /\ failed = 0 /\ value = 0 /\ init_mu = 0 /\ made = 0
NotShutdown == <<vars, bufs, tasks, disk, intervals, stable_lsn, max_reserved,
                 step, op, seen, res, peg, goal, page, block, blocks, writing,
                 full_list, lock, thread, entries, size, list, node, evicted,
                 queue, waiting_threads, total_workers, spawning, broken, promise,
                 sealed, wpc, task, performed, overshoots, spc, updater, watched,
                 senders, waker, shot, chan, sub, open, db, stable, cc_readers,
                 cc_writer, th, calls, crashes, errors, up, pages, limbo, meta,
                 tenants, handles, tlock, cc, trees, root, ret, failed, value,
                 init_mu, made>>
OnlyShutdown ==
  /\ bufs = 0 /\ tasks = 0 /\ disk = 0 /\ intervals = 0 /\ stable_lsn = 0
  /\ max_reserved = 0 /\ step = 0 /\ op = 0 /\ seen = 0 /\ res = 0 /\ peg = 0
  /\ goal = 0 /\ page = 0 /\ block = 0 /\ blocks = 0 /\ writing = 0
  /\ full_list = 0 /\ lock = 0 /\ thread = 0 /\ entries = 0 /\ size = 0
  /\ list = 0 /\ node = 0 /\ evicted = 0 /\ queue = 0 /\ waiting_threads = 0
  /\ total_workers = 0 /\ spawning = 0 /\ broken = 0 /\ promise = 0
  /\ sealed = 0 /\ wpc = 0 /\ task = 0 /\ performed = 0 /\ overshoots = 0
  /\ spc = 0 /\ updater = 0 /\ watched = 0 /\ senders = 0 /\ waker = 0
  /\ shot = 0 /\ chan = 0 /\ sub = 0 /\ open = 0 /\ db = 0 /\ stable = 0
  /\ cc_readers = 0 /\ cc_writer = 0 /\ th = 0 /\ calls = 0 /\ crashes = 0
  /\ errors = 0 /\ up = 0 /\ pages = 0 /\ limbo = 0 /\ meta = 0 /\ tenants = 0
  /\ handles = 0 /\ tlock = 0 /\ cc = 0 /\ trees = 0 /\ root = 0 /\ ret = 0
  /\ failed = 0 /\ value = 0 /\ init_mu = 0 /\ made = 0
NotTransactions == <<vars, bufs, tasks, disk, intervals, stable_lsn, max_reserved,
                     error, step, op, seen, res, peg, goal, page, block, blocks,
                     writing, full_list, lock, thread, entries, size, list, node,
                     evicted, queue, waiting_threads, total_workers, spawning,
                     broken, promise, sealed, wpc, task, performed, overshoots,
                     spc, updater, watched, senders, waker, shot, chan, sub, open,
                     users, pagecache, shutdown, mutex, flusher, dropper, closing,
                     snap, up, pages, limbo, meta, tenants, handles, tlock, cc,
                     trees, root, ret, failed, value, init_mu, made>>
OnlyTransactions ==
  /\ bufs = 0 /\ tasks = 0 /\ disk = 0 /\ intervals = 0 /\ stable_lsn = 0
  /\ max_reserved = 0 /\ error = 0 /\ step = 0 /\ op = 0 /\ seen = 0 /\ res = 0
  /\ peg = 0 /\ goal = 0 /\ page = 0 /\ block = 0 /\ blocks = 0 /\ writing = 0
  /\ full_list = 0 /\ lock = 0 /\ thread = 0 /\ entries = 0 /\ size = 0
  /\ list = 0 /\ node = 0 /\ evicted = 0 /\ queue = 0 /\ waiting_threads = 0
  /\ total_workers = 0 /\ spawning = 0 /\ broken = 0 /\ promise = 0
  /\ sealed = 0 /\ wpc = 0 /\ task = 0 /\ performed = 0 /\ overshoots = 0
  /\ spc = 0 /\ updater = 0 /\ watched = 0 /\ senders = 0 /\ waker = 0
  /\ shot = 0 /\ chan = 0 /\ sub = 0 /\ open = 0 /\ users = 0 /\ pagecache = 0
  /\ shutdown = 0 /\ mutex = 0 /\ flusher = 0 /\ dropper = 0 /\ closing = 0
  /\ snap = 0 /\ up = 0 /\ pages = 0 /\ limbo = 0 /\ meta = 0 /\ tenants = 0
  /\ handles = 0 /\ tlock = 0 /\ cc = 0 /\ trees = 0 /\ root = 0 /\ ret = 0
  /\ failed = 0 /\ value = 0 /\ init_mu = 0 /\ made = 0
NotTenants == <<vars, bufs, tasks, disk, intervals, stable_lsn, max_reserved,
                error, step, op, seen, res, peg, goal, page, block, blocks,
                writing, full_list, lock, thread, entries, size, list, node,
                evicted, queue, waiting_threads, total_workers, spawning, broken,
                promise, sealed, wpc, task, performed, overshoots, spc, updater,
                watched, senders, waker, shot, chan, sub, open, users, pagecache,
                shutdown, mutex, flusher, dropper, closing, snap, db, stable,
                cc_readers, cc_writer, errors, root, ret, failed, value, init_mu,
                made>>
OnlyTenants ==
  /\ bufs = 0 /\ tasks = 0 /\ disk = 0 /\ intervals = 0 /\ stable_lsn = 0
  /\ max_reserved = 0 /\ error = 0 /\ step = 0 /\ op = 0 /\ seen = 0 /\ res = 0
  /\ peg = 0 /\ goal = 0 /\ page = 0 /\ block = 0 /\ blocks = 0 /\ writing = 0
  /\ full_list = 0 /\ lock = 0 /\ thread = 0 /\ entries = 0 /\ size = 0
  /\ list = 0 /\ node = 0 /\ evicted = 0 /\ queue = 0 /\ waiting_threads = 0
  /\ total_workers = 0 /\ spawning = 0 /\ broken = 0 /\ promise = 0
  /\ sealed = 0 /\ wpc = 0 /\ task = 0 /\ performed = 0 /\ overshoots = 0
  /\ spc = 0 /\ updater = 0 /\ watched = 0 /\ senders = 0 /\ waker = 0
  /\ shot = 0 /\ chan = 0 /\ sub = 0 /\ open = 0 /\ users = 0 /\ pagecache = 0
  /\ shutdown = 0 /\ mutex = 0 /\ flusher = 0 /\ dropper = 0 /\ closing = 0
  /\ snap = 0 /\ db = 0 /\ stable = 0 /\ cc_readers = 0 /\ cc_writer = 0
  /\ errors = 0 /\ root = 0 /\ ret = 0 /\ failed = 0 /\ value = 0 /\ init_mu = 0
  /\ made = 0
NotTree == <<vars, bufs, tasks, disk, intervals, stable_lsn, max_reserved, error,
             step, op, res, peg, goal, block, blocks, writing, full_list, lock,
             thread, entries, size, list, node, evicted, queue, waiting_threads,
             total_workers, spawning, broken, promise, sealed, wpc, task,
             performed, overshoots, spc, updater, watched, senders, waker, shot,
             chan, sub, open, users, pagecache, shutdown, mutex, flusher, dropper,
             closing, snap, log, db, stable, cc_readers, cc_writer, errors, up,
             pages, tenants, handles, tlock, cc, trees, value, init_mu, made>>
OnlyTree ==
  /\ bufs = 0 /\ tasks = 0 /\ disk = 0 /\ intervals = 0 /\ stable_lsn = 0
  /\ max_reserved = 0 /\ error = 0 /\ step = 0 /\ op = 0 /\ res = 0 /\ peg = 0
  /\ goal = 0 /\ block = 0 /\ blocks = 0 /\ writing = 0 /\ full_list = 0
  /\ lock = 0 /\ thread = 0 /\ entries = 0 /\ size = 0 /\ list = 0 /\ node = 0
  /\ evicted = 0 /\ queue = 0 /\ waiting_threads = 0 /\ total_workers = 0
  /\ spawning = 0 /\ broken = 0 /\ promise = 0 /\ sealed = 0 /\ wpc = 0
  /\ task = 0 /\ performed = 0 /\ overshoots = 0 /\ spc = 0 /\ updater = 0
  /\ watched = 0 /\ senders = 0 /\ waker = 0 /\ shot = 0 /\ chan = 0 /\ sub = 0
  /\ open = 0 /\ users = 0 /\ pagecache = 0 /\ shutdown = 0 /\ mutex = 0
  /\ flusher = 0 /\ dropper = 0 /\ closing = 0 /\ snap = 0 /\ log = 0 /\ db = 0
  /\ stable = 0 /\ cc_readers = 0 /\ cc_writer = 0 /\ errors = 0 /\ up = 0
  /\ pages = 0 /\ tenants = 0 /\ handles = 0 /\ tlock = 0 /\ cc = 0 /\ trees = 0
  /\ value = 0 /\ init_mu = 0 /\ made = 0
NotLazy == <<vars, bufs, tasks, disk, intervals, stable_lsn, max_reserved, error,
             op, res, peg, goal, page, block, blocks, writing, full_list, lock,
             thread, entries, size, list, node, evicted, queue, waiting_threads,
             total_workers, spawning, broken, promise, sealed, wpc, task,
             performed, overshoots, spc, updater, watched, senders, waker, shot,
             chan, sub, open, users, pagecache, shutdown, mutex, flusher, dropper,
             closing, snap, log, db, stable, cc_readers, cc_writer, th, crashes,
             errors, up, pages, limbo, meta, tenants, handles, tlock, cc, trees,
             root, ret>>
OnlyLazy ==
  /\ bufs = 0 /\ tasks = 0 /\ disk = 0 /\ intervals = 0 /\ stable_lsn = 0
  /\ max_reserved = 0 /\ error = 0 /\ op = 0 /\ res = 0 /\ peg = 0 /\ goal = 0
  /\ page = 0 /\ block = 0 /\ blocks = 0 /\ writing = 0 /\ full_list = 0
  /\ lock = 0 /\ thread = 0 /\ entries = 0 /\ size = 0 /\ list = 0 /\ node = 0
  /\ evicted = 0 /\ queue = 0 /\ waiting_threads = 0 /\ total_workers = 0
  /\ spawning = 0 /\ broken = 0 /\ promise = 0 /\ sealed = 0 /\ wpc = 0
  /\ task = 0 /\ performed = 0 /\ overshoots = 0 /\ spc = 0 /\ updater = 0
  /\ watched = 0 /\ senders = 0 /\ waker = 0 /\ shot = 0 /\ chan = 0 /\ sub = 0
  /\ open = 0 /\ users = 0 /\ pagecache = 0 /\ shutdown = 0 /\ mutex = 0
  /\ flusher = 0 /\ dropper = 0 /\ closing = 0 /\ snap = 0 /\ log = 0 /\ db = 0
  /\ stable = 0 /\ cc_readers = 0 /\ cc_writer = 0 /\ th = 0 /\ crashes = 0
  /\ errors = 0 /\ up = 0 /\ pages = 0 /\ limbo = 0 /\ meta = 0 /\ tenants = 0
  /\ handles = 0 /\ tlock = 0 /\ cc = 0 /\ trees = 0 /\ root = 0 /\ ret = 0
NotConcurrencyControl == <<bufs, tasks, disk, intervals, stable_lsn, max_reserved,
                           error, step, op, seen, res, peg, goal, page, block,
                           blocks, writing, full_list, lock, thread, entries, size,
                           list, node, evicted, queue, waiting_threads,
                           total_workers, spawning, broken, promise, sealed, wpc,
                           task, performed, overshoots, spc, updater, watched,
                           senders, waker, shot, chan, sub, open, users, pagecache,
                           shutdown, mutex, flusher, dropper, closing, snap, log,
                           db, stable, cc_readers, cc_writer, th, calls, crashes,
                           errors, up, pages, limbo, meta, tenants, handles, tlock,
                           cc, trees, root, ret, failed, value, init_mu, made>>
OnlyConcurrencyControl ==
  /\ bufs = 0 /\ tasks = 0 /\ disk = 0 /\ intervals = 0 /\ stable_lsn = 0
  /\ max_reserved = 0 /\ error = 0 /\ step = 0 /\ op = 0 /\ seen = 0 /\ res = 0
  /\ peg = 0 /\ goal = 0 /\ page = 0 /\ block = 0 /\ blocks = 0 /\ writing = 0
  /\ full_list = 0 /\ lock = 0 /\ thread = 0 /\ entries = 0 /\ size = 0
  /\ list = 0 /\ node = 0 /\ evicted = 0 /\ queue = 0 /\ waiting_threads = 0
  /\ total_workers = 0 /\ spawning = 0 /\ broken = 0 /\ promise = 0
  /\ sealed = 0 /\ wpc = 0 /\ task = 0 /\ performed = 0 /\ overshoots = 0
  /\ spc = 0 /\ updater = 0 /\ watched = 0 /\ senders = 0 /\ waker = 0
  /\ shot = 0 /\ chan = 0 /\ sub = 0 /\ open = 0 /\ users = 0 /\ pagecache = 0
  /\ shutdown = 0 /\ mutex = 0 /\ flusher = 0 /\ dropper = 0 /\ closing = 0
  /\ snap = 0 /\ log = 0 /\ db = 0 /\ stable = 0 /\ cc_readers = 0
  /\ cc_writer = 0 /\ th = 0 /\ calls = 0 /\ crashes = 0 /\ errors = 0 /\ up = 0
  /\ pages = 0 /\ limbo = 0 /\ meta = 0 /\ tenants = 0 /\ handles = 0
  /\ tlock = 0 /\ cc = 0 /\ trees = 0 /\ root = 0 /\ ret = 0 /\ failed = 0
  /\ value = 0 /\ init_mu = 0 /\ made = 0

SuiteInit ==
  /\ Init
  /\ \/ case = "locks" /\ OnlyConcurrencyControl
     \/ case = "log" /\ Log!Init /\ OnlyIoBufs
     \/ case = "cache" /\ Cache!Init /\ OnlyLru
     \/ case = "pool" /\ Pool!Init /\ OnlyThreadPool
     \/ case = "events" /\ Events!Init /\ OnlySubscribers
     \/ case = "close" /\ Close!Init /\ OnlyShutdown
     \/ case = "commits" /\ Commits!Init /\ OnlyTransactions
     \/ case = "names" /\ NameSpace!Init /\ OnlyTenants
     \/ case = "tree" /\ OneTree!Init /\ OnlyTree
     \/ case = "lazy" /\ Once!Init /\ OnlyLazy

SuiteNext ==
  /\ UNCHANGED case
  /\ \/ case = "locks" /\ Next /\ UNCHANGED NotConcurrencyControl
     \/ case = "log" /\ Log!Next /\ UNCHANGED NotIoBufs
     \/ case = "cache" /\ Cache!Next /\ UNCHANGED NotLru
     \/ case = "pool" /\ Pool!Next /\ UNCHANGED NotThreadPool
     \/ case = "events" /\ Events!Next /\ UNCHANGED NotSubscribers
     \/ case = "close" /\ Close!Next /\ UNCHANGED NotShutdown
     \/ case = "commits" /\ Commits!Next /\ UNCHANGED NotTransactions
     \/ case = "names" /\ NameSpace!Next /\ UNCHANGED NotTenants
     \/ case = "tree" /\ OneTree!Next /\ UNCHANGED NotTree
     \/ case = "lazy" /\ Once!Next /\ UNCHANGED NotLazy

SuiteSpec == SuiteInit /\ [][SuiteNext]_suiteVars
\* What a thread does once it can: the steps of an operation it is in, of the pool's
\* tasks, of the flusher and of the other threads of the database.  In the tree only
\* thread 1 is sure to go on.
Weak(t) ==
  /\ UNCHANGED case
  /\ \/ case = "locks" /\ t \in Threads /\ Drop(t) /\ UNCHANGED NotConcurrencyControl
     \/ case = "log" /\ UNCHANGED NotIoBufs
        /\ ((t \in {1, 2} /\ Log!Step(t)) \/ (t = 3 /\ Log!TaskStep))
     \/ case = "cache" /\ t \in {1, 2} /\ Cache!Step(t) /\ UNCHANGED NotLru
     \/ case = "pool" /\ UNCHANGED NotThreadPool
        /\ ((t # 3 /\ Pool!SubmitterNext(t)) \/ (t \in {4, 5} /\ Pool!WorkerNext(t)))
     \/ case = "events" /\ UNCHANGED NotSubscribers
        /\ (\/ t \in {1, 2} /\ Events!WriterStep(name[t])
            \/ t = 3 /\ Events!SubscriberStep(t)
            \/ t = 4 /\ Events!drop_tree)
     \/ case = "close" /\ UNCHANGED NotShutdown
        /\ (\/ t = 2 /\ Close!FlusherNext
            \/ t = 3 /\ Close!write_to_log
            \/ t = 4 /\ Close!take_fuzzy_snapshot
            \/ t = 5 /\ Close!CloserNext)
     \/ case = "commits" /\ UNCHANGED NotTransactions
        /\ ((t \in {1, 2} /\ Commits!Going(t)) \/ (t = 3 /\ Commits!stabilize))
     \/ case = "names" /\ t = 3 /\ NameSpace!start /\ UNCHANGED NotTenants
     \/ case = "tree" /\ t = 1 /\ OneTree!Step(t) /\ UNCHANGED NotTree
     \/ case = "lazy" /\ t \in Threads /\ Once!Step(t) /\ UNCHANGED NotLazy

\* What a thread does if it can again and again: getting a lock that others get too,
\* and ending a batch, a closure or an exchange that may fail a few times.
Strong(t) ==
  /\ UNCHANGED case
  /\ \/ case = "locks" /\ t \in Threads /\ Acquire(t) /\ UNCHANGED NotConcurrencyControl
     \/ case = "log" /\ t \in {1, 2} /\ Log!seal_batch(t) /\ UNCHANGED NotIoBufs
     \/ case = "cache" /\ t \in {1, 2} /\ Cache!install(t) /\ blocks' # blocks
        /\ UNCHANGED NotLru
     \/ case = "close" /\ t = 1 /\ Close!DropperNext /\ UNCHANGED NotShutdown
     \/ case = "commits" /\ UNCHANGED NotTransactions
        /\ (\/ t \in {1, 2} /\ Commits!Getting(t)
            \/ t \in {3, 4} /\ Commits!Ending(t - 2))
     \/ case = "names" /\ t \in {1, 2} /\ NameSpace!Step(t) /\ UNCHANGED NotTenants
     \/ case = "lazy" /\ t \in Threads /\ Once!lock(t) /\ UNCHANGED NotLazy

FairSuite ==
  /\ SuiteSpec
  /\ \A t \in 1..5 : WF_suiteVars(Weak(t))
  /\ \A t \in 1..4 : SF_suiteVars(Strong(t))
-----------------------------------------------------------------------------
\* Type invariant of closing the database.
CloseTypeOK == case = "close" => Close!TypeOK

\* The flusher thread has ended when the drop goes on past it: it touches neither the
\* log nor the file while they are being closed (the join).
FlusherIsGone == case = "close" => Close!FlusherIsGone

\* Log::drop is run once all holders of the page cache are gone, and leaves every
\* write on disk unless an error was recorded.
NothingLostAtClose == case = "close" => Close!NothingLostAtClose

Callers == {1, 2}
Calling(t) ==
  \/ case = "log" /\ step[t] # "idle"
  \/ case = "cache" /\ ~Cache!At(t, "idle")
  \/ case = "pool" /\ promise[t] = "empty"
  \/ case = "events" /\ updater[name[t]].pc # "idle"
  \/ case = "close" /\ t = 1 /\ dropper.pc \notin {"none", "done"}
  \/ case \in {"commits", "names"} /\ th[t].pc # "idle"
  \/ case = "tree" /\ t = 1 /\ th[t].op # OneTree!Nothing
  \/ case = "lazy" /\ step[t] # "idle"

\* Every call returns.  Of the log: flushes and reads see their data become stable.
\* Of the cache: a thread that drains the accesses of others meets places that are
\* still being written.  Of the pool: a task that is submitted and waits for no other
\* is run, whatever threads start and end.  Of the tree's events:
\* an update whose subscribers' channels are full.  Of closing: the thread that drops
\* the last handle waits for the flusher, also after an error.  Of commits and names:
\* two locks are taken by everyone in one order.  Of the tree: a thread gets through
\* wherever the other one has stopped in the middle of a split or a merge.  Of a lazy
\* value: whoever comes first makes it, the others see it.
CallsReturn == \A t \in Callers : Calling(t) ~> ~Calling(t)

\* An event that was announced is taken by its subscriber: the subscriber does not
\* sleep on a channel with an event at its head (Subscriber::poll, Iterator::next).
EventsAreTaken ==
  (case = "events" /\ Events!EventAtHead(3)) ~> (case # "events" \/ ~Events!EventAtHead(3))

\* Once the tree is gone every subscriber still waiting learns of it
\* (Subscribers::drop).
SubscriptionsEnd ==
  (case = "events" /\ ~open) ~> (case # "events" \/ sub[3].pc \in {"end", "gone"})

\* Nobody waits for ever: for the concurrency control, for a call, for an event or
\* for the end of a subscription.
NobodyWaitsForever ==
  EveryoneEnters /\ CallsReturn /\ EventsAreTaken /\ SubscriptionsEnd

\* Closing the database ends its threads and loses nothing.
CloseIsClean == CloseTypeOK /\ FlusherIsGone /\ NothingLostAtClose
=============================================================================
