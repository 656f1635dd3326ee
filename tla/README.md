# A TLA+ model of sled

sled is an embedded, log-structured database. Its trees live in a page cache
whose pages are chains of messages in one log file. This directory holds TLA+
modules translated from the Rust sources in `src/src/`, TLC configurations that
check them on small instances, and TLAPS proofs of their most important
properties for every instance. `PROJECT.json` maps each definition to the lines
it models, and lists the hazards of the code with the properties that watch them.

## The system

A write to a tree finds its leaf through the page cache, reserves space for a
message in the current **IO buffer** by a compare-and-swap of its header word,
fills it, makes the page point to the message and completes or aborts the
reservation. A buffer is *sealed* when it is full or when someone needs it on
disk; the sealer installs the next buffer, and whoever leaves a sealed buffer
last has the **threadpool** write it. Written buffers become part of the *stable*
prefix of the log when there is no gap below them (the **stability intervals**). A
**batch** holds a reservation for its manifest until its last LSN is known, and
the stable LSN must not enter it before all of it is on disk. The **concurrency
control** keeps single operations out of a running batch.

The log file is cut into segments, which the **segment accountant** drains, frees
and gives out again; large values live in the **heap** instead of the log. A start
reads the last **snapshot** and the log behind it, to the first gap. The **page
cache** keeps the pages in memory, moves them out of segments that are drained, and
hands out page IDs and persistent **IDs**. A **tree** is a B-link tree of pages
whose splits and merges are finished by whoever meets them. **Transactions** stage
their writes and commit them as one batch over several trees. **Tenants** are the
trees of a database by name, found through the meta page.

| Part | Sources | Module | Suite |
|---|---|---|---|
| concurrency control | `concurrency_control.rs` | `ConcurrencyControl` | `MCProgress` |
| IO buffers, reservations, flushes, batches | `pagecache/{iobuf,logger,reservation,header}.rs`, `pin_log` | `IoBufs`, `DurableLog` | `MCIoBufs`, `MCLog`, `MCProgress` |
| stability intervals | `pagecache/iobuf.rs` | `Intervals`, `StabilityIntervals` | `MCLog` |
| header word | `pagecache/header.rs` | `HeaderWord` | `MCLog` |
| persistent IDs | `pagecache/mod.rs` | `IdGen` | `MCLog`, `MCRuntime` |
| snapshots, log iteration, recovery | `pagecache/{snapshot,iterator,mod}.rs` | `Recovery` | `MCRecovery` |
| segment accountant, cleaner | `pagecache/segment.rs` | `SegmentAccountant` | `MCSegments` |
| heap of large items | `pagecache/heap.rs` | `Heap` | `MCSegments` |
| page cache | `pagecache/mod.rs` | `PageCache` | `MCPages` |
| page table | `pagecache/pagetable.rs` | `PageTable` | `MCPages` |
| tree | `tree.rs`, `node.rs` | `Tree`, `AtomicMap` | `MCTree`, `MCProgress` |
| iterators, pops | `iter.rs`, `tree.rs` | `TreeIter` | `MCNodes` |
| layout of a node | `node.rs`, `varint.rs`, `fastcmp.rs` | `NodeLayout` | `MCNodes` |
| transactions, batches of operations | `transaction.rs`, `batch.rs` | `Transactions`, `SerialStore` | `MCDatabases`, `MCProgress` |
| trees by name, meta page | `db.rs`, `meta.rs`, `context.rs` | `Tenants` | `MCDatabases`, `MCProgress` |
| subscribers, promises | `subscriber.rs`, `oneshot.rs` | `Subscribers` | `MCRuntime`, `MCProgress` |
| threadpool | `threadpool.rs` | `ThreadPool` | `MCRuntime`, `MCProgress` |
| flusher, closing the database | `flusher.rs`, `context.rs` | `Shutdown` | `MCProgress` |
| cache of pages | `lru.rs`, `dll.rs`, `fastlock.rs` | `Lru` | `MCRuntime`, `MCProgress` |
| lock-free stack | `stack.rs` | `Stack` | `MCRuntime` |
| lazy values | `lazy.rs` | `Lazy` | `MCRuntime`, `MCProgress` |

Not modelled: byte formats of messages and snapshots, `IVec`, `Arc` (sequential
data, tested by the repository's own quickchecks), calls to the operating system,
options and paths, metrics, traces and injected failures.

## How the modules are built

A module has the component's state as variables, one action for each atomic
access, critical section or system call of the code, and the control between them
in a program counter per thread. Atomics are sequentially consistent. Data is
abstracted to what the properties tell apart: a message is its LSN or a model
value, a page the sequence of its messages, a buffer the range of LSNs it covers.
Every action is translated from the lines given in `PROJECT.json`; every constant
that bounds a run has a name that begins with `Max` or is a set of allowed
operations (`Ops`, `Calls`, `Kinds`, `Uses`).

Definitions introduced by a `Mutant:` comment are faulty variants of the
definition after them: a dropped guard, a missing reset, a swapped order. No
specification uses them; `PROJECT.json` pairs each with the property that fails
when it takes the place of the original.

### Suites

Most runs check several instances of several modules at once. A suite has a
variable `case` that `Init` chooses and no step changes; the module of each case
is instantiated with the constants of that case, and the variables of the other
modules stay as they are. A property of a suite says which cases it speaks
about (`case = "batch" => Batch!...`), and the conjunctions at the end of a suite
(`LogIsSound`, `PagesAreSound` and so on) gather the properties of one component.
A suite whose component has proofs EXTENDS its module, so that TLC evaluates the
assumptions of the proofs.

### Component by component

* `ConcurrencyControl` — `read`, `write`/`enable` and the drops of a protector.
  `counted` and `required` are the low bits and the top bit of `active`; the count
  is the set of threads counted. The reader-writer lock is an external primitive.
* `IoBufs` — the write path: every load of the current buffer with its header,
  compare-and-swap of a header and critical section of the `intervals` mutex is a
  step. `bufs` holds every buffer ever created, `tasks` the closures given to the
  threadpool; `pc`, `op`, `seen`, `res`, `peg` and `goal` are what a thread's stack
  holds. Log contents are LSN ranges; a maxed buffer accounts for the rest of
  its segment. The writer count is the set of LSNs of the reservations inside: at
  one offset that set only shrinks, so headers are equal exactly when their words
  are. `page` is one page of an open tree, so that a read or a batch has a message
  to wait for. The concurrency control is its specification: shared operations
  exclude batches; `open_tree` and snapshots take no part in it, as in the source.
  A woken thread continues with its stale copy of the stable LSN, as the loop in
  `make_stable_inner` does. `threadpool::spawn` itself does not fail.
* `DurableLog` — what the write path promises: LSNs are given out once, bytes
  become durable in any order, and the stable LSN advances over durable bytes and
  over a batch in one piece.
* `Intervals`, `StabilityIntervals` — the bookkeeping of `mark_fsync` as operators
  on sets, and with its vector and map and their loops; the latter is checked to
  compute the former, which justifies its use in `IoBufs`.
* `HeaderWord` — accessors and constructors of the packed word in narrower fields,
  driven by reservations, exits, seals and rolls.
* `IdGen` — `generate_id_inner` access by access, the mutex, the counter page that
  the cleaner moves, a log that becomes durable in order (`InOrder`) or not, and
  crashes that keep a prefix of it.
* `Recovery` — messages of all kinds reach the file in any order within what the
  buffers allow; a crash keeps any part; the start reads snapshots and segments,
  finds the tip, shreds and zeroes, and may be interrupted at every write.
  `HeaderFirst` keeps a segment header from reaching the disk after a message of
  its segment.
* `SegmentAccountant` — states and transitions of segments, marking in any order
  through the stack of deferred operations, draining, freeing, reuse, truncation,
  the cleaner and the start from a snapshot.
* `Heap` — one slab: reservation, errors, freeing in two steps, reuse, the LSN
  check of a read, dangling pointers and the collection at the start. Slabs share
  nothing.
* `PageCache` — `link`, `replace`, `free`, `allocate`, `get` with pull and page
  out, and `rewrite_page`, each cut where it reads, reserves and swaps; inline or
  with items in the heap. The allocation mutex makes the "benign race" comments
  in `take_fuzzy_snapshot` unreachable.
* `PageTable` — the two levels, whose second-level nodes are made by racing
  inserts.
* `Tree` — view, link and compare-and-swap of pages with splits, hoists of the root
  and merges cut between their page writes. Sizes are counts of children, and an
  allocation is atomic with the step that makes the page reachable. A thread may
  stop anywhere and the other ones get through. `AtomicMap` is the map it promises.
* `TreeIter` — `next`, `next_back`, prefixes and pops over a partition of the keys
  into leaves that splits, merges and changes meanwhile; keys are short byte
  strings, since `possible_predecessor` depends on their bytes.
* `NodeLayout` — a node as a record of the header fields and the byte runs behind
  them: stride and lengths fixed or varying, prefix, varints up to three bytes,
  overlay, split and merge; in the widths of the code (case `leaf`) or scaled by
  constants (case `index`).
* `Transactions` — overlays, staging, aborts and retries, commit over several
  trees, seal, flush, storage errors and a crash; `SerialStore` is the sequential
  store. A single write is atomic with its log record. Two views of one tree have
  overlays of their own. IDs drawn inside a transaction do not roll back; they, the
  check that all trees belong to one database, and operations on the database
  itself inside a closure are left out.
* `Tenants` — `open_tree`, `drop_tree`, collecting a dropped tree's pages, the meta
  page, handles with their roots, `checksum` for its locks. Locks are taken in the
  order tenants, concurrency control; the retry branch of `meta::open_tree` is
  unreachable under the tenants lock. Pages orphaned by a crash during the
  collection are known to the code. `export` and `import` only read and insert.
* `Subscribers` — registration, reservation, completion, `next`, `next_timeout` and
  `poll`, leaving, and the end of the tree. A batch outside a transaction announces
  each of its keys twice.
* `ThreadPool` — queue, immortal and dynamic threads, counters modulo `Wrap`,
  panics, and tasks that wait for other tasks.
* `Shutdown` — flusher thread, mutex and condition variable, error paths, drops of
  the handles down to `Log::drop`, a snapshot task that outlives them.
* `Lru` — one shard: the queue of blocks, the lock, entries and the linked list.
* `Stack` — push, pop, `take_iter` with epoch reclamation and reused addresses.
* `Lazy` — `deref` with its lock and its two checks.

## Runs

| Run | Cases | Shows |
|---|---|---|
| `reserve` | three threads that write and make batches across a segment boundary in a log reopened mid-segment; two in a new log while writes and segments fail | reservations do not alias or begin in the red zone, each buffer is written once, writers in a header are threads, the assertions of the intervals hold, what is stable is on disk, batches become stable in one piece, and the log implements `DurableLog` |
| `log` | batches beside writes and snapshots, beside `open_tree`, beside flushes and reads; failing writes; the vector of intervals; the header word; two threads that draw IDs | waiters are told the truth, the vector computes what the sets say, no field of the word carries, the ID counter keeps its assertions |
| `recovery` | two pages with canceled messages; batches and caps; snapshots taken while pages change; segments used again; up to two crashes | the recovered pages are those of one prefix of the log, with whole batches and everything that was stable |
| `segments` | marks racing; reuse and truncation; restarts; heap slots with errors, crashes, two pages | no assertion fires, nothing a crash needs is lost, segments and slots are counted exactly and owned once |
| `pages` | updates beside moves and page-outs; items in the heap; free and allocate; the page table | memory, file and log agree, no update is lost, no reused page ID is mistaken |
| `tree` | growth; all operations; merges; hoists; three levels with a crash | the tree implements the atomic map, indexes are right, no page is left behind |
| `nodes` | ranges, prefixes, pops; a leaf, an index | iterators skip, repeat and invent nothing; the layout gives back every item |
| `databases` | transactions over two trees, with flushes, with batches, with errors; trees by name | commits are atomic and serializable, names, handles and roots agree |
| `runtime` | cache, stack, pool, subscribers, lazy value, one thread that draws IDs | nothing lost, used twice, out of order or used after it was freed |
| `progress` | the concurrency control and a small instance of everything that waits, fair | exclusion, a clean close, and nobody waits for ever |

Two runs show the code at odds with its own words: `idgen_race` (an ID may be
handed out twice across a crash, because `idgen_persists` is raised before the
previous counter page is durable) and `transactions_half` (a commit over two trees
that fails on the second leaves the write to the first).

### Bounds

Segments of 5 to 9 LSNs and messages of 2 to 4 make a run fill a segment, roll
over to the next, meet a message that does not fit and one that would begin in the
red zone, and write buffers out of order; two writers per header make `MaxWriters`
bind with three threads. A recovery of four to six messages with two crashes has a
crash of the system and one of the recovery itself; three segments are enough to
use one again. Trees of up to nine pages have three levels and split, hoist and
merge at all of them. Three slots, two pages and two threads suffice for a slot to
be freed, reused and met by a stale pointer. Pools of three threads start, end and
restart dynamic threads, with counters that wrap at 8. `MaxLsn` and the other
`Max` constants stop new work, which is why these runs do not check for
deadlock; `progress` covers stuck operations. Symmetry is used where the threads or
pages of a case are interchangeable.

### Fairness

`progress` assumes weak fairness of every thread inside a call, of the
threadpool's threads and of the flusher, and strong fairness where a lock or a
condition comes and goes: taking a lock (`parking_lot` is eventually fair), the end
of a batch or a closure (finite lists of operations), the drop of the last handle,
and an exchange that can be disturbed only finitely often. Nothing is assumed of
callers that are idle. `EveryoneEnters` has the proviso that the counter and the
lock are free again and again, since overlapping readers could otherwise hold off
the first batch for ever.

## What the code does otherwise

Besides the two runs above, these statements of comments and documentation fail in
the model. Each can be seen with the module, constants and property named.

* `IoBufs`, a batch beside `open_tree`, `PinAvoidsDeadlock`: `pin_log` seals the
  buffer of its manifest with one compare-and-swap (`pagecache/mod.rs:1172`), which
  `open_tree`, outside the concurrency control, can make fail; a batch that then
  reads a message of that buffer waits for itself.
* `IoBufs`, `IoErrors`, `ErrorsWakeWaiters`: when `write_to_log` fails in the closure
  of `exit_reservation` (`logger.rs:463`) the error is set and nobody is woken.
* `IoBufs`, `HeapErrors`, `WritersAreHeld`: when `encapsulate` fails
  (`logger.rs:390`) the header has counted a writer that no reservation holds, and
  the buffer is never written.
* `IoBufs`, `EmptyBatchesAreAborted`: `mark_writebatch` compares the manifest's LSN
  with the last reserved *byte* (`reservation.rs:81`); the test never succeeds.
* `IdGen`, one thread, `InOrder = FALSE`, `IdsAreUnique`: `make_durable` returns when
  the buffer of the counter page is on disk, even if an earlier one is not;
  recovery stops at the gap and hands out IDs again.
* `Heap`, `NoLeak`: `mark_replace` passes over a record without a place in the log
  before it schedules the removal of its item (`segment.rs:787`).
* `Recovery`, `PagesAreReplay`: with exactly `MAX_MSG_HEADER_LEN` bytes left in a
  segment, `advance_snapshot` takes it for full although a message may be there
  (`snapshot.rs:344`); and (`HeaderFirst = FALSE`) a message that reached a fresh
  segment before the segment's header did is not overwritten (`snapshot.rs:444`).
* `Recovery`, `NoFailure`: bytes of a cap are part of the stable interval, but the
  iterator does not count them (`iterator.rs:151`), so a snapshot may be ahead of the
  log, and recovery gives up.
* `SegmentAccountant`, `Snapshots` with heap pages, `CountsAreExact`: a replacement
  that carries the LSN of the segment itself is not counted (`segment.rs:405`), so
  that the segment is not freed before a restart.
* `Shutdown`, `Snapshots`, `DropIsSynchronous`: a snapshot task owns a clone of the
  page cache, and `Log::drop` runs after the drop of the last handle has returned.
* `Subscribers`: `poll` drops a promise that is not filled yet (`NoGaps`) and stores
  its waker without looking again (`EventsAreTaken`); `next_timeout` drops the
  promise it waited for (`NoGaps`); dropping a subscriber waits for the lock that an
  operation blocked on its full channel holds (`OperationsReturn`).
* `ThreadPool`: a running thread is subtracted from a counter it has left, the
  counter wraps, and the pool does not grow (`GrowsWhenBusy`); flushes that occupy
  every thread wait for a write that no thread takes (`EveryPromiseResolves`);
  dynamic threads end only after five tasks and three overshoots
  (`DynamicThreadsEnd`).
* `TreeIter`: `pop_min` and `pop_max` may leave an item inserted beyond the one they
  return (`PopIsAtomic`); `next_back` from a leaf that begins at a key followed by
  bytes 255 loops to its assertion (`NoFailure`, keys longer than `Pad`).
* `HeaderWord`: with segments of 2^24 bytes the offset of a full buffer carries into
  the writers (`FieldsAgree`); `bump_salt` clears the bit it sets (`SaltIsNew`),
  which harms nothing, since every buffer has a word of its own.
* `NodeLayout`: the fast path of `stitch` does not keep the minimum of 8 bytes that
  `offset` reads (`OffsetReadsInside`), nor ticks the sketch (`InsertsTick`).
* `Stack`, `DroppedOnce`: `pop` returns a copy of an item that its node drops again.
* `Tenants`, `RootsFollowMeta`: the default tree has two inner structures, with a
  root, subscribers and a merge operator each; a hoist moves only one root.

## Proofs

Proved by TLAPS for every set of threads, every size and every number of operations.

**The log** (`IoBufsProofs`). All safety properties that the run `reserve` checks of
`IoBufs` are theorems: `StableDurability`, `SealedFinality`, `NoByteIsAliased`,
`RedZones`, `ExactlyOnce`, `WritersHeld`, `AssertionsNeverFail`, `BatchAtomicity`, and
`Refinement`: `IoBufs` implements `DurableLog` under the mapping that keeps the tip of
the log, the LSNs on disk, the stable LSN and the recorded batches. The two
inductive invariants are in `IoBufsInvariant`.

* `IInv` says what each thread has loaded, reserved or sealed at each place
  (`ThreadOK`, `HandoverOK`), that buffers are not overfilled, that tasks and the disk
  refer to sealed buffers, and that all LSNs in the intervals are on disk.
  Durability alone is not inductive: it needs that the extent of a written buffer no
  longer changes (`Frozen`), which needs that whoever swaps a header loaded an open
  one. `TypeCorrect`, `StableDurability` and `SealedFinality` rest on it alone.
* `LogInv` adds what ties the threads to the buffers. `Chain`: buffers follow one
  another, only the last may be open, and one that does not fill its segment leaves
  room for a header. `HeldOK`: each reservation lies within its buffer, which counts
  its holder, and two reservations share no byte. `DutiesOK`: a buffer is nobody's duty
  before it is sealed and empty, and then one thread's or one task's until it is on
  disk; a compare-and-swap that finds the header it loaded is what hands the duty
  over. `MarksOK`: an LSN in the intervals belongs to a buffer on disk that
  `mark_interval` has seen. `BatchOK` and `BatchesOK`: a manifest that is held lies above
  all recorded batches, which lie apart, above what is stable and below the tip.
  `AloneOK`: one thread replaces the buffer, one batch is under way.
* Most steps change the locals of one thread (`QuietStep`) or one buffer; the lemmas
  in `IoBufsFrames` say what such a step keeps. `IoBufsSteps` proves the first
  invariant, an action at a time; `IoBufsLogSteps` and `IoBufsBufferSteps` the second,
  for the steps that leave the buffers alone and for those that claim, seal, replace
  or leave one.
* `WritersHeld` assumes `HeapErrors = FALSE`. When the write of a heap item fails, the
  code forgets the reservation and its buffer keeps counting a writer.
* `ContiguousIs`, `PublishedIs` and `PublishedKeeps` (in `IoBufsLogSteps`): `Contiguous`
  and `Published`, defined by `CHOOSE`, denote what they should for a finite set of
  LSNs and batches that lie apart. The end of the prefix exists because strict
  inclusion of finite sets is well founded.
* TLC finds `IInv` and `LogInv` true in all 280,848 states of the instance of `reserve`
  (with its configuration and `IoBufsInvariant` extended in place of `IoBufs`).

**The runtime** (`RuntimeProofs`).

* `ConcurrencyControl`: `TypeCorrect`, `MutualExclusion`, `UpgradeFinal`. The invariant
  adds that the upgrade completes only when nobody is counted from before the bit
  was set, and that whoever is past `fetch_or` has set the bit.
* `Lazy`: `Once`, the value is made once and everyone returns with it.
* `Shutdown`: `ClosesCleanly` and `DropsSynchronously`. `CloseInv` says who holds the page
  cache at each place of the flusher, of the snapshot and of the last drop, and that
  a buffer that `Log::drop` has found empty stays empty. The second theorem assumes
  that no snapshots are taken: a snapshot holds the page cache beyond the last drop.
* `ThreadPool`: `TasksInOnePlace` and `OneAtATime`. `PlacesInv` replaces the counting
  by equalities: no task is twice in the queue, on two threads, or on both.
  `StartsInv` says who holds the flag `spawning`. Both assume (`PoolConstants`) that
  clients, threads and the task that `flush` submits have different names.

**The page table** (`PageTableProofs`): `TypeCorrect`, `Found` (a page that was inserted
is found from then on) and `Safe`. Page IDs split into two indexes injectively
(`SplitRange`, `SplitInjective`), and a node, once installed, stays.

**Persistent IDs** (`IdGenProofs`): `TypeCorrect` and `CounterMatches`: the counter page
in the log is what `idgen_persists` says, whoever moves it and whatever prefix a
crash keeps. The invariant describes the log (`LogOK`), the holder of the mutex
(`MutexOK`), the page and its key; that a crash leaves a greatest counter rests on the
well-foundedness of inclusion again.

Assumptions are named in the modules that declare the constants; the weakest that
the code justifies, such as `SizeAssumption` (a segment holds its header and the
red zone, every message fits a segment and has at least two bytes) and
`StartAssumption` (a log is reopened at a segment's start or below its red zone) of
`IoBufs`. TLC evaluates them in the runs. Where a theorem needs more, it says so as a
hypothesis of its own.

Zenon is the default prover of the proof modules (`USE ZenonT(30)`); the leaves that
need arithmetic, sequences or records cite `SMTT(30)`.

Only model-checked: liveness (of `IoBufs` too), what loops and recursive operators compute
(`StabilityIntervals`, `NodeLayout`, `Tree`, `Tenants`), and the components that this
section does not name.
