------------------------- MODULE SegmentAccountant --------------------------
(***************************************************************************)
(* The segment accountant: src/src/pagecache/segment.rs, and the stack of  *)
(* deferred operations in front of it, src/src/pagecache/iobuf.rs.         *)
(*                                                                         *)
(* The log file is divided into segments.  The accountant knows which      *)
(* pages have state in which segment; it drains a segment that holds       *)
(* little live data, frees it once every page was moved elsewhere and the  *)
(* moves are stable, hands it out again, and truncates the file.           *)
(*                                                                         *)
(* LSNs and offsets of segments are counted in segments and a message      *)
(* has size 1.  The accountant is one value, `sa`; its methods, which run  *)
(* under one mutex, are operators from value to value.  An assertion that  *)
(* fails sets sa.panic.  Its clients (page cache, log) are reduced to the  *)
(* order in which they publish a page, mark it, and complete the write.    *)
(***************************************************************************)
EXTENDS Integers, SequencesExt

CONSTANTS
    Threads, Pids,
    HeapPids,         \* the pages that are written to the heap
    SegSize,          \* messages in a segment
    MaxMessages,      \* bound on the log
    Threshold,        \* SEGMENT_CLEANUP_THRESHOLD, a percentage
    ManyInactive,     \* the `5` of deactivate_segment
    Links, Aborts, Crashes, Snapshots,  \* which of these happen
    None

\* The constants are meant to satisfy
\*   /\ HeapPids \subseteq Pids /\ SegSize \in Nat \ {0} /\ MaxMessages \in Nat
\*   /\ Threshold \in 0..100 /\ ManyInactive \in Nat
\*   /\ {Links, Aborts, Crashes, Snapshots} \subseteq BOOLEAN

VARIABLES
    sa,          \* the SegmentAccountant
    deferred,    \* deferred_segment_ops, the top of the stack first
    disk,        \* the LSN of the segment stored at each offset, or -1
    log,         \* the messages: [pid, kind, info, done]
    stable,      \* how many messages are known to be on disk
    page,        \* the cache_infos of each page
    snapshot_min_lsn,
    op           \* what each thread has published and not completed

memory == <<sa, deferred, snapshot_min_lsn, op>>
vars == <<memory, disk, log, stable, page>>

Lids == 0..((MaxMessages - 1) \div SegSize)

\* config.normalize, for the n-th message.
normalize(n) == (n - 1) \div SegSize

Panic(a) == [a EXCEPT !.panic = TRUE]
----------------------------------------------------------------------------
(* The states of a segment.                                                *)

Free(previous) == [st |-> "Free", previous_lsn |-> previous]

Active(lsn) ==
    [st |-> "Active", lsn |-> lsn, rss |-> 0, deferred_rss |-> 0,
     deferred_pids |-> {}, pids |-> {}, latest |-> 0, can_free |-> {}, heap |-> {}]

free_to_active(a, lid, lsn) ==
    IF a.seg[lid].st = "Free" THEN [a EXCEPT !.seg[lid] = Active(lsn)] ELSE Panic(a)

active_to_inactive(a, lid) ==
    LET s == a.seg[lid]
    IN IF s.rss < s.deferred_rss THEN Panic(a)
       ELSE [a EXCEPT
                !.heap_freed = @ \cup s.heap,
                !.seg[lid] =
                   [st |-> "Inactive", lsn |-> s.lsn, rss |-> s.rss - s.deferred_rss,
                    pids |-> s.pids \ s.deferred_pids,
                    max_pids |-> Cardinality(s.pids),
                    replaced_pids |-> Cardinality(s.deferred_pids),
                    latest |-> s.latest]]

\* The pages that are still in the segment go to the cleaner.
inactive_to_draining(a, lid, lsn) ==
    LET s == a.seg[lid]
    IN IF s.st # "Inactive" \/ lsn < s.lsn \/ lid \in DOMAIN a.cleaner THEN Panic(a)
       ELSE [a EXCEPT
                !.seg[lid] = [st |-> "Draining", lsn |-> s.lsn, max_pids |-> s.max_pids,
                              replaced_pids |-> s.replaced_pids, latest |-> s.latest],
                !.cleaner = (lid :> s.pids) @@ @]

insert_pid(a, lid, pid, lsn) ==
    LET s == a.seg[lid]
    IN IF s.st = "Active" /\ s.lsn = lsn
       THEN [a EXCEPT !.seg[lid] = [s EXCEPT !.pids = @ \cup {pid}, !.rss = @ + 1]]
       ELSE Panic(a)

Larger(x, y) == IF x > y THEN x ELSE y

\* `lsn` is the segment that holds the replacement.
remove_pid(a, lid, pid, lsn, sz) ==
    LET s == a.seg[lid]
        n == IF lsn # s.lsn THEN 1 ELSE 0
    IN IF s.st = "Free" THEN Panic(a)
       ELSE IF lsn < s.lsn THEN Panic(a)
       ELSE CASE s.st = "Active" ->
                   [a EXCEPT !.seg[lid] =
                       [s EXCEPT !.deferred_pids = IF n = 1 THEN @ \cup {pid} ELSE @,
                                 !.deferred_rss = @ + sz, !.latest = Larger(@, lsn)]]
              [] s.st = "Inactive" ->
                   IF s.rss < sz THEN Panic(a)
                   ELSE [a EXCEPT !.seg[lid] =
                            [s EXCEPT !.pids = IF n = 1 THEN @ \ {pid} ELSE @,
                                      !.replaced_pids = @ + n, !.rss = @ - sz,
                                      !.latest = Larger(@, lsn)]]
              [] OTHER ->
                   [a EXCEPT !.seg[lid] =
                       [s EXCEPT !.replaced_pids = @ + n, !.latest = Larger(@, lsn)]]

remove_heap_item(a, lid, id) ==
    CASE a.seg[lid].st = "Active" -> [a EXCEPT !.seg[lid].heap = @ \cup {id}]
      [] a.seg[lid].st = "Free" -> Panic(a)
      [] OTHER -> [a EXCEPT !.heap_freed = @ \cup {id}]

can_free(s) == s.st = "Draining" /\ s.replaced_pids = s.max_pids

\* draining_to_free leaves the segment out of the free list.
draining_to_free(a, lid, lsn) ==
    IF lsn < a.seg[lid].lsn THEN Panic(a)
    ELSE [a EXCEPT !.seg[lid] = Free(a.seg[lid].lsn)]

\* Mutant: nobody remembers to free the drained segment.
defer_free_lsnForgets(a, lid, lsn) == a

\* The segment with this LSN is freed when the one at `lid` is deactivated.
defer_free_lsn(a, lid, lsn) ==
    IF a.seg[lid].st = "Active" THEN [a EXCEPT !.seg[lid].can_free = @ \cup {lsn}]
    ELSE Panic(a)
----------------------------------------------------------------------------
(* The accountant.                                                         *)

\* truncate: executed later, by the thread pool.
truncate(a, at) ==
    IF at \in a.free \/ at \in a.async_truncations THEN Panic(a)
    ELSE [a EXCEPT !.tip = at, !.async_truncations = @ \cup {at},
                   !.truncating = @ \cup {at}]

\* The loop of free_segment, with a laziness factor of 1: the free segments at
\* the end of the file are cut off, the last one first, but one is kept.
truncate_tail(a) ==
    FoldLeft(LAMBDA b, i :
                IF b.tip # 0 /\ Cardinality(b.free) > 1 /\ b.tip - 1 \in b.free
                THEN truncate([b EXCEPT !.free = @ \ {b.tip - 1}], b.tip - 1)
                ELSE b,
             a, [i \in 1..Cardinality(a.free) |-> i])

Without(f, x) == [y \in DOMAIN f \ {x} |-> f[y]]

free_segment(a, lid) ==
    IF a.tip <= lid \/ a.seg[lid].st # "Free" \/ lid \in a.free THEN Panic(a)
    ELSE truncate_tail([a EXCEPT !.cleaner = Without(@, lid), !.free = @ \cup {lid},
                                 !.ordering = Without(@, a.seg[lid].previous_lsn)])

\* Mutant: a drained segment is freed although its replacements are not stable.
free_when_safeNow(a, lid, lsn) == free_segment(draining_to_free(a, lid, lsn), lid)

\* The second half of possibly_clean_or_free_segment: a segment whose last
\* replacement lies in an active segment is freed with that one's deactivation.
free_when_safe(a, lid, lsn) ==
    LET replacement == a.seg[lid].latest
        b == draining_to_free(a, lid, lsn)
    IN IF replacement \notin DOMAIN b.ordering THEN free_segment(b, lid)
       ELSE IF b.seg[b.ordering[replacement]].st = "Active"
       THEN defer_free_lsn(b, b.ordering[replacement], a.seg[lid].lsn)
       ELSE IF replacement > b.max_stabilized_lsn THEN Panic(b)
       ELSE free_segment(b, lid)

possibly_clean_or_free_segment(a, lid, lsn) ==
    LET s == a.seg[lid]
        drain == s.st = "Inactive" /\ (s.rss * 100) \div SegSize <= Threshold
        b == IF drain THEN inactive_to_draining(a, lid, lsn) ELSE a
    IN IF s.st = "Free" THEN Panic(a)
       ELSE IF can_free(b.seg[lid]) THEN free_when_safe(b, lid, lsn)
       ELSE b

\* A pointer that was merged into a snapshot has no place in the log.
mark_link(a, pid, info) ==
    IF info.lid = None THEN a ELSE insert_pid(a, info.lid, pid, info.lsn)

\* A set of offsets, or of LSNs of segments, in order.
Ascending(S) == SelectSeq([i \in 1..Cardinality(Lids) |-> i - 1], LAMBDA x : x \in S)

\* A heap item that is replaced is removed with the segment of its replacement,
\* unless only the pointer to it was moved.
remove_heap_items(a, old, new) ==
    IF Len(old) = 1 /\ old[1].heap # None /\ old[1].heap = new.heap THEN a
    ELSE FoldLeft(LAMBDA b, o :
                     IF o.lid = None \/ o.heap = None THEN b
                     ELSE IF new.lid = None THEN [b EXCEPT !.heap_freed = @ \cup {o.heap}]
                     ELSE remove_heap_item(b, new.lid, o.heap),
                  a, old)

mark_replace(a, pid, old, new) ==
    LET linked == remove_heap_items(mark_link(a, pid, new), old, new)
        size(lid) == Cardinality({i \in DOMAIN old : old[i].lid = lid})
    IN FoldLeft(LAMBDA b, lid :
                   IF b.panic THEN b
                   ELSE LET c == remove_pid(b, lid, pid, new.lsn, size(lid))
                        IN IF c.panic THEN c
                           ELSE possibly_clean_or_free_segment(c, lid, new.lsn),
                linked, Ascending({old[i].lid : i \in DOMAIN old}))

apply_op(a, o) ==
    IF a.panic THEN a
    ELSE IF o.kind = "Link" THEN mark_link(a, o.pid, o.new)
    ELSE mark_replace(a, o.pid, o.old, o.new)

\* take_iter: the last operation pushed comes first.
apply_deferred(a) == FoldLeft(apply_op, a, deferred)

\* With many free segments, the last inactive one is drained too.
clean_tip(a, lsn) ==
    LET in(st) == {l \in 0..(a.n - 1) : a.seg[l].st = st}
        free == Cardinality(in("Free"))
        inactive == Cardinality(in("Inactive"))
    IN IF (free * 100) \div (1 + free + inactive) >= Threshold /\ inactive > ManyInactive
       THEN inactive_to_draining(a, CHOOSE l \in in("Inactive") :
                                       \A m \in in("Inactive") : m <= l, lsn)
       ELSE a

deactivate_segment(a, lsn) ==
    LET lid == a.ordering[lsn]
        s == a.seg[lid]
        b == IF s.st = "Active" THEN active_to_inactive(a, lid) ELSE a
        freeable == IF s.st = "Active"
                    THEN Ascending(s.can_free) ELSE <<>>
        c == FoldLeft(LAMBDA d, l :
                         IF d.panic THEN d
                         ELSE IF l \notin DOMAIN d.ordering THEN Panic(d)
                         ELSE IF d.ordering[l] = lid THEN Panic(d)
                         ELSE free_segment(d, d.ordering[l]),
                      b, freeable)
        d == possibly_clean_or_free_segment(c, lid, lsn)
    IN IF c.panic \/ d.panic THEN Panic(a) ELSE clean_tip(d, lsn)

\* `n` messages are stable: the segments below the one being filled are.
stabilize(a, n) ==
    LET lsn == (n \div SegSize) - 1
        todo == {l \in DOMAIN a.ordering : l > a.max_stabilized_lsn /\ l <= lsn}
    IN IF a.max_stabilized_lsn >= lsn THEN a
       ELSE FoldLeft(LAMBDA b, l :
                        IF b.panic THEN b
                        ELSE IF l \notin DOMAIN b.ordering THEN Panic(b)
                        ELSE deactivate_segment(b, l),
                     [a EXCEPT !.max_stabilized_lsn = lsn],
                     Ascending(todo))

\* Where the next segment goes: the first free one, or the end of the file.
next_lid(a) ==
    IF a.free = {} THEN a.tip ELSE CHOOSE l \in a.free : \A m \in a.free : l <= m

\* bump_tip blocks until the truncations at and above the tip are executed.
may_bump(a) == a.free = {} => \A at \in a.truncating : at < a.tip

next(a, lsn) ==
    LET lid == next_lid(a)
        b == IF a.free = {}
             THEN [a EXCEPT !.tip = @ + 1,
                            !.async_truncations = {at \in @ : at < a.tip}]
             ELSE [a EXCEPT !.free = @ \ {lid}]
        c == free_to_active([b EXCEPT !.n = Larger(@, lid + 1)], lid, lsn)
    IN IF lsn < lid THEN Panic(c) ELSE [c EXCEPT !.ordering = (lsn :> lid) @@ @]
----------------------------------------------------------------------------
(* SegmentAccountant::start.                                               *)

NoSegments ==
    [seg |-> [l \in Lids |-> Free(None)], n |-> 0, free |-> {}, tip |-> 0,
     max_stabilized_lsn |-> -1, cleaner |-> <<>>, ordering |-> <<>>,
     async_truncations |-> {}, truncating |-> {}, heap_freed |-> {}, panic |-> FALSE]

\* What recovery finds of a page when the first `n` messages survive: the last
\* state written in full, and the links above it.
recovered(p, n) ==
    LET needed(i) == /\ log[i].pid = p
                     /\ \A j \in (i + 1)..n : log[j].pid = p => log[j].kind = "Link"
        indices == SelectSeq([i \in 1..n |-> i], needed)
    IN [k \in DOMAIN indices |-> log[indices[k]].info]

\* initial_segments: the recovered pages are put into their segments, and the
\* segment that the log stopped in (if it is not full) is active in any case.
initial_segments(n) ==
    LET tip == IF n % SegSize = 0 THEN NoSegments
               ELSE free_to_active(NoSegments, log[n].info.lid, normalize(n))
        add(a, p, info) ==
            IF info.lid = None \/ a.panic THEN a
            ELSE LET b == IF a.seg[info.lid].st = "Free"
                          THEN free_to_active(a, info.lid, info.lsn) ELSE a
                 IN insert_pid(b, info.lid, p, info.lsn)
    IN FoldLeft(LAMBDA a, p : FoldLeft(LAMBDA b, i : add(b, p, i), a, recovered(p, n)),
                tip, SetToSeq(Pids))

\* initialize_from_snapshot: the file's length gives the tip, the segments
\* without recovered pages are freed and zeroed, and truncations are awaited.
initialize_from_snapshot(n, len) ==
    LET a == [initial_segments(n) EXCEPT !.n = len, !.tip = len]
        to_free == SelectSeq([i \in 1..len |-> i - 1], LAMBDA l : a.seg[l].st = "Free")
        b == FoldLeft(LAMBDA c, l : IF c.panic THEN c ELSE free_segment(c, l), a, to_free)
        used == {l \in 0..(len - 1) : b.seg[l].st # "Free"}
    IN [b EXCEPT !.async_truncations = {}, !.truncating = {},
                 !.ordering = [l \in {b.seg[u].lsn : u \in used} |->
                                  CHOOSE u \in used : b.seg[u].lsn = l]]

file_len == 1 + CHOOSE l \in -1..(Cardinality(Lids) - 1) :
    /\ \A m \in Lids : disk[m] # -1 => m <= l
    /\ l = -1 \/ disk[l] # -1

Init ==
    /\ sa = NoSegments /\ deferred = <<>> /\ disk = [l \in Lids |-> -1]
    /\ log = <<>> /\ stable = 0
    /\ page = [p \in Pids |-> <<>>]
    /\ snapshot_min_lsn = 0
    /\ op = [t \in Threads |-> None]

\* How many messages are complete, without a gap.
complete_prefix ==
    CHOOSE n \in 0..Len(log) :
        /\ \A i \in 1..n : log[i].done
        /\ n = Len(log) \/ ~log[n + 1].done

\* A crash, and a restart from what was on disk: everything that is stable, and
\* possibly more.
restart ==
    /\ Crashes /\ ~Snapshots
    /\ \E n \in stable..complete_prefix :
          LET a == initialize_from_snapshot(n, file_len)
          IN /\ sa' = a
             /\ disk' = [l \in Lids |-> IF l < a.n /\ a.seg[l].st # "Free"
                                        THEN a.seg[l].lsn ELSE -1]
             /\ log' = SubSeq(log, 1, n) /\ stable' = n
             /\ page' = [p \in Pids |-> recovered(p, n)]
    /\ deferred' = <<>> /\ snapshot_min_lsn' = 0
    /\ op' = [t \in Threads |-> None]
----------------------------------------------------------------------------
(* The page cache and the log, as they use the accountant.                 *)

\* Reserve space for a message; a full segment is followed by the next one.
reserve(entry, a) ==
    LET n == Len(log) + 1
        fresh == (n - 1) % SegSize = 0
        lid == IF fresh THEN next_lid(a) ELSE log[n - 1].info.lid
        info == [lsn |-> normalize(n), lid |-> lid, heap |-> entry.heap]
    IN /\ n <= MaxMessages
       /\ fresh => may_bump(a)
       /\ sa' = IF fresh THEN next(a, normalize(n)) ELSE a
       /\ disk' = [disk EXCEPT ![lid] = normalize(n)]
       /\ log' = Append(log, [pid |-> entry.pid, kind |-> entry.kind,
                              info |-> info, done |-> entry.pid = None])

last_info == log'[Len(log')].info

\* link and cas_page: reserve, and install the new state of the page.
publish(t, p, kind, heap, a) ==
    /\ reserve([pid |-> p, kind |-> kind, heap |-> heap], a)
    /\ page' = [page EXCEPT ![p] =
                   IF kind = "Link" THEN Append(@, last_info) ELSE <<last_info>>]
    /\ op' = [op EXCEPT ![t] = [step |-> "mark", kind |-> kind, pid |-> p,
                                old |-> IF kind = "Link" THEN <<>> ELSE page[p],
                                new |-> last_info, n |-> Len(log')]]
    /\ UNCHANGED <<deferred, stable, snapshot_min_lsn>>

\* A big page goes to a new heap item, named after the message.
NewHeap(p) == IF p \in HeapPids THEN Len(log) + 1 ELSE None

link(t, p) ==
    Links /\ op[t] = None /\ page[p] # <<>> /\ publish(t, p, "Link", None, sa)

replace(t, p) == op[t] = None /\ publish(t, p, "Replace", NewHeap(p), sa)

\* A reservation that is aborted still takes its place in the log.
abort ==
    /\ Aborts
    /\ reserve([pid |-> None, kind |-> "Abort", heap |-> None], sa)
    /\ UNCHANGED <<deferred, stable, snapshot_min_lsn, page, op>>

\* lone_heap_item: the page is one heap item and nothing else.
lone_heap_item(p) == Len(page[p]) = 1 /\ page[p][1].heap # None

\* SegmentCleaner::pop: the first page of the first segment to clean; a segment
\* without pages leaves the cleaner.
pop(a) ==
    LET lid == CHOOSE l \in DOMAIN a.cleaner : \A m \in DOMAIN a.cleaner : l <= m
        pids == a.cleaner[lid]
    IN IF pids = {} THEN {[lid |-> lid, pid |-> None, sa |-> [a EXCEPT !.cleaner = Without(@, lid)]]}
       ELSE {[lid |-> lid, pid |-> p, sa |-> [a EXCEPT !.cleaner[lid] = @ \ {p}]] : p \in pids}

\* rewrite_page of a page that has no state in the segment: nothing to do.
already_moved(p, lid) == \A i \in DOMAIN page[p] : page[p][i].lid \notin {lid, None}

\* rewrite_page.  The pointer to a lone heap item is rewritten alone, or not at
\* all when a snapshot holds it.
rewrite(t) ==
    /\ op[t] = None /\ DOMAIN sa.cleaner # {}
    /\ \E c \in pop(sa) :
          IF c.pid = None \/ already_moved(c.pid, c.lid)
          THEN sa' = c.sa /\ UNCHANGED <<deferred, disk, log, stable, page, snapshot_min_lsn, op>>
          ELSE IF lone_heap_item(c.pid) /\ page[c.pid][1].heap <= snapshot_min_lsn
          THEN LET info == [page[c.pid][1] EXCEPT !.lid = None]
               IN /\ sa' = c.sa
                  /\ page' = [page EXCEPT ![c.pid] = <<info>>]
                  /\ op' = [op EXCEPT ![t] = [step |-> "mark", kind |-> "Replace", pid |-> c.pid,
                                              old |-> page[c.pid], new |-> info, n |-> 0]]
                  /\ UNCHANGED <<deferred, disk, log, stable, snapshot_min_lsn>>
          ELSE publish(t, c.pid, "Replace",
                       IF lone_heap_item(c.pid) THEN page[c.pid][1].heap ELSE NewHeap(c.pid), c.sa)

Marked(t) == op' = [op EXCEPT ![t] = IF @.n = 0 THEN None ELSE [@ EXCEPT !.step = "complete"]]

ToMark(t) == op[t] # None /\ op[t].step = "mark" /\ ~sa.panic

\* sa_mark_link, and sa_mark_replace when another thread holds the mutex.
defer(t) ==
    /\ ToMark(t)
    /\ deferred' = <<op[t]>> \o deferred
    /\ Marked(t)
    /\ UNCHANGED <<sa, disk, log, stable, page, snapshot_min_lsn>>

\* sa_mark_replace: the operation itself, then those that were deferred before.
sa_mark_replace(t) ==
    /\ ToMark(t) /\ op[t].kind = "Replace"
    /\ sa' = apply_deferred(mark_replace(sa, op[t].pid, op[t].old, op[t].new))
    /\ deferred' = <<>>
    /\ Marked(t)
    /\ UNCHANGED <<disk, log, stable, page, snapshot_min_lsn>>

\* The reservation is completed after the accountant has been told.
complete(t) ==
    /\ op[t] # None /\ op[t].step = "complete"
    /\ log' = [log EXCEPT ![op[t].n].done = TRUE]
    /\ op' = [op EXCEPT ![t] = None]
    /\ UNCHANGED <<sa, deferred, disk, stable, page, snapshot_min_lsn>>

\* Buffers were written and synced, and the segment headers say so.  Only whole
\* segments matter to the accountant.
sa_stabilize ==
    /\ \E n \in (stable + 1)..complete_prefix :
          /\ n % SegSize = 0
          /\ stable' = n
          /\ sa' = stabilize(apply_deferred(sa), n)
    /\ deferred' = <<>>
    /\ UNCHANGED <<disk, log, page, snapshot_min_lsn, op>>

\* The thread pool executes a truncation.
set_len ==
    /\ \E at \in sa.truncating :
          /\ sa' = [sa EXCEPT !.truncating = @ \ {at}]
          /\ disk' = [l \in Lids |-> IF l >= at THEN -1 ELSE disk[l]]
    /\ UNCHANGED <<deferred, log, stable, page, snapshot_min_lsn, op>>

\* A snapshot is written: the stable state of every page is in it.
snapshot ==
    /\ Snapshots /\ snapshot_min_lsn < stable
    /\ snapshot_min_lsn' = stable
    /\ UNCHANGED <<sa, deferred, disk, log, stable, page, op>>

Next ==
    /\ ~sa.panic
    /\ \/ restart \/ abort \/ sa_stabilize \/ set_len \/ snapshot
       \/ \E t \in Threads :
             \/ rewrite(t) \/ defer(t) \/ sa_mark_replace(t) \/ complete(t)
             \/ \E p \in Pids : link(t, p) \/ replace(t, p)

Spec == Init /\ [][Next]_vars

Symmetry == Permutations(Threads) \cup Permutations(Pids)
----------------------------------------------------------------------------
\* Type invariant of the accountant and of what its clients keep.
TypeOK ==
    /\ \A l \in Lids : sa.seg[l].st \in {"Free", "Active", "Inactive", "Draining"}
    /\ sa.free \subseteq 0..(sa.tip - 1) /\ sa.tip \in Nat /\ sa.n \in Nat
    /\ DOMAIN sa.cleaner \subseteq Lids /\ DOMAIN sa.ordering \subseteq Nat
    /\ disk \in [Lids -> -1..MaxMessages] /\ stable \in 0..Len(log)
    /\ \A p \in Pids : \A i \in DOMAIN page[p] : page[p][i].lid \in Lids \cup {None}

\* None of the assertions, panics and unwraps of segment.rs fires, in whatever
\* order threads publish pages, mark them (at once, or through the stack, which
\* returns the operations in reverse) and complete them: no segment gets a page
\* after its deactivation or loses one after it was freed, no segment is freed
\* twice, the cleaner never gets a segment twice, the sizes never go negative.
NoPanic == ~sa.panic

\* A crash at any time finds everything it needs: no message that recovery may
\* still have to read lies in a segment that was reused or cut off, and no heap
\* item it refers to was freed, even though pages are moved and segments freed
\* concurrently.
Recoverable ==
    \A n \in stable..complete_prefix : \A p \in Pids :
        LET infos == recovered(p, n)
        IN \A i \in DOMAIN infos :
              /\ disk[infos[i].lid] = infos[i].lsn
              /\ infos[i].heap \notin sa.heap_freed

\* Nor does a running database lose what its pages point to.
PagesAreOnDisk ==
    \A p \in Pids : \A i \in DOMAIN page[p] :
        page[p][i].lid # None => disk[page[p][i].lid] = page[p][i].lsn

Quiet == deferred = <<>> /\ \A t \in Threads : op[t] = None \/ op[t].step = "complete"

\* The pages with state in the segment at an offset.
Residents(l) == {p \in Pids : \E i \in DOMAIN page[p] : page[p][i].lid = l}

\* Once every operation was applied, the count of pages that keep a segment from
\* being freed is exact, whatever order they were applied in: when the pages are
\* gone the segment is freed, not kept in Draining for ever ("the segment is
\* having its resident pages relocated before becoming free").
CountsAreExact ==
    Quiet => \A l \in Lids :
        LET s == sa.seg[l]
        IN s.st \in {"Inactive", "Draining"} =>
              /\ s.max_pids - s.replaced_pids = Cardinality(Residents(l))
              /\ s.st = "Inactive" => s.pids = Residents(l)

\* A drained segment that waits for its replacements to become stable is known to
\* the segment that it waits for, and every offset in the free list, and no
\* other, may be handed out: no segment is lost and none is owned twice.
SegmentsAreOwned ==
    \A l \in 0..(sa.tip - 1) : sa.seg[l].st = "Free" =>
        LET waiting == {m \in Lids : /\ sa.seg[m].st = "Active"
                                     /\ sa.seg[l].previous_lsn \in sa.seg[m].can_free}
        IN IF l \in sa.free THEN waiting = {} ELSE Cardinality(waiting) = 1
============================================================================
