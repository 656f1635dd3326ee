----------------------------- MODULE PageCache ------------------------------
(***************************************************************************)
(* The page cache (src/src/pagecache/mod.rs): link, replace, free,         *)
(* allocate, get with its page-in, page_out and rewrite_page, on a page    *)
(* table of atomic pointers and a log of records.                          *)
(*                                                                         *)
(* A page's pointer is replaced by compare-and-set.  Pointers are not      *)
(* numbered: a thread remembers the page it has read, and whether the      *)
(* entry has been replaced since; the epoch guard keeps what was read from *)
(* being freed and its address from being reused.  A page holds a node, a  *)
(* sequence of updates since its allocation, or nothing when it is paged   *)
(* out, and says where on disk it is: one record with a whole node and     *)
(* records with single updates.  A record is known by its lsn, its place   *)
(* in the log.  Segments are the business of SegmentAccountant: here a     *)
(* record that no page points to may vanish at any time.                   *)
(***************************************************************************)
EXTENDS Naturals, Sequences, FiniteSets, SequencesExt, TLC

CONSTANTS
    Threads,      \* threads that operate on pages
    Pids,         \* page ids: 1..n
    MaxLsn,       \* bound: records in the log
    MaxOps,       \* bound: operations of each thread
    Kinds,        \* which operations: "link", "replace", "free", "allocate", "rewrite"
    Heaps,        \* BOOLEAN: a node may be so large that it goes to the heap
    PAGE_CONSOLIDATION_THRESHOLD

FreeNode == <<"free">>
NotCached == <<"none">>

VARIABLES
    page,         \* PageTable: per page update, cache_infos, and (to tell one
                  \* use of a pid from the next) its incarnation
    log,          \* the records: pid, kind, data, heap, st, gone
    next_pid,     \* next_pid_to_allocate
    allocating,   \* who holds its mutex
    free,         \* the free list
    deferred,     \* pids to be freed once the guards of the time are gone
    snapshot_min, \* snapshot_min_lsn
    thread,       \* see Idle
    failure       \* a panic or an error that the code reports as a bug

vars == <<page, log, next_pid, allocating, free, deferred, snapshot_min, thread,
          failure>>
Nobody == "nobody"

\* kind: what the operation does; old: the page it has read; changed: the
\* entry has been replaced since; new: the node it wants to put there; lsn:
\* its reservation; tried: the cache info a page-in failed with; purge: the
\* record that a rewrite is to move away from.
NoPage == [update |-> NotCached, cache_infos |-> <<>>, incarnation |-> 0]
Idle(n) ==
    [pc |-> "idle", kind |-> "none", pid |-> 0, incarnation |-> 0, old |-> NoPage,
     changed |-> FALSE, new |-> <<>>, lsn |-> 0, tried |-> <<>>, purge |-> 0,
     ops |-> n]

\* One page exists to begin with, an empty node.
Init ==
    /\ page = [p \in Pids |->
                IF p = 1 THEN [update |-> <<>>, incarnation |-> 1,
                               cache_infos |-> <<[lsn |-> 1, ts |-> 1, lid |-> TRUE]>>]
                ELSE NoPage]
    /\ log = <<[pid |-> 1, kind |-> "node", data |-> <<>>, heap |-> IF Heaps THEN 1 ELSE 0,
                st |-> "live", gone |-> FALSE]>>
    /\ next_pid = 2
    /\ allocating = Nobody
    /\ free = {}
    /\ deferred = {}
    /\ snapshot_min = 0
    /\ thread = [t \in Threads |-> Idle(0)]
    /\ failure = "none"

-----------------------------------------------------------------------------
(* Pages.                                                                  *)

is_free(pg) == pg.update = FreeNode \/ pg.cache_infos = <<>>
ts(pg) == IF pg.cache_infos = <<>> THEN 0 ELSE Last(pg.cache_infos).ts

lone_heap_item(pg) == Len(pg.cache_infos) = 1 /\ log[pg.cache_infos[1].lsn].heap > 0

\* What the records of a page amount to.
Replay(infos) ==
    log[infos[1].lsn].data \o
        [i \in 1..(Len(infos) - 1) |-> log[infos[i + 1].lsn].data[1]]

\* A record can be read as long as its segment (or its slot in the heap) has
\* not been reused.
Readable(info) == ~log[info.lsn].gone \/ (log[info.lsn].heap > 0 /\ ~info.lid)

At(t, pc) == thread[t].pc = pc
With(t, f) == thread' = [thread EXCEPT ![t] = f]

\* The entry of a page is replaced: whoever has read the old one is late.
\* (mine: the thread's own record after the step.)
Install(t, p, pg, mine) ==
    /\ page' = [page EXCEPT ![p] = pg]
    /\ thread' = [u \in Threads |->
                    IF u = t THEN mine
                    ELSE [thread[u] EXCEPT !.changed = @ \/ thread[u].pid = p]]

Pinned == {t \in Threads : ~At(t, "idle")}

\* The end of an operation: the guard goes, and with it what was waiting for it.
Finish(t) == Idle(thread[t].ops)
Unpin(t) == deferred' = {[d EXCEPT !.waits = @ \ {t}] : d \in deferred}

-----------------------------------------------------------------------------
(* get                                                                     *)

\* The records of a page, one of which the segment cleaner may want moved.
Dirty(p) == {i \in DOMAIN log : log[i].pid = p /\ log[i].st = "live" /\ ~log[i].gone}

\* An operation starts with the pid of a node it has just found (through its
\* parent, say); the guard is pinned from here to the end.
pin(t, kind, p) ==
    /\ At(t, "idle") /\ thread[t].ops < MaxOps
    /\ kind \in Kinds \ {"allocate"}
    /\ page[p].incarnation > 0
    /\ kind # "rewrite" => ~is_free(page[p])
    /\ \E purge \in IF kind = "rewrite" THEN Dirty(p) ELSE {0} :
         With(t, [thread[t] EXCEPT
            !.pc = IF kind = "rewrite" THEN "rewrite" ELSE "get",
            !.kind = kind, !.pid = p, !.incarnation = page[p].incarnation,
            !.ops = @ + 1, !.tried = <<>>, !.purge = purge])
    /\ UNCHANGED <<page, log, next_pid, allocating, free, deferred, snapshot_min,
                   failure>>

\* The caller has its node and makes up its mind on what it sees.  A link to
\* a page of many records is turned into a replacement.
Chosen(t, th) ==
    LET kind == IF /\ th.kind = "link"
                   /\ Len(th.old.cache_infos) >= PAGE_CONSOLIDATION_THRESHOLD
                THEN "replace" ELSE th.kind
    IN [th EXCEPT !.pc = "reserve", !.kind = kind, !.tried = <<>>,
            !.new = CASE kind \in {"link", "replace"} -> Append(th.old.update, t)
                      [] kind = "rewrite" -> th.old.update
                      [] kind = "free" -> FreeNode]

\* PageCacheInner::get up to the page-in.  A second failure with the same
\* record is an error.
get(t) ==
    /\ At(t, "get")
    /\ LET pg == page[thread[t].pid]
           read == [thread[t] EXCEPT !.old = pg, !.changed = FALSE]
       IN IF is_free(pg)
          THEN /\ With(t, IF thread[t].kind = "rewrite"
                          THEN [read EXCEPT !.new = FreeNode, !.pc = "free_again"]
                          ELSE Finish(t))
               /\ IF thread[t].kind = "rewrite" THEN UNCHANGED deferred ELSE Unpin(t)
               /\ UNCHANGED failure
          ELSE IF pg.update # NotCached
          THEN /\ With(t, Chosen(t, read))
               /\ UNCHANGED <<deferred, failure>>
          ELSE /\ failure' = IF <<pg.cache_infos[1]>> = thread[t].tried
                             THEN "page cannot be read" ELSE failure
               /\ With(t, [read EXCEPT !.pc = "pull", !.tried = <<pg.cache_infos[1]>>])
               /\ UNCHANGED deferred
    /\ UNCHANGED <<page, log, next_pid, allocating, free, snapshot_min>>

\* pull, for every record of the page as it was read.
pull(t) ==
    /\ At(t, "pull")
    /\ LET infos == thread[t].old.cache_infos
       IN IF \A i \in DOMAIN infos : Readable(infos[i])
          THEN With(t, [thread[t] EXCEPT !.pc = "fix", !.new = Replay(infos)])
          ELSE With(t, [thread[t] EXCEPT !.pc = "get"])
    /\ UNCHANGED <<page, log, next_pid, allocating, free, deferred, snapshot_min,
                   failure>>

\* Put the node that was read where the empty page was, or start again.
fix_up(t) ==
    /\ At(t, "fix")
    /\ IF thread[t].changed
       THEN /\ With(t, [thread[t] EXCEPT !.pc = "get", !.tried = <<>>])
            /\ UNCHANGED page
       ELSE LET pg == [thread[t].old EXCEPT !.update = thread[t].new]
            IN Install(t, thread[t].pid, pg, Chosen(t, [thread[t] EXCEPT !.old = pg]))
    /\ UNCHANGED <<log, next_pid, allocating, free, deferred, snapshot_min, failure>>

\* page_out, of any page that the LRU names after some access.
page_out(p) ==
    /\ ~is_free(page[p])
    /\ page' = [page EXCEPT ![p].update = NotCached]
    /\ thread' = [u \in Threads |->
                    [thread[u] EXCEPT !.changed = @ \/ thread[u].pid = p]]
    /\ UNCHANGED <<log, next_pid, allocating, free, deferred, snapshot_min, failure>>

-----------------------------------------------------------------------------
(* link, replace, free and rewriting through cas_page.                     *)

LogKind(t) == CASE thread[t].kind = "link" -> "link"
                [] thread[t].new = FreeNode -> "free"
                [] OTHER -> "node"

\* Log::reserve: the record is in the log, its fate open.
reserve(t) ==
    /\ At(t, "reserve")
    /\ Len(log) < MaxLsn
    /\ \E heap \in IF Heaps /\ LogKind(t) = "node" THEN BOOLEAN ELSE {FALSE} :
        log' = Append(log, [pid |-> thread[t].pid, kind |-> LogKind(t),
                            data |-> IF LogKind(t) = "link" THEN <<t>> ELSE thread[t].new,
                            heap |-> IF heap THEN Len(log) + 1 ELSE 0, st |-> "reserved", gone |-> FALSE])
    /\ With(t, [thread[t] EXCEPT !.pc = "cas", !.lsn = Len(log) + 1])
    /\ UNCHANGED <<page, next_pid, allocating, free, deferred, snapshot_min, failure>>

\* Mutant: replacements do not count as changes of the data.
NewTsKeeps(t) == ts(thread[t].old) + IF thread[t].kind = "link" THEN 1 ELSE 0

\* Moving a page is no change of its data.
NewTs(t) == ts(thread[t].old) + IF thread[t].kind = "rewrite" THEN 0 ELSE 1

NewPage(t) ==
    LET info == [lsn |-> thread[t].lsn, ts |-> NewTs(t), lid |-> TRUE]
        old == thread[t].old
    IN [update |-> thread[t].new,
        cache_infos |-> IF thread[t].kind = "link" THEN Append(old.cache_infos, info)
                        ELSE <<info>>,
        incarnation |-> IF thread[t].kind = "allocate" THEN old.incarnation + 1
                        ELSE old.incarnation]

\* What follows a compare-and-set: the end, but replace goes on to rewrite a
\* page if the segment cleaner has one.
AfterCas(t) ==
    {Finish(t)} \cup
    (IF thread[t].kind = "replace" /\ "rewrite" \in Kinds
     THEN UNION {{[Finish(t) EXCEPT !.pc = "rewrite", !.kind = "rewrite", !.pid = p,
                                    !.incarnation = page[p].incarnation, !.purge = i]
                  : i \in Dirty(p)} : p \in Pids}
     ELSE {})

\* Mutant: a pid is given out again at once.
DeferFreeNow(t, mine) ==
    /\ IF mine.pc = "idle" THEN Unpin(t) ELSE UNCHANGED deferred
    /\ free' = IF thread[t].kind = "free" THEN free \cup {thread[t].pid} ELSE free

\* The freed pid goes to the free list when every guard that is pinned now,
\* this thread's apart, has been dropped.
DeferFree(t, mine) ==
    /\ IF thread[t].kind # "free"
       THEN IF mine.pc = "idle" THEN Unpin(t) ELSE UNCHANGED deferred
       ELSE deferred' = {[d EXCEPT !.waits = @ \ {t}] : d \in deferred} \cup
                        {[pid |-> thread[t].pid, waits |-> Pinned \ {t}]}
    /\ UNCHANGED free

\* compare_and_set won: the record counts.
CasWins(t) ==
    \E mine \in AfterCas(t) :
        /\ Install(t, thread[t].pid, NewPage(t), mine)
        /\ log' = [log EXCEPT ![thread[t].lsn].st = "live"]
        /\ DeferFree(t, mine)
        /\ allocating' = IF allocating = t THEN Nobody ELSE allocating
        /\ UNCHANGED failure

\* A cancelled record says nothing.
Abort(i) == log' = [log EXCEPT ![i].st = "aborted", ![i].data = <<>>, ![i].heap = 0]

\* The operation fails (a rewrite starts over).
CasFails(t) ==
    /\ \E mine \in IF thread[t].kind = "rewrite"
                   THEN {[thread[t] EXCEPT !.pc = "rewrite"]} ELSE AfterCas(t) :
        /\ With(t, mine)
        /\ IF mine.pc = "idle" THEN Unpin(t) ELSE UNCHANGED deferred
    /\ failure' = IF thread[t].kind = "allocate" THEN "allocation lost" ELSE failure

Moved(t) == ts(page[thread[t].pid]) = ts(thread[t].old) /\ thread[t].kind # "rewrite"

\* Mutant: after a move, the old reservation is used again.
CasLosesKeepsLsn(t) ==
    /\ IF Moved(t)
       THEN /\ With(t, [thread[t] EXCEPT !.pc = "cas", !.old = page[thread[t].pid],
                                         !.changed = FALSE])
            /\ UNCHANGED <<log, deferred, failure>>
       ELSE Abort(thread[t].lsn) /\ CasFails(t)
    /\ UNCHANGED <<page, free, allocating>>

\* compare_and_set lost: the record is cancelled.  If the page has only been
\* moved or paged out the operation goes on with the page as it is now, and
\* with a new record.
CasLoses(t) ==
    /\ Abort(thread[t].lsn)
    /\ IF Moved(t)
       THEN /\ With(t, [thread[t] EXCEPT !.pc = "reserve", !.old = page[thread[t].pid],
                                         !.changed = FALSE])
            /\ UNCHANGED <<deferred, failure>>
       ELSE CasFails(t)
    /\ UNCHANGED <<page, free, allocating>>

cas(t) ==
    /\ At(t, "cas")
    /\ IF thread[t].changed THEN CasLoses(t) ELSE CasWins(t)
    /\ UNCHANGED <<next_pid, snapshot_min>>

-----------------------------------------------------------------------------
(* free (the deferred part) and allocate                                   *)

run_deferred(d) ==
    /\ d \in deferred /\ d.waits = {}
    /\ deferred' = deferred \ {d}
    /\ free' = free \cup {d.pid}
    /\ failure' = IF d.pid \in free THEN "double free" ELSE failure
    /\ UNCHANGED <<page, log, next_pid, allocating, snapshot_min, thread>>

\* A freed pid, or a new one under the mutex, which is held to the end.
allocate(t) ==
    /\ At(t, "idle") /\ thread[t].ops < MaxOps
    /\ "allocate" \in Kinds
    /\ LET start(p) == [thread[t] EXCEPT !.pc = "reserve", !.kind = "allocate", !.pid = p,
                                         !.old = page[p], !.changed = FALSE, !.new = <<>>,
                                         !.ops = @ + 1]
       IN IF free # {}
          THEN LET p == CHOOSE p \in free : \A q \in free : q <= p
               IN /\ free' = free \ {p}
                  /\ failure' = IF is_free(page[p]) THEN failure ELSE "page in use"
                  /\ With(t, start(p))
                  /\ UNCHANGED <<next_pid, allocating>>
          ELSE /\ allocating = Nobody
               /\ next_pid \in Pids
               /\ allocating' = t
               /\ next_pid' = next_pid + 1
               /\ With(t, start(next_pid))
               /\ UNCHANGED <<free, failure>>
    /\ UNCHANGED <<page, log, deferred, snapshot_min>>

-----------------------------------------------------------------------------
(* rewrite_page                                                            *)

\* The head of its loop: nothing to do if the page has left the record; a
\* page that is one item in the heap keeps it and gets a new pointer; any
\* other is read whole and written again.
rewrite_page(t) ==
    /\ At(t, "rewrite")
    /\ LET pg == page[thread[t].pid]
           here == \E i \in DOMAIN pg.cache_infos :
                        pg.cache_infos[i].lsn = thread[t].purge \/ ~pg.cache_infos[i].lid
       IN IF ~here
          THEN With(t, Finish(t)) /\ Unpin(t)
          ELSE /\ With(t, IF lone_heap_item(pg)
                          THEN [thread[t] EXCEPT !.pc = "heap", !.old = pg, !.changed = FALSE]
                          ELSE [thread[t] EXCEPT !.pc = "get", !.tried = <<>>])
               /\ UNCHANGED deferred
    /\ UNCHANGED <<page, log, next_pid, allocating, free, snapshot_min, failure>>

\* The pointer of a heap item that a snapshot knows may leave the log;
\* otherwise rewrite_heap_pointer logs it anew.
rewrite_heap_pointer(t) ==
    /\ At(t, "heap")
    /\ LET info == thread[t].old.cache_infos[1]
       IN IF log[info.lsn].heap < snapshot_min
          THEN /\ IF thread[t].changed
                  THEN /\ With(t, [thread[t] EXCEPT !.pc = "rewrite"])
                       /\ UNCHANGED <<page, deferred>>
                  ELSE /\ Install(t, thread[t].pid,
                                  [thread[t].old EXCEPT !.cache_infos = <<[info EXCEPT !.lid = FALSE]>>],
                                  Finish(t))
                       /\ Unpin(t)
               /\ UNCHANGED log
          ELSE /\ Len(log) < MaxLsn
               /\ log' = Append(log, [pid |-> thread[t].pid, kind |-> "node",
                                      data |-> log[info.lsn].data,
                                      heap |-> log[info.lsn].heap,
                                      st |-> "reserved", gone |-> FALSE])
               /\ With(t, [thread[t] EXCEPT !.pc = "heap_cas", !.lsn = Len(log) + 1])
               /\ UNCHANGED <<page, deferred>>
    /\ UNCHANGED <<next_pid, allocating, free, snapshot_min, failure>>

heap_cas(t) ==
    /\ At(t, "heap_cas")
    /\ IF thread[t].changed
       THEN /\ Abort(thread[t].lsn)
            /\ With(t, [thread[t] EXCEPT !.pc = "rewrite"])
            /\ UNCHANGED <<page, deferred>>
       ELSE /\ log' = [log EXCEPT ![thread[t].lsn].st = "live"]
            /\ Install(t, thread[t].pid,
                       [thread[t].old EXCEPT !.cache_infos =
                            <<[lsn |-> thread[t].lsn, ts |-> ts(thread[t].old), lid |-> TRUE]>>],
                       Finish(t))
            /\ Unpin(t)
    /\ UNCHANGED <<next_pid, allocating, free, snapshot_min, failure>>

\* get found the page free; it is read again, and may be in use by now.
free_again(t) ==
    /\ At(t, "free_again")
    /\ LET pg == page[thread[t].pid]
       IN IF is_free(pg)
          THEN /\ With(t, [thread[t] EXCEPT !.pc = "reserve", !.old = pg, !.changed = FALSE])
               /\ UNCHANGED deferred
          ELSE With(t, Finish(t)) /\ Unpin(t)
    /\ UNCHANGED <<page, log, next_pid, allocating, free, snapshot_min, failure>>

-----------------------------------------------------------------------------
(* The rest of the system.                                                 *)

\* The segment of a record that no page points to is emptied and reused.
reclaim(i) ==
    /\ ~log[i].gone /\ log[i].st = "live"
    /\ \A p \in Pids : \A j \in DOMAIN page[p].cache_infos :
        page[p].cache_infos[j].lsn # i \/ ~page[p].cache_infos[j].lid
    /\ log' = [log EXCEPT ![i].gone = TRUE]
    /\ UNCHANGED <<page, next_pid, allocating, free, deferred, snapshot_min, thread,
                   failure>>

\* take_fuzzy_snapshot has written what is stable: the records below the
\* first one whose fate is open.
snapshot ==
    LET open == {i \in DOMAIN log : log[i].st = "reserved"}
        stable == IF open = {} THEN Len(log) + 1 ELSE Min(open)
    IN /\ Heaps /\ snapshot_min < stable
       /\ snapshot_min' = stable
       /\ UNCHANGED <<page, log, next_pid, allocating, free, deferred, thread, failure>>

ThreadNext(t) ==
    \/ \E kind \in Kinds, p \in Pids : pin(t, kind, p)
    \/ get(t)
    \/ pull(t)
    \/ fix_up(t)
    \/ reserve(t)
    \/ cas(t)
    \/ allocate(t)
    \/ rewrite_page(t)
    \/ rewrite_heap_pointer(t)
    \/ heap_cas(t)
    \/ free_again(t)

Next ==
    \/ \E t \in Threads : ThreadNext(t)
    \/ \E p \in Pids : page_out(p)
    \/ \E d \in deferred : run_deferred(d)
    \/ \E i \in DOMAIN log : reclaim(i)
    \/ snapshot

Spec == Init /\ [][Next]_vars

Symmetry == Permutations(Threads)

-----------------------------------------------------------------------------

\* TypeOK: the page table, the allocator, the log and the threads hold what the
\* fields of PageCache and PageState can hold; pids are handed out in order.
TypeOK ==
    /\ next_pid \in 2..(Cardinality(Pids) + 1)
    /\ free \subseteq Pids
    /\ Len(log) <= MaxLsn
    /\ \A p \in Pids : \A i \in DOMAIN page[p].cache_infos :
        page[p].cache_infos[i].lsn \in DOMAIN log

\* What is cached of a page is what its records say, and they can all be
\* read: it makes no difference whether a page is paged out
\* (PageCacheInner::get).
CacheMatchesDisk ==
    \A p \in Pids : LET pg == page[p] IN
        pg.cache_infos # <<>> =>
            /\ \A i \in DOMAIN pg.cache_infos :
                /\ Readable(pg.cache_infos[i])
                /\ log[pg.cache_infos[i].lsn].pid = p
                /\ log[pg.cache_infos[i].lsn].st = "live"
            /\ pg.update # NotCached => Replay(pg.cache_infos) = pg.update

\* Replaying the log in its order gives the page as it is in memory: the
\* records that won their compare-and-set did so in the order of their lsns,
\* so the last whole node of a page and the updates after it are the ones the
\* page points to (link and cas_page reserve before they compare and set).
LogOrderIsPageOrder ==
    \A p \in Pids :
        LET live == {i \in DOMAIN log : log[i].pid = p /\ log[i].st = "live"}
            bases == {i \in live : log[i].kind # "link"}
            base == CHOOSE i \in bases : \A j \in bases : j <= i
            infos == page[p].cache_infos
        IN live # {} =>
            /\ infos[1].lsn = base
            /\ {infos[i].lsn : i \in DOMAIN infos} = {i \in live : i >= base}
            /\ \A i \in 1..(Len(infos) - 1) : infos[i].lsn < infos[i + 1].lsn

\* An operation that succeeds changes exactly the node its caller saw, also
\* when the page was moved, paged out and read back in between; no update is
\* lost, and a move changes nothing (the timestamps of CacheInfo).
ChangesWhatWasSeen ==
    \A p \in Pids :
        LET before == page[p]  after == page[p]'
            known(pg) == IF pg.update # NotCached THEN pg.update ELSE Replay(pg.cache_infos)
        IN /\ ts(before) = ts(after) /\ before.cache_infos # <<>> =>
                IF after.update # NotCached THEN after.update = known(before)
                ELSE Len(after.cache_infos) > 0
           /\ ts(before) # ts(after) /\ after.update \notin {FreeNode, <<>>} =>
                \E t \in Threads : after.update = Append(known(before), t)
UpdatesWhatWasSeen == [][ChangesWhatWasSeen]_vars

\* No page is freed twice, given out while in use, or lost in allocation, and
\* a page that is in use can always be read (the panics of free and
\* allocate_inner, the error of get).
NoFailure == failure = "none"

\* A thread that came upon a pid never takes another page for the one it was
\* looking for: the pid is not given out again while it is pinned (the
\* deferred push to the free list).
NoStalePid ==
    \A t \in Threads :
        ~At(t, "idle") /\ thread[t].kind \in {"link", "replace", "free"} =>
            is_free(page[thread[t].pid]) \/
            page[thread[t].pid].incarnation = thread[t].incarnation
=============================================================================
