-------------------------------- MODULE Heap --------------------------------
(***************************************************************************)
(* The heap of large items: src/src/pagecache/heap.rs, with the pointers   *)
(* to it in the log and in the pages (disk_pointer.rs, logger.rs, mod.rs,  *)
(* segment.rs).                                                            *)
(*                                                                         *)
(* One slab: a file of slots, and a stack of the free ones.  An item is    *)
(* known by the LSN it was written for.  Threads replace pages by items of *)
(* the heap or by inline ones, rewrite pointers, and read; slots are freed *)
(* when the replacement is in an inactive segment.  A crash loses all but  *)
(* the file, a prefix of the log and the last snapshot; LSNs of what was   *)
(* lost are given out again.  `era` counts the crashes and is not in the   *)
(* code: it tells the items of different histories apart.                  *)
(***************************************************************************)
EXTENDS Naturals, Sequences, SequencesExt, FiniteSetsExt, TLC

CONSTANTS
    Threads, Pids,
    MaxLsn,       \* bound: messages in the log
    MaxSlots,     \* bound: slots of the slab
    MaxCrashes,   \* bound: crashes
    Snapshots,    \* fuzzy snapshots are taken
    Errors        \* writes to the heap may fail

Nil == 0

VARIABLES
    slots,     \* the file: idx -> item
    file_tip,  \* the length of the file
    tip, free, \* Slab
    freeing,   \* calls of free that are under way: [idx, st]
    removals,  \* deferred_heap_removals: [idx, by]
    pt,        \* the pages
    log, durable, inactive,
    snap,      \* the snapshot: [lsn, pt]
    th, mode, era, failure

vars == <<slots, file_tip, tip, free, freeing, removals, pt, log, durable, inactive, snap,
          th, mode, era, failure>>

Idx == 1..MaxSlots
Hole == [lsn |-> Nil, era |-> 0]
Torn == [lsn |-> Nil, era |-> 1]
Item(l, e) == [lsn |-> l, era |-> e]

\* DiskPtr: idx is Nil for Inline; `at` is the place in the log, Nil for a
\* pointer that only the snapshot has.
Inline(l) == [idx |-> Nil, item |-> Item(l, era), at |-> l]
NoPage == [idx |-> Nil, item |-> Hole, at |-> Nil]

Idle == [st |-> "idle", pid |-> Nil, lsn |-> Nil, old |-> NoPage, new |-> NoPage]

Init ==
    /\ slots = [i \in Idx |-> Hole] /\ file_tip = 0 /\ tip = 0 /\ free = <<>>
    /\ freeing = {} /\ removals = {}
    /\ pt = [p \in Pids |-> NoPage]
    /\ log = <<>> /\ durable = 0 /\ inactive = 0
    /\ snap = [lsn |-> 0, pt |-> [p \in Pids |-> NoPage]]
    /\ th = [t \in Threads |-> Idle]
    /\ mode = "up" /\ era = 1 /\ failure = "none"

-----------------------------------------------------------------------------
(* Slots.                                                                  *)

\* Slab::free is called: a hole is to be punched, then the slot is to be pushed.
Freed(idxs) == freeing \cup {[idx |-> i, st |-> "punch"] : i \in idxs}

free_punch(f) ==
    /\ f \in freeing /\ f.st = "punch"
    /\ slots' = [slots EXCEPT ![f.idx] = Hole]
    /\ freeing' = (freeing \ {f}) \cup {[f EXCEPT !.st = "push"]}
    /\ UNCHANGED <<file_tip, tip, free, removals, pt, log, durable, inactive, snap, th, mode,
                   era, failure>>

free_push(f) ==
    /\ f \in freeing /\ f.st # "punch"
    /\ IF f.st = "push" THEN free' = Append(free, f.idx) /\ UNCHANGED slots
       ELSE slots' = [slots EXCEPT ![f.idx] = Hole] /\ UNCHANGED free
    /\ freeing' = freeing \ {f}
    /\ UNCHANGED <<file_tip, tip, removals, pt, log, durable, inactive, snap, th, mode, era,
                   failure>>

\* Slab::read succeeds: the checksum is right and the item is of the LSN that
\* the pointer has.
reads(ptr) == slots[ptr.idx].lsn # Nil /\ slots[ptr.idx].lsn = ptr.item.lsn

-----------------------------------------------------------------------------
(* A page is replaced.                                                     *)

Begin(t, st, p, new, old) ==
    /\ th' = [th EXCEPT ![t] = [st |-> st, pid |-> p, lsn |-> Len(log) + 1,
                                old |-> old, new |-> new]]
    /\ log' = Append(log, [pid |-> p, st |-> "reserved", ptr |-> new])

\* Log::reserve with Slab::reserve: a free slot, or one from the tip.
reserve(t, p) ==
    /\ mode = "up" /\ th[t].st = "idle" /\ Len(log) < MaxLsn
    /\ free # <<>> \/ tip < MaxSlots
    /\ LET l == Len(log) + 1
           idx == IF free # <<>> THEN Last(free) ELSE tip + 1
       IN /\ Begin(t, "write", p, [idx |-> idx, item |-> Item(l, era), at |-> l], pt[p])
          /\ IF free # <<>> THEN free' = Front(free) /\ UNCHANGED tip
             ELSE tip' = tip + 1 /\ UNCHANGED free
    /\ UNCHANGED <<slots, file_tip, freeing, removals, pt, durable, inactive, snap, mode, era,
                   failure>>

\* Log::reserve of a small item.
reserve_inline(t, p) ==
    /\ mode = "up" /\ th[t].st = "idle" /\ Len(log) < MaxLsn
    /\ Begin(t, "cas", p, Inline(Len(log) + 1), pt[p])
    /\ UNCHANGED <<slots, file_tip, tip, free, freeing, removals, pt, durable, inactive, snap,
                   mode, era, failure>>

\* Reservation::complete: the slot is being written, and is synced.
write(t) ==
    /\ th[t].st = "write"
    /\ slots' = [slots EXCEPT ![th[t].new.idx] = Torn]
    /\ file_tip' = Max({file_tip, th[t].new.idx})
    /\ th' = [th EXCEPT ![t].st = "sync"]
    /\ UNCHANGED <<tip, free, freeing, removals, pt, log, durable, inactive, snap, mode, era,
                   failure>>

complete(t) ==
    /\ th[t].st = "sync"
    /\ slots' = [slots EXCEPT ![th[t].new.idx] = th[t].new.item]
    /\ th' = [th EXCEPT ![t].st = "cas"]
    /\ UNCHANGED <<file_tip, tip, free, freeing, removals, pt, log, durable, inactive, snap,
                   mode, era, failure>>

\* An IO error: the reservation of the slot is dropped and gives it back; the
\* one in the log is never completed.
drop_reservation(t) ==
    /\ Errors /\ th[t].st = "sync"
    /\ free' = Append(free, th[t].new.idx)
    /\ th' = [th EXCEPT ![t] = Idle]
    /\ UNCHANGED <<slots, file_tip, tip, freeing, removals, pt, log, durable, inactive, snap,
                   mode, era, failure>>

\* Reservation::abort frees the slot, unless only a pointer was rewritten.
Aborted(old, new) == {new.idx} \ {Nil, old.idx}

\* SegmentAccountant::mark_replace: the old item goes when the segment of the new
\* record is inactive; an item that left the log is passed over.
mark_replace(old, new, lsn) ==
    /\ removals' = removals \cup
        {[idx |-> i, by |-> lsn] : i \in IF old.at # Nil THEN {old.idx} \ {Nil, new.idx} ELSE {}}
    /\ UNCHANGED freeing

\* The page table entry is exchanged, and the record in the log completed or
\* cancelled.
cas(t) ==
    /\ th[t].st = "cas"
    /\ LET r == th[t]  same == pt[r.pid] = r.old
       IN /\ IF same
             THEN /\ pt' = [pt EXCEPT ![r.pid] = r.new]
                  /\ mark_replace(r.old, r.new, r.lsn)
             ELSE /\ freeing' = Freed(Aborted(r.old, r.new))
                  /\ UNCHANGED <<pt, removals>>
          /\ log' = [log EXCEPT ![r.lsn].st = IF same THEN "complete" ELSE "canceled"]
    /\ th' = [th EXCEPT ![t] = Idle]
    /\ UNCHANGED <<slots, file_tip, tip, free, durable, inactive, snap, mode, era, failure>>

\* rewrite_page of a page that is one heap item: the pointer is written again,
\* or forgotten by the log if the snapshot has it.
rewrite_page(t, p) ==
    /\ mode = "up" /\ th[t].st = "idle" /\ Len(log) < MaxLsn
    /\ pt[p].idx # Nil /\ pt[p].at # Nil
    /\ IF pt[p].item.lsn < snap.lsn
       THEN /\ pt' = [pt EXCEPT ![p].at = Nil]
            /\ UNCHANGED <<th, log>>
       ELSE /\ Begin(t, "cas", p, [pt[p] EXCEPT !.at = Len(log) + 1], pt[p])
            /\ UNCHANGED pt
    /\ UNCHANGED <<slots, file_tip, tip, free, freeing, removals, durable, inactive, snap, mode,
                   era, failure>>

-----------------------------------------------------------------------------
(* A page is read.                                                         *)

get(t, p) ==
    /\ mode = "up" /\ th[t].st = "idle" /\ pt[p].idx # Nil
    /\ th' = [th EXCEPT ![t] = [Idle EXCEPT !.st = "pull", !.pid = p, !.old = pt[p]]]
    /\ UNCHANGED <<slots, file_tip, tip, free, freeing, removals, pt, log, durable, inactive,
                   snap, mode, era, failure>>

\* pull: what cannot be read is tried again if the page has moved meanwhile.
pull(t) ==
    /\ th[t].st = "pull"
    /\ LET ptr == th[t].old
       IN failure' = CASE reads(ptr) /\ slots[ptr.idx] # ptr.item -> "read another item"
                       [] ~reads(ptr) /\ pt[th[t].pid] = ptr -> "corruption"
                       [] OTHER -> failure
    /\ th' = [th EXCEPT ![t] = Idle]
    /\ UNCHANGED <<slots, file_tip, tip, free, freeing, removals, pt, log, durable, inactive,
                   snap, mode, era>>

-----------------------------------------------------------------------------
(* The log, snapshots, crashes and recovery.                               *)

flush ==
    /\ mode = "up" /\ durable < Len(log) /\ log[durable + 1].st # "reserved"
    /\ durable' = durable + 1
    /\ UNCHANGED <<slots, file_tip, tip, free, freeing, removals, pt, log, inactive, snap, th,
                   mode, era, failure>>

\* A segment (of one message) becomes inactive: active_to_inactive.
stabilize ==
    /\ mode = "up" /\ inactive < durable
    /\ inactive' = inactive + 1
    /\ LET due == {r \in removals : r.by <= inactive + 1}
       IN /\ freeing' = Freed({r.idx : r \in due})
          /\ removals' = removals \ due
    /\ UNCHANGED <<slots, file_tip, tip, free, pt, log, durable, snap, th, mode, era, failure>>

snapshot ==
    /\ mode = "up" /\ Snapshots /\ snap.lsn < durable
    /\ \A p \in Pids : pt[p].at <= durable
    /\ snap' = [lsn |-> durable, pt |-> pt]
    /\ UNCHANGED <<slots, file_tip, tip, free, freeing, removals, pt, log, durable, inactive,
                   th, mode, era, failure>>

crash ==
    /\ mode = "up" /\ era <= MaxCrashes
    /\ mode' = "down"
    /\ log' = SubSeq(log, 1, durable)
    /\ freeing' = {} /\ removals' = {} /\ free' = <<>> /\ tip' = 0
    /\ pt' = [p \in Pids |-> NoPage]
    /\ th' = [t \in Threads |-> Idle]
    /\ UNCHANGED <<slots, file_tip, durable, inactive, snap, era, failure>>

\* The snapshot with the rest of the log; a pointer to an item that is not there
\* is passed over (LogRead::DanglingHeap).
Replayed ==
    LET records == {l \in 1..Len(log) : log[l].st = "complete" /\ l > snap.lsn}
        found(p) == {l \in records : log[l].pid = p /\ (log[l].ptr.idx = Nil \/ reads(log[l].ptr))}
    IN [p \in Pids |-> IF found(p) = {} THEN snap.pt[p] ELSE log[Max(found(p))].ptr]

\* Mutant: the slots that only the snapshot has are collected.
KnownInLog(pages) == {pages[p].idx : p \in {p \in Pids : pages[p].at > snap.lsn}}

Known(pages) == {pages[p].idx : p \in Pids}

\* Slab::start, advance_snapshot and gc_unknown_items.  A last slot that was
\* not written whole does not count as part of the file.
recover ==
    /\ mode = "down"
    /\ LET pages == Replayed
           \* filter_inner_heap_ids
           forgotten == [p \in Pids |-> IF pages[p].idx = Nil THEN pages[p]
                                        ELSE [pages[p] EXCEPT !.at = Nil]]
       IN \E n \in {file_tip} \cup
                   (IF file_tip > 0 /\ slots[file_tip] = Torn THEN {file_tip - 1} ELSE {}) :
            LET unknown == (1..n) \ Known(pages)
            IN /\ tip' = n /\ file_tip' = n
               /\ free' = SetToSortSeq(unknown, <)
               /\ slots' = [i \in Idx |-> IF i \in unknown \/ i > n THEN Hole ELSE slots[i]]
               /\ pt' = forgotten
               /\ snap' = [lsn |-> Len(log), pt |-> forgotten]
    /\ inactive' = durable
    /\ era' = era + 1
    /\ mode' = "up"
    /\ UNCHANGED <<freeing, removals, log, durable, th, failure>>

Next ==
    \/ \E f \in freeing : free_punch(f) \/ free_push(f)
    \/ \E t \in Threads, p \in Pids :
        reserve(t, p) \/ reserve_inline(t, p) \/ rewrite_page(t, p) \/ get(t, p)
    \/ \E t \in Threads : write(t) \/ complete(t) \/ drop_reservation(t) \/ cas(t) \/ pull(t)
    \/ flush \/ stabilize \/ snapshot \/ crash \/ recover

Spec == Init /\ [][Next]_vars

Symmetry == Permutations(Threads) \cup Permutations(Pids)

-----------------------------------------------------------------------------

\* TypeOK: the tips, free stacks and slots of the slabs, the log and the threads
\* hold what the fields of Heap, SlabFree and Reservation can hold.
TypeOK ==
    /\ tip \in 0..MaxSlots /\ file_tip \in 0..MaxSlots /\ Range(free) \subseteq Idx
    /\ \A i \in Idx : slots[i] \in {Hole, Torn} \cup [lsn : 1..MaxLsn, era : 1..era]
    /\ inactive <= durable /\ durable <= Len(log)

\* A slot has one owner: it is free once, or it holds the item of one page, is
\* being written by one thread, or waits to be freed.
Held == {th[t].new.idx : t \in {t \in Threads : th[t].st # "idle" /\ th[t].new.idx # th[t].old.idx}}
Waiting == {r.idx : r \in removals} \cup {f.idx : f \in freeing}

SlotsAreExclusive ==
    /\ IsInjective(free)
    /\ Range(free) \cap ({pt[p].idx : p \in Pids} \cup (Held \ {Nil}) \cup Waiting) = {}
    /\ \A p, q \in Pids : pt[p].idx # Nil /\ pt[p].idx = pt[q].idx => p = q
    /\ \A p \in Pids : pt[p].idx \notin Waiting \cup (Held \ {Nil})

\* The item of every page is in its slot, and is the one that was written for
\* the page in this history or before it (Slab::read).
ItemsAreThere ==
    mode = "up" => \A p \in Pids : pt[p].idx # Nil => slots[pt[p].idx] = pt[p].item

\* A thread that reads a page with a pointer that may be old gets the item that
\* belongs to the pointer, or an error if the page has moved (PageCacheInner::get).
ReadsAreRight == failure = "none"

\* The pages are those of the last completed records of the log, after a crash,
\* too: a dangling pointer is never the last (LogRead::DanglingHeap).
PagesFollowLog ==
    mode = "up" => \A p \in Pids :
        LET mine == {l \in 1..Len(log) : log[l].pid = p /\ log[l].st = "complete"}
        IN IF mine = {} THEN pt[p] = NoPage
           ELSE pt[p].idx = log[Max(mine)].ptr.idx /\ pt[p].item = log[Max(mine)].ptr.item

\* Every slot can be used again some day without a restart.
NoLeak ==
    mode = "up" => \A i \in 1..tip :
        i \in Range(free) \cup {pt[p].idx : p \in Pids} \cup Held \cup Waiting
=============================================================================
