------------------------------ MODULE Tenants ------------------------------
(***************************************************************************)
(* The trees of a database: src/src/db.rs, src/src/meta.rs, the meta page  *)
(* of src/src/pagecache/mod.rs, and of src/src/tree.rs the hoisting of a   *)
(* root and the collection of a dropped tree's pages.  Names map to roots  *)
(* in the meta page and to handles in `tenants`; a handle caches its root. *)
(* Trees are opened, used, grown and dropped by several threads, and the   *)
(* process may crash: what recovery finds is a prefix of the log that cuts *)
(* no batch in two.                                                        *)
(***************************************************************************)
EXTENDS Naturals, Sequences, FiniteSets, FiniteSetsExt

CONSTANTS
    Threads,       \* positive numbers
    Default,       \* DEFAULT_TREE_ID
    Names,         \* the other names
    MaxPid,        \* pages are 1..MaxPid
    Calls,         \* which calls are made
    MaxCalls, MaxCrashes

AllNames == Names \cup {Default}
Pids == 1..MaxPid
Nil == 0
Gone == MaxPid + 1         \* u64::max_value() as the root of a handle

VARIABLES
    up,           \* the database is open
    pages,        \* pid |-> page or Free
    limbo,        \* freed pids that may still be looked at, with the calls to wait for
    meta,         \* the meta page: name |-> root
    tenants,      \* name |-> handle
    handles,      \* name |-> every TreeInner made for it, each with its cached root
    tlock,        \* who holds the lock of `tenants` for writing; reading it is one step
    cc,           \* the two sides of the concurrency control
    th,           \* the threads
    log,
    trees,        \* how many trees were made
    calls, crashes

vars == <<up, pages, limbo, meta, tenants, handles, tlock, cc, th, log, trees, calls, crashes>>
counts == <<up, calls, crashes>>
store == <<pages, limbo, meta, log, trees>>
locks == <<tlock, cc>>

\* A page has a leftmost child unless it is a leaf, and a right sibling; `tree` is
\* the tree it was made for, which the code does not store.
Page(tree, left, next) == [tree |-> tree, left |-> left, next |-> next]
Free == Page(Nil, Nil, Nil)

Idle == [pc |-> "idle", name |-> Default, h |-> Nil, seen |-> <<>>, old |-> Nil, new |-> Nil,
         leaf |-> Nil, peg |-> Nil, chain |-> <<>>]

Init ==
    /\ up = FALSE
    /\ pages = [p \in Pids |-> Free] /\ limbo = {}
    /\ meta = [n \in AllNames |-> Nil] /\ tenants = [n \in AllNames |-> Nil]
    /\ handles = [n \in AllNames |-> <<>>]
    /\ tlock = Nil /\ cc = [readers |-> {}, writer |-> Nil]
    /\ th = [t \in Threads |-> Idle]
    /\ log = <<>>
    /\ trees = 0 /\ calls = 0 /\ crashes = 0

Busy == {t \in Threads : th[t].pc # "idle"}
Goto(t, label) == th' = [th EXCEPT ![t].pc = label]
Set(t, r) == th' = [th EXCEPT ![t] = r]

\* Pids that can be allocated: freed ones once nobody can look at them.
Available == {p \in Pids : pages[p] = Free /\ \A l \in limbo : l.pid # p}
Fresh == Min(Available)

PageRecord(p, page) == [kind |-> "page", pid |-> p, page |-> page, meta |-> <<>>, last |-> 0]
MetaRecord(m) == [kind |-> "meta", pid |-> Nil, page |-> Free, meta |-> m, last |-> 0]
Manifest == [kind |-> "open", pid |-> Nil, page |-> Free, meta |-> <<>>, last |-> 0]

Put(p, page) == pages' = [pages EXCEPT ![p] = page] /\ log' = Append(log, PageRecord(p, page))

\* PageCacheInner::free
FreePage(p) == Put(p, Free) /\ limbo' = limbo \cup {[pid |-> p, waits |-> Busy]}

\* The call returns and drops its guard.
Done(t) ==
    /\ Set(t, Idle)
    /\ limbo' = {l \in {[k EXCEPT !.waits = @ \ {t}] : k \in limbo} : l.waits # {}}

\* TreeInner with a root
Handle(n, root, tree) == [name |-> n, root |-> root, tree |-> tree]
----------------------------------------------------------------------------
(* start_inner: the default tree is opened, or created; then every root in    *)
(* the meta page gets a handle in `tenants`, the default tree a second one.   *)

Opened(hs) == [n \in AllNames |-> Len(hs[n])]

start ==
    LET root == Fresh
        leaf == Min(Available \ {root})
        create == meta[Default] = Nil
    IN /\ ~up /\ up' = TRUE
       /\ pages' = IF create THEN [pages EXCEPT ![leaf] = Page(trees + 1, Nil, Nil),
                                                ![root] = Page(trees + 1, leaf, Nil)] ELSE pages
       /\ meta' = IF create THEN [meta EXCEPT ![Default] = root] ELSE meta
       /\ log' = IF create THEN log \o <<PageRecord(leaf, pages'[leaf]), PageRecord(root, pages'[root]),
                                         MetaRecord(meta')>> ELSE log
       /\ trees' = IF create THEN trees + 1 ELSE trees
       /\ handles' = [n \in AllNames |->
                        IF meta'[n] = Nil THEN <<>>
                        ELSE LET h == Handle(n, meta'[n], pages'[meta'[n]].tree)
                             IN IF n = Default THEN <<h, h>> ELSE <<h>>]
       /\ tenants' = Opened(handles')
       /\ UNCHANGED <<limbo, locks, th, calls, crashes>>
----------------------------------------------------------------------------
(* cas_root_in_meta: read the meta page; if it has the expected root, replace *)
(* the page, and start over if it was replaced meanwhile.                     *)

meta_read(t) ==
    /\ th[t].pc \in {"open_meta", "hoist_meta", "drop_meta"}
    /\ th[t].seen = <<>>
    /\ th' = [th EXCEPT ![t].seen = meta]
    /\ UNCHANGED <<store, tenants, handles, locks, counts>>

Expected(t) == th[t].seen[th[t].name] = th[t].old

\* The page is as it was read.
Current(t) == th[t].seen # <<>> /\ th[t].seen = meta

meta_retry(t) ==
    /\ th[t].pc \in {"open_meta", "hoist_meta", "drop_meta"}
    /\ th[t].seen # <<>> /\ Expected(t) /\ ~Current(t)
    /\ th' = [th EXCEPT ![t].seen = <<>>]
    /\ UNCHANGED <<store, tenants, handles, locks, counts>>

Replaced(t) ==
    /\ Current(t)
    /\ meta' = [th[t].seen EXCEPT ![th[t].name] = th[t].new]
    /\ log' = Append(log, MetaRecord(meta'))
----------------------------------------------------------------------------
(* Db::open_tree and meta::open_tree.                                         *)

open_tree(t, n) ==
    /\ up /\ "open" \in Calls /\ th[t].pc = "idle" /\ calls < MaxCalls
    /\ calls' = calls + 1
    /\ Set(t, [Idle EXCEPT !.pc = "open_read", !.name = n])
    /\ UNCHANGED <<up, store, tenants, handles, locks, crashes>>

open_read(t) ==
    /\ th[t].pc = "open_read" /\ tlock = Nil
    /\ IF tenants[th[t].name] # Nil THEN Done(t) ELSE Goto(t, "open_write") /\ limbo' = limbo
    /\ UNCHANGED <<pages, meta, log, trees, tenants, handles, locks, counts>>

open_check(t) ==
    /\ th[t].pc = "open_write" /\ tlock = Nil
    /\ IF tenants[th[t].name] # Nil THEN Done(t) /\ tlock' = tlock
       ELSE tlock' = t /\ Goto(t, "open_find") /\ limbo' = limbo
    /\ UNCHANGED <<pages, meta, log, trees, tenants, handles, cc, counts>>

\* A new handle, in `tenants`
Insert(t, root) ==
    LET n == th[t].name IN
    /\ handles' = [handles EXCEPT ![n] = Append(@, Handle(n, root, pages[root].tree))]
    /\ tenants' = [tenants EXCEPT ![n] = Len(handles'[n])]
    /\ tlock' = Nil

\* meta_pid_for_name
open_find(t) ==
    /\ th[t].pc = "open_find"
    /\ IF meta[th[t].name] # Nil
       THEN Insert(t, meta[th[t].name]) /\ Done(t)
       ELSE Goto(t, "open_leaf") /\ UNCHANGED <<limbo, tenants, handles, tlock>>
    /\ UNCHANGED <<pages, meta, log, trees, cc, counts>>

open_leaf(t) ==
    /\ th[t].pc = "open_leaf"
    /\ Put(Fresh, Page(trees + 1, Nil, Nil))
    /\ trees' = trees + 1
    /\ Set(t, [th[t] EXCEPT !.pc = "open_root", !.leaf = Fresh])
    /\ UNCHANGED <<limbo, meta, tenants, handles, locks, counts>>

open_root(t) ==
    /\ th[t].pc = "open_root"
    /\ Put(Fresh, Page(pages[th[t].leaf].tree, th[t].leaf, Nil))
    /\ Set(t, [th[t] EXCEPT !.pc = "open_meta", !.old = Nil, !.new = Fresh])
    /\ UNCHANGED <<limbo, meta, trees, tenants, handles, locks, counts>>

\* Under the lock of `tenants` the name cannot have got a root meanwhile; if it
\* had, the two pages would be freed and the loop would start over.
open_cas(t) ==
    /\ th[t].pc = "open_meta" /\ th[t].seen # <<>>
    /\ IF Expected(t)
       THEN Replaced(t) /\ Insert(t, th[t].new) /\ Done(t) /\ pages' = pages
       ELSE /\ pages' = [pages EXCEPT ![th[t].new] = Free, ![th[t].leaf] = Free]
            /\ log' = log \o <<PageRecord(th[t].new, Free), PageRecord(th[t].leaf, Free)>>
            /\ limbo' = limbo \cup {[pid |-> p, waits |-> Busy] : p \in {th[t].new, th[t].leaf}}
            /\ Set(t, [Idle EXCEPT !.pc = "open_find", !.name = th[t].name])
            /\ UNCHANGED <<meta, tenants, handles, tlock>>
    /\ UNCHANGED <<trees, cc, counts>>
----------------------------------------------------------------------------
(* Operations of a tree, through any handle, under the shared side of the     *)
(* concurrency control.  Of what they do, only how the tree grows is kept.    *)

use(t, n) ==
    /\ up /\ "use" \in Calls /\ th[t].pc = "idle" /\ calls < MaxCalls
    /\ calls' = calls + 1
    /\ \E h \in 1..Len(handles[n]) : Set(t, [Idle EXCEPT !.pc = "use_lock", !.name = n, !.h = h])
    /\ UNCHANGED <<up, store, tenants, handles, locks, crashes>>

\* The root of the handle, if it is not gone, for the length of the call
use_lock(t) ==
    /\ th[t].pc = "use_lock" /\ cc.writer = Nil
    /\ IF handles[th[t].name][th[t].h].root = Gone THEN Done(t) /\ cc' = cc
       ELSE /\ cc' = [cc EXCEPT !.readers = @ \cup {t}] /\ limbo' = limbo
            /\ Set(t, [th[t] EXCEPT !.pc = "use", !.old = handles[th[t].name][th[t].h].root])
    /\ UNCHANGED <<pages, meta, log, trees, tenants, handles, tlock, counts>>

RECURSIVE Leftmost(_), Level(_)
\* The leftmost pages from a root down, and a page with its right siblings
Leftmost(p) == IF pages[p].left = Nil THEN <<p>> ELSE <<p>> \o Leftmost(pages[p].left)
Level(p) == IF pages[p].next = Nil THEN <<p>> ELSE <<p>> \o Level(pages[p].next)

\* A leaf splits, or the root does; each does so once here.
split(t) ==
    /\ th[t].pc = "use" /\ pages[th[t].old] # Free
    /\ \E p \in {th[t].old, Leftmost(th[t].old)[Len(Leftmost(th[t].old))]} :
          /\ pages[p].next = Nil
          /\ LET q == Fresh
                 kid == IF pages[p].left = Nil THEN Nil ELSE pages[pages[p].left].next IN
             /\ pages[p].left # Nil => kid # Nil
             /\ pages' = [pages EXCEPT ![q] = Page(pages[p].tree, kid, Nil), ![p].next = q]
             /\ log' = log \o <<PageRecord(q, pages'[q]), PageRecord(p, pages'[p])>>
    /\ UNCHANGED <<limbo, meta, trees, th, tenants, handles, locks, counts>>

\* root_hoist, when the page taken for the root has a sibling
root_hoist(t) ==
    /\ th[t].pc = "use" /\ pages[th[t].old].next # Nil
    /\ Put(Fresh, Page(pages[th[t].old].tree, th[t].old, Nil))
    /\ Set(t, [th[t] EXCEPT !.pc = "hoist_meta", !.new = Fresh])
    /\ UNCHANGED <<limbo, meta, trees, tenants, handles, locks, counts>>

root_hoist_cas(t) ==
    /\ th[t].pc = "hoist_meta" /\ th[t].seen # <<>>
    /\ Expected(t) /\ Replaced(t)
    /\ Set(t, [th[t] EXCEPT !.pc = "hoist_root", !.seen = <<>>])
    /\ UNCHANGED <<pages, limbo, trees, tenants, handles, locks, counts>>

\* Another root is there already: the new one is freed.
root_hoist_fails(t) ==
    /\ th[t].pc = "hoist_meta" /\ th[t].seen # <<>> /\ ~Expected(t)
    /\ FreePage(th[t].new)
    /\ Set(t, [th[t] EXCEPT !.pc = "use_end", !.seen = <<>>, !.new = Nil])
    /\ UNCHANGED <<meta, trees, tenants, handles, locks, counts>>

\* The handle follows; until its root is the old one this spins.
root_hoist_store(t) ==
    /\ th[t].pc = "hoist_root"
    /\ handles[th[t].name][th[t].h].root = th[t].old
    /\ handles' = [handles EXCEPT ![th[t].name][th[t].h].root = th[t].new]
    /\ Goto(t, "use_end")
    /\ UNCHANGED <<store, tenants, locks, counts>>

use_end(t) ==
    /\ th[t].pc \in {"use", "use_end"}
    /\ cc' = [cc EXCEPT !.readers = @ \ {t}]
    /\ Done(t)
    /\ UNCHANGED <<pages, meta, log, trees, tenants, handles, tlock, counts>>
----------------------------------------------------------------------------
(* Db::drop_tree and Tree::gc_pages.                                          *)

drop_tree(t, n) ==
    /\ up /\ "drop" \in Calls /\ th[t].pc = "idle" /\ calls < MaxCalls
    /\ calls' = calls + 1
    /\ Set(t, [Idle EXCEPT !.pc = "drop_lock", !.name = n])
    /\ UNCHANGED <<up, store, tenants, handles, locks, crashes>>

drop_lock(t) ==
    /\ th[t].pc = "drop_lock" /\ tlock = Nil
    /\ IF tenants[th[t].name] = Nil THEN Done(t) /\ UNCHANGED <<tlock, tenants>>
       ELSE /\ tlock' = t /\ limbo' = limbo
            /\ tenants' = [tenants EXCEPT ![th[t].name] = Nil]
            /\ Set(t, [th[t] EXCEPT !.pc = "drop_cc", !.h = tenants[th[t].name]])
    /\ UNCHANGED <<pages, meta, log, trees, handles, cc, counts>>

\* concurrency_control::write()
drop_cc(t) ==
    /\ th[t].pc \in {"drop_cc", "checksum_cc"} /\ cc.writer = Nil /\ cc.readers = {}
    /\ cc' = [cc EXCEPT !.writer = t]
    /\ Goto(t, IF th[t].pc = "drop_cc" THEN "drop_root" ELSE "checksum_end")
    /\ UNCHANGED <<store, tenants, handles, tlock, counts>>

\* Mutant: the handle keeps its root.
drop_rootQuiet(t) ==
    LET n == th[t].name IN
    /\ th[t].pc = "drop_root"
    /\ log' = Append(log, Manifest)
    /\ Set(t, [th[t] EXCEPT !.pc = "drop_meta", !.peg = Len(log'), !.old = meta[n],
                            !.chain = Leftmost(meta[n])])
    /\ UNCHANGED <<pages, limbo, meta, trees, tenants, handles, locks, counts>>

\* pin_log; the handle learns that its tree is gone; the leftmost page of every
\* level is noted.
drop_root(t) ==
    LET n == th[t].name IN
    /\ th[t].pc = "drop_root"
    /\ log' = Append(log, Manifest)
    /\ handles' = [handles EXCEPT ![n][th[t].h].root = Gone]
    /\ Set(t, [th[t] EXCEPT !.pc = "drop_meta", !.peg = Len(log'), !.old = meta[n],
                            !.chain = Leftmost(meta[n])])
    /\ UNCHANGED <<pages, limbo, meta, trees, tenants, locks, counts>>

\* The name leaves the meta page.
drop_cas(t) ==
    /\ th[t].pc = "drop_meta" /\ th[t].seen # <<>>
    /\ IF Expected(t) THEN Replaced(t) /\ Set(t, [th[t] EXCEPT !.pc = "drop_seal", !.seen = <<>>])
       ELSE Set(t, [th[t] EXCEPT !.old = th[t].seen[th[t].name], !.seen = <<>>]) /\ UNCHANGED <<meta, log>>
    /\ UNCHANGED <<pages, limbo, trees, tenants, handles, locks, counts>>

Sealed(l, peg) == [l EXCEPT ![peg].kind = "manifest", ![peg].last = Len(l)]

\* seal_batch, and the lock of `tenants` is dropped.
drop_seal(t) ==
    /\ th[t].pc = "drop_seal"
    /\ log' = Sealed(log, th[t].peg)
    /\ tlock' = Nil
    /\ Set(t, [th[t] EXCEPT !.pc = "gc", !.old = th[t].chain[Len(th[t].chain)],
                            !.chain = SubSeq(@, 1, Len(@) - 1)])
    /\ UNCHANGED <<pages, limbo, meta, trees, tenants, handles, cc, counts>>

\* After a page its right sibling, after a level the one above
AfterFreed(t) ==
    IF pages[th[t].old].next # Nil THEN [th[t] EXCEPT !.old = pages[th[t].old].next]
    ELSE IF th[t].chain = <<>> THEN [th[t] EXCEPT !.pc = "gc_end"]
    ELSE [th[t] EXCEPT !.old = th[t].chain[Len(th[t].chain)], !.chain = SubSeq(@, 1, Len(@) - 1)]

\* gc_pages, one page; a page that is free already ends its level.
gc_pages(t) ==
    /\ th[t].pc = "gc"
    /\ IF pages[th[t].old] = Free THEN UNCHANGED <<pages, log, limbo>> ELSE FreePage(th[t].old)
    /\ Set(t, AfterFreed(t))
    /\ UNCHANGED <<meta, trees, tenants, handles, locks, counts>>

drop_end(t) ==
    /\ th[t].pc = "gc_end"
    /\ cc' = [cc EXCEPT !.writer = Nil]
    /\ Done(t)
    /\ UNCHANGED <<pages, meta, log, trees, tenants, handles, tlock, counts>>
----------------------------------------------------------------------------
(* Db::checksum takes the same two locks in the same order.                   *)

checksum(t) ==
    /\ up /\ "checksum" \in Calls /\ th[t].pc = "idle" /\ calls < MaxCalls /\ tlock = Nil
    /\ calls' = calls + 1 /\ tlock' = t
    /\ Set(t, [Idle EXCEPT !.pc = "checksum_cc"])
    /\ UNCHANGED <<up, store, tenants, handles, cc, crashes>>

checksum_end(t) ==
    /\ th[t].pc = "checksum_end"
    /\ tlock' = Nil /\ cc' = [cc EXCEPT !.writer = Nil]
    /\ Done(t)
    /\ UNCHANGED <<pages, meta, log, trees, tenants, handles, counts>>
----------------------------------------------------------------------------
(* A crash.                                                                   *)

Whole(n) ==
    \A i \in 1..n : log[i].kind # "open" /\ (log[i].kind = "manifest" => log[i].last <= n)

PageAt(n, p) ==
    LET is == {i \in 1..n : log[i].kind = "page" /\ log[i].pid = p}
    IN IF is = {} THEN Free ELSE log[Max(is)].page
MetaAt(n) ==
    LET is == {i \in 1..n : log[i].kind = "meta"}
    IN IF is = {} THEN [x \in AllNames |-> Nil] ELSE log[Max(is)].meta

crash ==
    /\ up /\ crashes < MaxCrashes
    /\ up' = FALSE /\ crashes' = crashes + 1
    /\ \E n \in 0..Len(log) :
          /\ Whole(n)
          /\ pages' = [p \in Pids |-> PageAt(n, p)] /\ meta' = MetaAt(n) /\ log' = SubSeq(log, 1, n)
    /\ limbo' = {} /\ tenants' = [n \in AllNames |-> Nil] /\ handles' = [n \in AllNames |-> <<>>]
    /\ tlock' = Nil /\ cc' = [readers |-> {}, writer |-> Nil]
    /\ th' = [t \in Threads |-> Idle]
    /\ UNCHANGED <<trees, calls>>

Call(t) ==
    \/ \E n \in Names : open_tree(t, n) \/ drop_tree(t, n)
    \/ \E n \in AllNames : use(t, n)
    \/ checksum(t)

Step(t) ==
    \/ meta_read(t) \/ meta_retry(t)
    \/ open_read(t) \/ open_check(t) \/ open_find(t) \/ open_leaf(t) \/ open_root(t) \/ open_cas(t)
    \/ use_lock(t) \/ root_hoist_cas(t) \/ root_hoist_fails(t) \/ root_hoist_store(t) \/ use_end(t)
    \/ drop_lock(t) \/ drop_cc(t) \/ drop_root(t) \/ drop_cas(t) \/ drop_seal(t) \/ gc_pages(t)
    \/ drop_end(t) \/ checksum_end(t)

Next == start \/ crash \/ \E t \in Threads : Call(t) \/ Step(t) \/ split(t) \/ root_hoist(t)

Spec == Init /\ [][Next]_vars

\* Where no crash can come, what is in the log makes no difference.
WithoutLog ==
    <<up, pages, limbo, meta, tenants, handles, tlock, cc,
      [t \in Threads |-> [th[t] EXCEPT !.peg = Nil]], trees, calls, crashes>>

\* Threads go on, and locks are given to those who wait.
FairSpec == Spec /\ WF_vars(start) /\ \A t \in Threads : SF_vars(Step(t))
----------------------------------------------------------------------------
(* Properties.                                                                *)

\* TypeOK: the pages, the meta page and the map of tenants hold what their fields
\* can hold.
TypeOK ==
    /\ pages \in [Pids -> [tree : 0..trees, left : {Nil} \cup Pids, next : {Nil} \cup Pids]]
    /\ meta \in [AllNames -> {Nil} \cup Pids]
    /\ \A n \in AllNames : tenants[n] \in 0..Len(handles[n])
    /\ tlock \in Threads \cup {Nil} /\ cc.readers \subseteq Threads
    /\ cc.writer # Nil => cc.readers = {}
    /\ \A t \in Threads : th[t].pc # "idle" => up

Reach(p) == LET down == Leftmost(p) IN
            UNION {LET level == Level(down[i]) IN {level[j] : j \in 1..Len(level)} : i \in 1..Len(down)}

\* Every tree the meta page names is whole: all of its pages are there, are its
\* own, and no other tree's, also after a crash in the middle of a drop
\* (open_tree, drop_tree, gc_pages).
RootsAreWhole ==
    \A n \in AllNames : meta[n] # Nil =>
        /\ \A p \in Reach(meta[n]) : pages[p] # Free /\ pages[p].tree = pages[meta[n]].tree
        /\ \A m \in AllNames \ {n} : meta[m] # Nil => pages[meta[m]].tree # pages[meta[n]].tree

\* A handle leads into its own tree or is gone, however the pids were used again:
\* nobody reaches a page of another tree through it (tree.root.store).
HandlesStayHome ==
    \A n \in AllNames : \A h \in 1..Len(handles[n]) :
        handles[n][h].root # Gone => pages[handles[n][h].root].tree = handles[n][h].tree

\* While nobody holds the lock of `tenants`, it has a handle for every root in the
\* meta page, and for no other name; the handle leads to that tree.
TenantsFollowMeta ==
    up /\ tlock = Nil =>
        \A n \in AllNames :
            /\ tenants[n] # Nil <=> meta[n] # Nil
            /\ tenants[n] # Nil => handles[n][tenants[n]].tree = pages[meta[n]].tree

\* As long as nothing crashed, no page is lost: once all calls are over, every page
\* is free or in a tree (gc_pages, which says it leaves orphans after a crash only).
NoOrphan ==
    crashes = 0 /\ up /\ Busy = {} =>
        \A p \in Pids : pages[p] # Free => \E n \in AllNames : meta[n] # Nil /\ p \in Reach(meta[n])

\* What root_hoist says of its last loop: "we don't want to cause roots to diverge
\* between meta and our version" (tree.rs:1662).
RootsFollowMeta ==
    up /\ Busy = {} =>
        \A n \in AllNames : \A h \in 1..Len(handles[n]) :
            handles[n][h].root # Gone => handles[n][h].root = meta[n]

\* Every call returns: the two locks are taken in one order, and the loop at the
\* end of root_hoist ends.
CallsReturn == \A t \in Threads : th[t].pc # "idle" ~> th[t].pc = "idle"
=============================================================================
