-------------------------------- MODULE Lru ---------------------------------
(***************************************************************************)
(* One shard of the LRU cache (src/src/lru.rs): a lock-free queue of       *)
(* blocks that every access is pushed to, and, behind a lock that is only  *)
(* ever tried (src/src/fastlock.rs), the entries and the doubly linked     *)
(* list (src/src/dll.rs) in the order of their use.  A thread whose push   *)
(* filled a block tries the lock, takes all full blocks and applies their  *)
(* accesses; what does not fit any more is evicted.                        *)
(*                                                                         *)
(* Shards share nothing, so there is one.  A block that is freed is freed  *)
(* through the epoch guard of the thread that took it, after every thread  *)
(* that might look at it: its number is never used again here.             *)
(***************************************************************************)
EXTENDS Naturals, Sequences, FiniteSets, FiniteSetsExt, SequencesExt, TLC

CONSTANTS
    Threads,
    Positions,       \* positions in the shard (page ids / number of shards): 0..n
    Sizes,           \* sizes of pages, in bytes
    Capacity,        \* of the shard
    MAX_QUEUE_ITEMS, \* accesses in a block (64)
    MaxAccesses,     \* bound: accesses of each thread
    MaxBlocks        \* bound: blocks ever published

\* The constants are meant to satisfy
\*   /\ Capacity > 0 /\ \A s \in Sizes : s > 1
\*   /\ Positions = 0..(Cardinality(Positions) - 1)

Null == 0
Blocks == 1..MaxBlocks
Low == Cardinality(Positions)
NoPos == Low

VARIABLES
    block,      \* AccessBlocks by number: len, items, next, and whether
                \* it has been given to the guard to free
    blocks,     \* the number of blocks published so far
    writing,    \* AccessQueue::writing
    full_list,  \* AccessQueue::full_list
    lock,       \* FastLock::lock
    thread,     \* per thread: pc, item, head, expect, offset, filled, done, accesses
    entries,    \* Shard::entries: the size of each; the list's nodes are their ptr
    size,       \* Shard::size
    list,       \* DoublyLinkedList: head, tail, len
    node,       \* its nodes, one per position at most: live, next, prev
    evicted     \* what the last access evicted

vars == <<block, blocks, writing, full_list, lock, thread, entries, size, list,
          node, evicted>>
queue == <<block, blocks, writing, full_list>>
shard == <<entries, size, list, node, evicted>>

-----------------------------------------------------------------------------
(* CacheAccess: the position in the low 56 bits, above it the exponent of  *)
(* the size rounded up to a power of two.  0 means that a place of a block *)
(* has not been written yet.                                               *)

Exponent(sz) == CHOOSE k \in 0..sz : 2^k >= sz /\ \A j \in 0..k : 2^j >= sz => j = k
CacheAccess(pos, sz) == pos + Low * Exponent(sz)
Position(item) == item % Low
Size(item) == 2^(item \div Low)

EmptyBlock == [len |-> 0, items |-> [i \in 1..MAX_QUEUE_ITEMS |-> 0], next |-> Null,
               freed |-> FALSE]

At(t, pc) == thread[t].pc = pc
Goto(t, pc) == thread' = [thread EXCEPT ![t].pc = pc]
Idle(n) == [pc |-> "idle", item |-> 0, head |-> Null, expect |-> Null, offset |-> 0,
            filled |-> FALSE, accesses |-> n]
Return(t) == thread' = [thread EXCEPT ![t] = Idle(thread[t].accesses)]

Init ==
    /\ block = [b \in Blocks |-> EmptyBlock]
    /\ blocks = 1
    /\ writing = 1
    /\ full_list = Null
    /\ lock = FALSE
    /\ thread = [t \in Threads |-> Idle(0)]
    /\ entries = [p \in Positions |-> 0]
    /\ size = 0
    /\ list = [head |-> NoPos, tail |-> NoPos, len |-> 0]
    /\ node = [p \in Positions |-> [live |-> FALSE, next |-> NoPos, prev |-> NoPos]]
    /\ evicted = <<>>

-----------------------------------------------------------------------------
(* AccessQueue::push                                                       *)

accessed(t) ==
    /\ At(t, "idle") /\ thread[t].accesses < MaxAccesses
    /\ \E pos \in Positions, sz \in Sizes :
        thread' = [thread EXCEPT ![t].pc = "load",
                                 ![t].item = CacheAccess(pos, sz),
                                 ![t].filled = FALSE, ![t].accesses = @ + 1]
    /\ UNCHANGED <<queue, lock, shard>>

load_writing(t) ==
    /\ At(t, "load")
    /\ thread' = [thread EXCEPT ![t].pc = "offset", ![t].head = writing]
    /\ UNCHANGED <<queue, lock, shard>>

\* len counts on past the end of a full block; how far does not matter.
fetch_add(t) ==
    /\ At(t, "offset")
    /\ LET b == thread[t].head
       IN /\ block' = [block EXCEPT ![b].len = Min({@ + 1, MAX_QUEUE_ITEMS})]
          /\ thread' = [thread EXCEPT
                ![t].offset = block[b].len,
                ![t].pc = IF block[b].len < MAX_QUEUE_ITEMS THEN "store" ELSE "install"]
    /\ UNCHANGED <<blocks, writing, full_list, lock, shard>>

store(t) ==
    /\ At(t, "store")
    /\ block' = [block EXCEPT ![thread[t].head].items[thread[t].offset + 1] = thread[t].item]
    /\ IF thread[t].filled THEN Goto(t, "try_lock") ELSE Return(t)
    /\ UNCHANGED <<blocks, writing, full_list, lock, shard>>

\* The block is full: put a new one in its place, or find that another
\* thread has (or that the weak exchange failed) and start again.
install(t) ==
    /\ At(t, "install")
    /\ \/ /\ writing = thread[t].head
          /\ blocks < MaxBlocks
          /\ blocks' = blocks + 1
          /\ writing' = blocks + 1
          /\ Goto(t, "full")
       \/ /\ Goto(t, "load")
          /\ UNCHANGED <<blocks, writing>>
    /\ UNCHANGED <<block, full_list, lock, shard>>

load_full_list(t) ==
    /\ At(t, "full")
    /\ thread' = [thread EXCEPT ![t].pc = "next", ![t].expect = full_list]
    /\ UNCHANGED <<queue, lock, shard>>

store_next(t) ==
    /\ At(t, "next")
    /\ block' = [block EXCEPT ![thread[t].head].next = thread[t].expect]
    /\ Goto(t, "publish")
    /\ UNCHANGED <<blocks, writing, full_list, lock, shard>>

\* Mutant: the block is published whatever happened to the list meanwhile.
publishAnyway(t) ==
    /\ At(t, "publish")
    /\ full_list' = thread[t].head
    /\ thread' = [thread EXCEPT ![t].pc = "load", ![t].filled = TRUE,
                                     ![t].expect = Null]
    /\ UNCHANGED <<block, blocks, writing, lock, shard>>

publish(t) ==
    /\ At(t, "publish")
    /\ IF full_list = thread[t].expect
       THEN /\ full_list' = thread[t].head
            /\ thread' = [thread EXCEPT ![t].pc = "load", ![t].filled = TRUE,
                                     ![t].expect = Null]
       ELSE /\ thread' = [thread EXCEPT ![t].pc = "next", ![t].expect = full_list]
            /\ UNCHANGED full_list
    /\ UNCHANGED <<block, blocks, writing, lock, shard>>

-----------------------------------------------------------------------------
(* The flat combining of Lru::accessed: whoever gets the lock does the     *)
(* work of all.                                                            *)

\* FastLock::try_lock
try_lock(t) ==
    /\ At(t, "try_lock")
    /\ IF lock
       THEN Return(t) /\ UNCHANGED lock
       ELSE Goto(t, "take") /\ lock' = TRUE
    /\ UNCHANGED <<queue, shard>>

take(t) ==
    /\ At(t, "take")
    /\ full_list' = Null
    /\ thread' = [thread EXCEPT ![t].pc = "drain", ![t].head = full_list, ![t].offset = 0]
    /\ UNCHANGED <<block, blocks, writing, lock, shard>>

-----------------------------------------------------------------------------
(* DoublyLinkedList, as functions from a list (with its nodes) to a list.  *)

unwire(nodes, p) ==
    LET n == nodes[p]
        a == IF n.prev = NoPos THEN nodes ELSE [nodes EXCEPT ![n.prev].next = n.next]
        b == IF n.next = NoPos THEN a ELSE [a EXCEPT ![n.next].prev = n.prev]
    IN [b EXCEPT ![p].next = NoPos, ![p].prev = NoPos]

push_head_ptr(d, p) ==
    [nodes |-> IF d.head = NoPos THEN d.nodes
               ELSE [d.nodes EXCEPT ![d.head].next = p, ![p].prev = d.head],
     tail |-> IF d.tail = NoPos THEN p ELSE d.tail,
     head |-> p,
     len |-> d.len]

push_head(d, p) ==
    push_head_ptr([d EXCEPT !.len = @ + 1,
                            !.nodes[p] = [live |-> TRUE, next |-> NoPos, prev |-> d.head]], p)

\* Mutant: the tail is not moved when it is promoted.
promoteKeepsTail(d, p) ==
    IF d.head = p THEN d
    ELSE push_head_ptr([d EXCEPT !.nodes = unwire(d.nodes, p)], p)

promote(d, p) ==
    IF d.head = p THEN d
    ELSE push_head_ptr([d EXCEPT !.tail = IF @ = p THEN d.nodes[p].next ELSE @,
                                 !.nodes = unwire(d.nodes, p)], p)

pop_tail(d) ==
    [head |-> IF d.head = d.tail THEN NoPos ELSE d.head,
     tail |-> d.nodes[d.tail].next,
     len |-> d.len - 1,
     nodes |-> [unwire(d.nodes, d.tail) EXCEPT ![d.tail].live = FALSE]]

\* The loop of Shard::accessed: st is the list with entries, size, evicted.
\* There are at most Low evictions, one per position.
Evict(st) ==
    LET more(s) == s.size > Capacity /\ s.d.len # 1
        one(s) == [d |-> pop_tail(s.d),
                   entries |-> [s.entries EXCEPT ![s.d.tail] = 0],
                   size |-> s.size - s.entries[s.d.tail],
                   evicted |-> Append(s.evicted, s.d.tail)]
        go[n \in 0..Low] ==
            IF n = 0 THEN st
            ELSE IF more(go[n - 1]) THEN one(go[n - 1]) ELSE go[n - 1]
    IN go[Low]

\* Shard::accessed
ShardAccessed(pos, sz) ==
    LET d == [head |-> list.head, tail |-> list.tail, len |-> list.len, nodes |-> node]
    IN Evict([d |-> IF node[pos].live THEN promote(d, pos) ELSE push_head(d, pos),
              entries |-> [entries EXCEPT ![pos] = sz],
              size |-> size - entries[pos] + sz,
              evicted |-> <<>>])

\* CacheAccessIter::next and the body of the loop over it.  A place that is
\* reserved but not written is waited for.
drain(t) ==
    /\ At(t, "drain")
    /\ LET b == thread[t].head
           item == block[b].items[thread[t].offset + 1]
       IN IF b = Null
          THEN /\ lock' = FALSE
               /\ Return(t)
               /\ UNCHANGED <<block, shard>>
          ELSE IF thread[t].offset >= MAX_QUEUE_ITEMS
          THEN /\ thread' = [thread EXCEPT ![t].head = block[b].next, ![t].offset = 0]
               /\ block' = [block EXCEPT ![b].freed = TRUE]
               /\ UNCHANGED <<lock, shard>>
          ELSE /\ item # 0
               /\ LET st == ShardAccessed(Position(item), Size(item))
                  IN /\ list' = [head |-> st.d.head, tail |-> st.d.tail, len |-> st.d.len]
                     /\ node' = st.d.nodes
                     /\ entries' = st.entries
                     /\ size' = st.size
                     /\ evicted' = st.evicted
               /\ thread' = [thread EXCEPT ![t].offset = @ + 1]
               /\ UNCHANGED <<block, lock>>
    /\ UNCHANGED <<blocks, writing, full_list>>

Step(t) ==
    \/ load_writing(t)
    \/ fetch_add(t)
    \/ store(t)
    \/ install(t)
    \/ load_full_list(t)
    \/ store_next(t)
    \/ publish(t)
    \/ try_lock(t)
    \/ take(t)
    \/ drain(t)

Next == \E t \in Threads : accessed(t) \/ Step(t)

Spec == Init /\ [][Next]_vars

(* A thread that is accessing the cache runs until it returns, and the     *)
(* weak exchange does not fail for ever without a reason.                  *)
FairSpec ==
    /\ Spec
    /\ \A t \in Threads : WF_vars(Step(t)) /\ SF_vars(install(t) /\ blocks' # blocks)

Symmetry == Permutations(Threads)

-----------------------------------------------------------------------------

\* The list as the sequence of its positions, least recently used first.
Order ==
    LET walk[n \in 0..Low] ==
            IF n = 0 THEN <<>>
            ELSE LET s == walk[n - 1]
                     p == IF s = <<>> THEN list.tail ELSE node[Last(s)].next
                 IN IF Len(s) < n - 1 \/ p = NoPos THEN s ELSE Append(s, p)
    IN walk[Low]

\* TypeOK: the blocks of the access queue, their list and the shard hold what the
\* fields of AccessBlock, AccessQueue and Shard can hold.
TypeOK ==
    /\ blocks \in Blocks /\ writing \in Blocks /\ full_list \in Blocks \cup {Null}
    /\ lock \in BOOLEAN
    /\ entries \in [Positions -> Nat]
    /\ size \in Nat
    /\ list.len \in 0..Low

\* The blocks of a chain, from its first.
Chain(b) ==
    LET reach[n \in 0..MaxBlocks] ==
            IF n = 0 THEN {b} \ {Null}
            ELSE reach[n - 1] \cup ({block[c].next : c \in reach[n - 1]} \ {Null})
    IN reach[MaxBlocks]

\* Who answers for a block: the queue, its list of full blocks, a thread that
\* replaced it and has yet to publish it, or a thread that is draining it.
Publishing(t) ==
    IF thread[t].pc \in {"full", "next", "publish"} THEN {thread[t].head} ELSE {}
Draining(t) == IF At(t, "drain") THEN Chain(thread[t].head) ELSE {}

\* No block, and so no access, is lost or applied twice: a block that was
\* published is in one place at a time, and has been drained, which waits for
\* all its places, when it is in none (AccessQueue::push against take).
BlockIsInOnePlace ==
    /\ \A b \in 1..blocks :
        \/ b = writing \/ b \in Chain(full_list)
        \/ \E t \in Threads : b \in Publishing(t) \cup Draining(t)
        \/ block[b].freed
    /\ writing \notin Chain(full_list)
    /\ \A t \in Threads :
        /\ writing \notin Publishing(t) \cup Draining(t)
        /\ Chain(full_list) \cap (Publishing(t) \cup Draining(t)) = {}
        /\ \A u \in Threads \ {t} :
            (Publishing(t) \cup Draining(t)) \cap (Publishing(u) \cup Draining(u)) = {}

\* One thread at a time works on the shard.
OneDrainer ==
    /\ \A t, u \in Threads :
        At(t, "drain") /\ At(u, "drain") => t = u
    /\ (\E t \in Threads : thread[t].pc \in {"take", "drain"}) => lock

\* The linked list, the entries and the total agree whatever was promoted and
\* evicted: the list runs from tail to head through exactly the entries that
\* have a node, backwards as forwards, its length and the sum of the sizes
\* are the recorded ones, and no more than the capacity is kept unless it is
\* a single page (Shard::accessed, DoublyLinkedList).
ShardIsConsistent ==
    LET order == Order
        live == {p \in Positions : node[p].live}
    IN /\ Range(order) = live /\ Len(order) = Cardinality(live)
       /\ list.len = Len(order)
       /\ order # <<>> => list.head = Last(order) /\ node[list.head].next = NoPos
       /\ \A i \in 1..(Len(order) - 1) : node[order[i + 1]].prev = order[i]
       /\ size = MapThenSumSet(LAMBDA p : entries[p], Positions)
       /\ \A p \in Positions \ live : entries[p] = 0
       /\ size <= Capacity \/ list.len = 1

\* The least recently used pages are evicted, and only as many as needed: an
\* access leaves the reference list, with the page moved to its end, without
\* a prefix of it, and without that prefix's last page it would not fit.
EvictsOldest ==
    entries' # entries \/ Order' # Order =>
        LET pos == Last(Order')
            ref == Append(SelectSeq(Order, LAMBDA p : p # pos), pos)
            last == evicted'[Len(evicted')]
        IN /\ ref = evicted' \o Order'
           /\ evicted' # <<>> => size' + entries[last] > Capacity
EvictsLeastRecentlyUsed == [][EvictsOldest]_vars

\* A thread that works on the full blocks comes to an end: the places it
\* waits for are written by their threads (CacheAccessIter::next spins).
AccessesReturn == \A t \in Threads : ~At(t, "idle") ~> At(t, "idle")
=============================================================================
