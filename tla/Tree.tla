------------------------------- MODULE Tree -------------------------------
(* The concurrent B-link tree of src/tree.rs over the nodes of src/node.rs *)
(* while several threads read, write, split and merge it.  A node is       *)
(* replaced by a compare and swap on the view a thread has of it; every    *)
(* half-done split or merge that a thread meets is completed by it.        *)
(*                                                                         *)
(* A page's pointer is the flag `fresh` of a view: every write to a page   *)
(* makes all views of it stale, so a swap succeeds exactly when nobody     *)
(* wrote the page since it was viewed.  A new page is allocated in the     *)
(* step that makes it reachable.  Keys are small numbers, 0 the empty key. *)
EXTENDS Naturals, Sequences, FiniteSets

CONSTANTS
  Threads,
  Inf,          \* the keys are 0..Inf-1, Inf the missing upper bound
  MaxVal,       \* the values are 1..MaxVal, 0 the missing value
  Pids,         \* bound: the pages that can exist at once
  SplitAbove,   \* a node with more children is split
  MergeBelow,   \* a node with fewer children is merged
  Separators,   \* the lo keys of the leaves of the first tree
  Uppers,       \* the lo keys of the indexes between them and the root
  FirstKeys,    \* the keys that the first tree has
  Kinds,        \* the operations that are called
  MaxCalls,     \* bound: operations called by each thread
  MaxCrashes    \* bound: crashes

\* The constants are meant to satisfy
\*   0 \in Separators /\ Separators \cup FirstKeys \subseteq 0..(Inf - 1)
\*   Uppers \subseteq Separators /\ (Uppers # {} => 0 \in Uppers)
\*   Pids \subseteq Nat \ {0} /\ MergeBelow <= SplitAbove /\ SplitAbove >= 2

VARIABLES
  page,     \* pid -> node
  root,     \* Tree::root
  meta,     \* the root pid that the meta page holds
  limbo,    \* pid -> threads that may still know it from before it was freed
  th,       \* thread -> its registers
  ret,      \* thread -> <<the value found>>, once the operation is over
  seen,     \* history: thread -> values its key had since the call
  calls,    \* thread -> operations called so far
  crashes,
  failed    \* an assertion, unwrap or panic was reached

vars == <<page, root, meta, limbo, th, ret, seen, calls, crashes, failed>>

Keys == 0..(Inf - 1)
NoValue == 0
Nothing == [kind |-> "none", key |-> 0, old |-> NoValue, new |-> NoValue]

-----------------------------------------------------------------------------
(* Nodes                                                                   *)

Node(kind, lo, hi, next, kids, probation) ==
  [kind |-> kind, lo |-> lo, hi |-> hi, next |-> next, kids |-> kids,
   mchild |-> 0, merging |-> FALSE, probation |-> probation]

Free == Node("free", 0, Inf, 0, << >>, 0)

children(n) == Cardinality(DOMAIN n.kids)

should_split(n) == n.mchild = 0 /\ ~n.merging /\ children(n) > SplitAbove

should_merge(n) ==
  n.mchild = 0 /\ ~n.merging /\ n.probation = 0 /\ children(n) < MergeBelow

can_merge_child(n, pid) ==
  n.mchild = 0 /\ ~n.merging /\ \E k \in DOMAIN n.kids : n.kids[k] = pid

\* The value that a leaf has for a key.
node_kv_pair(n, key) == IF key \in DOMAIN n.kids THEN n.kids[key] ELSE NoValue

\* The separator below which the search for a key goes on.
index_next_node(n, key) ==
  CHOOSE k \in DOMAIN n.kids :
    k <= key /\ \A j \in DOMAIN n.kids : j <= key => j <= k

\* How many children are to the left of a child, and the child at an index.
Position(n, pid) ==
  LET sep == CHOOSE k \in DOMAIN n.kids : n.kids[k] = pid IN
  Cardinality({k \in DOMAIN n.kids : k < sep})

index_pid(n, i) ==
  n.kids[CHOOSE k \in DOMAIN n.kids :
           Cardinality({j \in DOMAIN n.kids : j < k}) = i]

\* Every rebuilding of a node spends one operation of its probation, or all
\* when its layout has to change; the nodes here have one at most.
stitch(n, kids) ==
  [n EXCEPT !.kids = kids,
            !.probation = IF @ = 0 THEN 0 ELSE @ - 1]

insert(n, key, value) ==
  stitch(n, [k \in DOMAIN n.kids \cup {key} |->
               IF k = key THEN value ELSE n.kids[k]])

replace(n, key, value) == [n EXCEPT !.kids[key] = value]

remove_index(n, key) ==
  stitch(n, [k \in DOMAIN n.kids \ {key} |-> n.kids[k]])

\* Link::Set, Link::Replace and Link::Del.
Updated(n, key, value) ==
  IF value = NoValue THEN remove_index(n, key)
  ELSE IF key \in DOMAIN n.kids THEN replace(n, key, value)
  ELSE insert(n, key, value)

\* The separators a split at the child with key m may use: a leaf cuts the
\* bytes that are not needed to tell m from the key before it.
split_keys(n, m) ==
  IF n.kind = "index" THEN {m}
  ELSE {s \in 1..m : \A k \in DOMAIN n.kids : k < m => k < s}

split_lhs(n, m, sep, rhs) ==
  Node(n.kind, n.lo, sep, rhs,
       [k \in {j \in DOMAIN n.kids : j < m} |-> n.kids[k]], 0)

split_rhs(n, m, sep) ==
  Node(n.kind, sep, n.hi, n.next,
       [k \in {j \in DOMAIN n.kids : j >= m} |-> n.kids[k]],
       children(n) \div 2)

receive_merge(n, other) ==
  Node(n.kind, n.lo, other.hi, other.next,
       [k \in DOMAIN n.kids \cup DOMAIN other.kids |->
          IF k \in DOMAIN n.kids THEN n.kids[k] ELSE other.kids[k]], 0)

new_hoisted_root(left, at, right) ==
  Node("index", 0, Inf, 0,
       [k \in {0, at} |-> IF k = 0 THEN left ELSE right], 0)

\* Mutant: the parent keeps its pointer to the merged child.
ParentMergeConfirmKeeps(n) == [n EXCEPT !.mchild = 0]

ParentMergeConfirm(n) ==
  [remove_index(n, CHOOSE k \in DOMAIN n.kids : n.kids[k] = n.mchild)
     EXCEPT !.mchild = 0]

-----------------------------------------------------------------------------
(* Views, pages and registers                                              *)

NoView == [pid |-> 0, node |-> Free, fresh |-> FALSE]
View(pid) == [pid |-> pid, node |-> page[pid], fresh |-> TRUE]

NoArg == [to |-> 0, at |-> 0, back |-> "load"]

\* A call of merge_node, with its locals.
Frame(parent, child) ==
  [pc |-> "cap", parent |-> parent, child |-> child, cview |-> NoView,
   idx |-> 0, cursor |-> 0, left |-> NoView]

Idle == [pc |-> "idle", op |-> Nothing, cur |-> << >>, cursor |-> 0,
         root |-> 0, parent |-> NoView, unsplit |-> NoView,
         leftmost |-> FALSE, view |-> NoView, arg |-> NoArg, stack |-> << >>]

\* Rust's retry!() of view_for_key.
Retry(r) ==
  [r EXCEPT !.pc = "load", !.cursor = 0, !.root = 0, !.parent = NoView,
            !.unsplit = NoView, !.leftmost = FALSE, !.view = NoView,
            !.arg = NoArg]

StaleView(v, pid) == IF v.pid = pid THEN [v EXCEPT !.fresh = FALSE] ELSE v

Stale(r, pid) ==
  [r EXCEPT !.parent = StaleView(@, pid), !.unsplit = StaleView(@, pid),
            !.view = StaleView(@, pid),
            !.stack = [i \in DOMAIN @ |->
                         [@[i] EXCEPT !.parent = StaleView(@, pid),
                                      !.cview = StaleView(@, pid),
                                      !.left = StaleView(@, pid)]]]

\* Thread t's registers become r, those of the others see page pid change.
Swap(t, pid, r) ==
  th' = [u \in Threads |-> IF u = t THEN r ELSE Stale(th[u], pid)]

Goto(t, r) == th' = [th EXCEPT ![t] = r]

Active == {t \in Threads : th[t].pc \notin {"idle", "done"}}

\* The pid can be taken again once nobody is left who could know it.
FreePage(pid) == /\ page' = [page EXCEPT ![pid] = Free]
                 /\ limbo' = [limbo EXCEPT ![pid] = Active]

Available == {p \in Pids : page[p] = Free /\ limbo[p] = {}}

NewPid == CHOOSE p \in Available : \A q \in Available : p <= q

Unpinned(t) == [p \in Pids |-> limbo[p] \ {t}]

\* The leaf of a key along the right-sibling links, and the map that the
\* leaves hold.
RECURSIVE Walk(_, _)
Walk(pid, key) ==
  IF key < page[pid].hi \/ page[pid].next = 0 THEN pid
  ELSE Walk(page[pid].next, key)

FirstLeaf == 1

Contents == [k \in Keys |-> node_kv_pair(page[Walk(FirstLeaf, k)], k)]

-----------------------------------------------------------------------------
(* Calls                                                                   *)

Ops == {op \in [kind: Kinds, key: Keys, old: 0..MaxVal, new: 0..MaxVal] :
          /\ op.kind # "cas" => op.old = NoValue
          /\ op.kind = "set" => op.new # NoValue
          /\ op.kind \in {"get", "del", "update", "merge"} => op.new = NoValue}

begin(t) ==
  /\ th[t] = Idle /\ calls[t] < MaxCalls
  /\ \E op \in Ops :
       /\ Goto(t, [Idle EXCEPT !.op = op, !.pc = "load"])
       /\ seen' = [seen EXCEPT ![t] = {Contents[op.key]}]
  /\ calls' = [calls EXCEPT ![t] = @ + 1]
  /\ UNCHANGED <<page, root, meta, limbo, ret, crashes, failed>>

return(t) ==
  /\ th[t].pc = "done"
  /\ Goto(t, Idle)
  /\ ret' = [ret EXCEPT ![t] = << >>]
  /\ seen' = [seen EXCEPT ![t] = {}]
  /\ UNCHANGED <<page, root, meta, limbo, calls, crashes, failed>>

At(t, pc) == th[t].pc = pc /\ th[t].stack = << >>

\* The closure or merge operator of the caller.
Modified(v) == (v + 1) % (MaxVal + 1)

\* What an operation that found v in its leaf puts there: v if it has nothing
\* to link, because it only reads, its swap does not match or v is the same.
get_inner(op, v) == v
insert_inner(op, v) == op.new
compare_and_swap(op, v) == IF v = op.old THEN op.new ELSE v
merge_inner(op, v) == Modified(v)

Wanted(op, v) ==
  CASE op.kind = "get" -> get_inner(op, v)
    [] op.kind \in {"set", "del"} -> insert_inner(op, v)
    [] op.kind = "cas" -> compare_and_swap(op, v)
    [] op.kind = "merge" -> merge_inner(op, v)
    [] op.kind = "update" -> compare_and_swap([old |-> v, new |-> Modified(v)], v)

Answer(t, v) ==
  /\ Goto(t, [Idle EXCEPT !.op = th[t].op, !.pc = "done"])
  /\ ret' = [ret EXCEPT ![t] = <<v>>]
  /\ limbo' = Unpinned(t)

\* update_and_fetch and fetch_and_update: a get, and then swaps, each pinned
\* anew, that expect the value that was found last.
update_and_fetch(t, val) ==
  /\ Goto(t, [Retry(th[t]) EXCEPT !.cur = <<val>>])
  /\ limbo' = Unpinned(t)
  /\ UNCHANGED ret

\* view_for_key has led to leaf view v.
Leaf(t, v) ==
  LET r == th[t]
      val == node_kv_pair(v.node, r.op.key) IN
  IF r.op.kind = "update" /\ r.cur # <<val>> THEN update_and_fetch(t, val)
  ELSE IF Wanted(r.op, val) = val THEN Answer(t, val)
  ELSE /\ Goto(t, [Retry(r) EXCEPT !.pc = "link", !.view = v])
       /\ UNCHANGED <<ret, limbo>>

\* Mutant: the link is not conditional on the view.
linkAnyway(t) ==
  LET r == th[t]
      v == r.view
      val == node_kv_pair(v.node, r.op.key)
      new == Wanted(r.op, val) IN
  /\ At(t, "link")
  /\ page' = [page EXCEPT ![v.pid] = Updated(v.node, r.op.key, new)]
  /\ Swap(t, v.pid, [Idle EXCEPT !.op = r.op, !.pc = "done"])
  /\ ret' = [ret EXCEPT ![t] = <<val>>]
  /\ limbo' = Unpinned(t)
  /\ seen' = [u \in Threads |->
                IF th[u].op # Nothing /\ th[u].op.key = r.op.key
                THEN seen[u] \cup {new} ELSE seen[u]]
  /\ UNCHANGED <<root, meta, calls, crashes, failed>>

\* The link of insert_inner, compare_and_swap and merge_inner.
link(t) ==
  LET r == th[t]
      v == r.view
      val == node_kv_pair(v.node, r.op.key)
      new == Wanted(r.op, val) IN
  /\ At(t, "link")
  /\ \/ /\ v.fresh
        /\ page' = [page EXCEPT ![v.pid] = Updated(v.node, r.op.key, new)]
        /\ Swap(t, v.pid, [Idle EXCEPT !.op = r.op, !.pc = "done"])
        /\ ret' = [ret EXCEPT ![t] = <<val>>]
        /\ limbo' = Unpinned(t)
        /\ seen' = [u \in Threads |->
                      IF th[u].op # Nothing /\ th[u].op.key = r.op.key
                      THEN seen[u] \cup {new} ELSE seen[u]]
     \/ /\ ~v.fresh
        /\ Goto(t, Retry(r))
        /\ UNCHANGED <<page, ret, limbo, seen>>
  /\ UNCHANGED <<root, meta, calls, crashes, failed>>

-----------------------------------------------------------------------------
(* view_for_key                                                            *)

load(t) ==
  /\ At(t, "load")
  /\ Goto(t, [th[t] EXCEPT !.pc = "visit", !.cursor = root, !.root = root])
  /\ UNCHANGED <<page, root, meta, limbo, ret, seen, calls, crashes, failed>>

Here(t) == page[th[t].cursor]

\* A freed, merging or overshot page starts the search over.
retry(t) ==
  /\ At(t, "visit")
  /\ \/ Here(t).kind = "free"
     \/ /\ Here(t).mchild = 0
        /\ Here(t).merging \/ th[t].op.key < Here(t).lo
  /\ Goto(t, Retry(th[t]))
  /\ UNCHANGED <<page, root, meta, limbo, ret, seen, calls, crashes, failed>>

\* view_for_pid never returns a page with a merging child: it helps first.
help(t) ==
  /\ At(t, "visit") /\ Here(t).mchild # 0
  /\ Goto(t, [th[t] EXCEPT !.stack =
                <<Frame(View(th[t].cursor), Here(t).mchild)>>])
  /\ UNCHANGED <<page, root, meta, limbo, ret, seen, calls, crashes, failed>>

Passable(t) ==
  /\ At(t, "visit")
  /\ Here(t).kind # "free" /\ Here(t).mchild = 0 /\ ~Here(t).merging
  /\ th[t].op.key >= Here(t).lo

find_large(t) ==
  /\ Passable(t) /\ should_split(Here(t))
  /\ Goto(t, [th[t] EXCEPT !.pc = "split", !.view = View(th[t].cursor)])
  /\ UNCHANGED <<page, root, meta, limbo, ret, seen, calls, crashes, failed>>

\* A half-done split: go right, and remember the parent that misses the
\* child, or hoist the root that was split.
undershoot(t) ==
  LET r == th[t]
      n == Here(t)
      right == [r EXCEPT !.cursor = n.next] IN
  /\ Passable(t) /\ ~should_split(n) /\ r.op.key >= n.hi
  /\ IF r.unsplit = NoView /\ r.parent # NoView
     THEN Goto(t, [right EXCEPT !.unsplit = r.parent])
     ELSE IF r.parent = NoView /\ n.lo = 0
     THEN Goto(t, [right EXCEPT !.pc = "hoist",
                                !.arg = [to |-> n.next, at |-> n.hi,
                                         back |-> "visit"]])
     ELSE Goto(t, right)
  /\ failed' = \/ failed
               \/ n.next = 0
               \/ r.parent = NoView /\ n.lo = 0
                  /\ (r.unsplit # NoView \/ r.cursor # r.root)
  /\ UNCHANGED <<page, root, meta, limbo, ret, seen, calls, crashes>>

\* The page may be merged into its left sibling under the same parent.
MayMerge(r, n) ==
  /\ ~r.leftmost /\ r.parent # NoView /\ should_merge(n)
  /\ can_merge_child(r.parent.node, r.cursor)

\* The rest of a round of view_for_key with a view that covers the key.
Descend(t, v) ==
  LET r == th[t]
      sep == index_next_node(v.node, r.op.key) IN
  IF v.node.kind = "index"
  THEN /\ Goto(t, [r EXCEPT !.pc = "visit", !.parent = v, !.view = NoView,
                            !.unsplit = NoView,
                            !.cursor = v.node.kids[sep],
                            !.leftmost = \A k \in DOMAIN v.node.kids : sep <= k])
       /\ UNCHANGED <<ret, limbo>>
  ELSE Leaf(t, v)

Proceed(t, v) ==
  IF MayMerge(th[t], v.node)
  THEN /\ Goto(t, [th[t] EXCEPT !.pc = "intend", !.view = v,
                                !.unsplit = NoView])
       /\ UNCHANGED <<ret, limbo>>
  ELSE Descend(t, v)

find(t) ==
  LET r == th[t]
      n == Here(t) IN
  /\ Passable(t) /\ ~should_split(n) /\ r.op.key < n.hi
  /\ IF r.unsplit = NoView THEN Proceed(t, View(r.cursor))
     ELSE /\ IF n.lo \in DOMAIN r.unsplit.node.kids THEN Goto(t, Retry(r))
             ELSE Goto(t, [r EXCEPT !.pc = "coop", !.view = View(r.cursor)])
          /\ UNCHANGED <<ret, limbo>>
  /\ UNCHANGED <<page, root, meta, seen, calls, crashes, failed>>

parent_split(v, at, to) == insert(v.node, at, to)

\* The cooperative parent split: done or not, the search goes on.
coop_split(t) ==
  LET r == th[t]
      p == r.unsplit IN
  /\ At(t, "coop")
  /\ IF p.fresh
     THEN /\ page' = [page EXCEPT ![p.pid] =
                        parent_split(p, r.view.node.lo, r.cursor)]
          /\ Swap(t, p.pid,
                  [Stale(r, p.pid) EXCEPT !.pc = "proceed", !.unsplit = NoView])
     ELSE /\ Goto(t, [r EXCEPT !.pc = "proceed", !.unsplit = NoView])
          /\ UNCHANGED page
  /\ UNCHANGED <<root, meta, limbo, ret, seen, calls, crashes, failed>>

proceed(t) ==
  /\ At(t, "proceed")
  /\ Proceed(t, th[t].view)
  /\ UNCHANGED <<page, root, meta, seen, calls, crashes, failed>>

\* The ParentMergeIntention, after which the merge is carried out.
intend(t) ==
  LET r == th[t]
      p == r.parent
      marked == [p.node EXCEPT !.mchild = r.cursor] IN
  /\ At(t, "intend")
  /\ \/ /\ p.fresh
        /\ page' = [page EXCEPT ![p.pid] = marked]
        /\ Swap(t, p.pid,
                [Retry(r) EXCEPT !.stack =
                   <<Frame([p EXCEPT !.node = marked], r.cursor)>>])
        /\ UNCHANGED <<ret, limbo>>
     \/ /\ ~p.fresh
        /\ Descend(t, r.view)
        /\ UNCHANGED page
  /\ UNCHANGED <<root, meta, seen, calls, crashes, failed>>

-----------------------------------------------------------------------------
(* split_node and root_hoist                                               *)

\* The right half is allocated and the left half put in the page's place; if
\* that fails the right half is freed before anybody could see it.
split_node(t) ==
  LET r == th[t]
      v == r.view IN
  /\ At(t, "split")
  /\ \/ /\ v.fresh /\ Available # {}
        /\ \E m \in DOMAIN v.node.kids :
             /\ \E k \in DOMAIN v.node.kids : k < m
             /\ \E sep \in split_keys(v.node, m) :
                  /\ page' = [page EXCEPT
                                ![NewPid] = split_rhs(v.node, m, sep),
                                ![v.pid] = split_lhs(v.node, m, sep, NewPid)]
                  /\ Swap(t, v.pid,
                          [r EXCEPT !.pc = IF r.parent = NoView THEN "hoist"
                                           ELSE "parent",
                                    !.view = NoView, !.cursor = 0,
                                    !.unsplit = NoView,
                                    !.arg = [to |-> NewPid, at |-> sep,
                                             back |-> "load"]])
     \/ /\ ~v.fresh
        /\ Goto(t, Retry(r))
        /\ UNCHANGED page
  /\ UNCHANGED <<root, meta, limbo, ret, seen, calls, crashes, failed>>

\* The parent learns of the new child unless it changed or knows the key.
split_parent(t) ==
  LET r == th[t]
      p == r.parent IN
  /\ At(t, "parent")
  /\ IF p.fresh /\ r.arg.at \notin DOMAIN p.node.kids
     THEN /\ page' = [page EXCEPT ![p.pid] =
                        parent_split(p, r.arg.at, r.arg.to)]
          /\ Swap(t, p.pid, Retry(r))
     ELSE /\ Goto(t, Retry(r))
          /\ UNCHANGED page
  /\ UNCHANGED <<root, meta, limbo, ret, seen, calls, crashes, failed>>

\* cas_root_in_meta of root_hoist; a new root that loses is freed unseen.
root_hoist(t) ==
  LET r == th[t] IN
  /\ At(t, "hoist")
  /\ \/ /\ meta = r.root /\ Available # {}
        /\ page' = [page EXCEPT
                      ![NewPid] = new_hoisted_root(r.root, r.arg.at, r.arg.to)]
        /\ meta' = NewPid
        /\ Goto(t, [Retry(r) EXCEPT !.pc = "swing", !.root = r.root,
                                    !.cursor = NewPid])
     \/ /\ meta # r.root
        /\ IF r.arg.back = "load" THEN Goto(t, Retry(r))
           ELSE Goto(t, [r EXCEPT !.pc = "visit", !.arg = NoArg])
        /\ UNCHANGED <<page, meta>>
  /\ UNCHANGED <<root, limbo, ret, seen, calls, crashes, failed>>

\* The spin of root_hoist until the tree's own root can follow the meta page.
swing(t) ==
  /\ At(t, "swing") /\ root = th[t].root
  /\ root' = th[t].cursor
  /\ Goto(t, Retry(th[t]))
  /\ UNCHANGED <<page, meta, limbo, ret, seen, calls, crashes, failed>>

-----------------------------------------------------------------------------
(* merge_node, with the innermost call on top of the stack                 *)

Top(t) == th[t].stack[Len(th[t].stack)]
In(t, pc) == th[t].stack # << >> /\ Top(t).pc = pc
With(r, f) == [r EXCEPT !.stack[Len(r.stack)] = f]
Leave(r) == [r EXCEPT !.stack = SubSeq(@, 1, Len(@) - 1)]
Call(r, parent, child) ==
  [r EXCEPT !.stack = Append(@, Frame(parent, child))]

\* The page that a frame asks view_for_pid for.
Asked(f) == CASE f.pc = "cap" -> f.child
              [] f.pc = "find" -> f.cursor
              [] f.pc = "again" -> f.parent.pid
              [] OTHER -> 0

\* view_for_pid inside merge_node helps with the page's own merge first.
help_more(t) ==
  /\ th[t].stack # << >> /\ Asked(Top(t)) # 0
  /\ page[Asked(Top(t))].mchild # 0
  /\ Goto(t, Call(th[t], View(Asked(Top(t))), page[Asked(Top(t))].mchild))
  /\ UNCHANGED <<page, root, meta, limbo, ret, seen, calls, crashes, failed>>

HasChild(f) == \E k \in DOMAIN f.parent.node.kids :
                 f.parent.node.kids[k] = f.child

\* The child is capped: look for its left sibling among the parent's children.
Capped(f, cview) ==
  LET i == IF HasChild(f) /\ Position(f.parent.node, f.child) > 0
           THEN Position(f.parent.node, f.child) - 1 ELSE 0 IN
  [f EXCEPT !.pc = "find", !.cview = cview, !.idx = i,
            !.cursor = index_pid(f.parent.node, i)]

NotMergeable(f) ==
  \/ f.parent.node.kind # "index"
  \/ ~HasChild(f)
  \/ Position(f.parent.node, f.child) = 0

cap_view(t) ==
  LET f == Top(t)
      n == page[f.child] IN
  /\ In(t, "cap") /\ n.mchild = 0
  /\ \/ /\ n.kind = "free"
        /\ Goto(t, Leave(th[t]))
        /\ UNCHANGED failed
     \/ /\ n.kind # "free" /\ n.merging
        /\ Goto(t, With(th[t], Capped(f, View(f.child))))
        /\ failed' = (failed \/ NotMergeable(f))
     \/ /\ n.kind # "free" /\ ~n.merging
        /\ Goto(t, With(th[t], [f EXCEPT !.pc = "capping",
                                         !.cview = View(f.child)]))
        /\ UNCHANGED failed
  /\ UNCHANGED <<page, root, meta, limbo, ret, seen, calls, crashes>>

\* Link::ChildMergeCap.
cap_merging_child(t) ==
  LET f == Top(t)
      v == f.cview
      capped == [v.node EXCEPT !.merging = TRUE] IN
  /\ In(t, "capping")
  /\ \/ /\ v.fresh
        /\ page' = [page EXCEPT ![f.child] = capped]
        /\ Swap(t, f.child,
                With(Stale(th[t], f.child),
                     Capped(f, [v EXCEPT !.node = capped])))
        /\ failed' = (failed \/ NotMergeable(f))
     \/ /\ ~v.fresh
        /\ IF page[f.child].kind = "free" THEN Goto(t, Leave(th[t]))
           ELSE Goto(t, With(th[t], [f EXCEPT !.pc = "cap", !.cview = NoView]))
        /\ UNCHANGED <<page, failed>>
  /\ UNCHANGED <<root, meta, limbo, ret, seen, calls, crashes>>

\* Along the siblings to the page whose next is the child.
find_left(t) ==
  LET f == Top(t)
      n == page[f.cursor] IN
  /\ In(t, "find") /\ n.mchild = 0
  /\ \/ /\ n.kind = "free"
        /\ IF f.idx = 0 THEN Goto(t, Leave(th[t]))
           ELSE Goto(t, With(th[t],
                  [f EXCEPT !.idx = @ - 1,
                            !.cursor = index_pid(f.parent.node, f.idx - 1)]))
     \/ /\ n.kind # "free" /\ n.next = f.child
        /\ Goto(t, With(th[t], [f EXCEPT !.pc = "absorb",
                                         !.left = View(f.cursor)]))
     \/ /\ n.kind # "free" /\ n.next # f.child
        /\ IF (n.hi # Inf /\ n.hi >= f.cview.node.lo) \/ n.next = 0
           THEN Goto(t, With(th[t], [f EXCEPT !.pc = "confirm"]))
           ELSE Goto(t, With(th[t], [f EXCEPT !.cursor = n.next]))
  /\ UNCHANGED <<page, root, meta, limbo, ret, seen, calls, crashes, failed>>

\* The left sibling is replaced by itself and the child.
absorb(t) ==
  LET f == Top(t)
      v == f.left IN
  /\ In(t, "absorb")
  /\ \/ /\ v.fresh
        /\ page' = [page EXCEPT ![v.pid] = receive_merge(v.node, f.cview.node)]
        /\ Swap(t, v.pid,
                With(Stale(th[t], v.pid),
                     [f EXCEPT !.pc = "confirm", !.left = NoView]))
        /\ failed' = \/ failed
                     \/ v.node.hi # f.cview.node.lo
                     \/ v.node.kind # f.cview.node.kind
                     \/ v.node.merging
     \/ /\ ~v.fresh
        /\ IF page[v.pid].kind = "free" THEN Goto(t, Leave(th[t]))
           ELSE Goto(t, With(th[t], [f EXCEPT !.pc = "find",
                                              !.left = NoView]))
        /\ UNCHANGED <<page, failed>>
  /\ UNCHANGED <<root, meta, limbo, ret, seen, calls, crashes>>

\* Link::ParentMergeConfirm.
install_parent_merge(t) ==
  LET f == Top(t)
      v == f.parent IN
  /\ In(t, "confirm")
  /\ \/ /\ v.fresh
        /\ page' = [page EXCEPT ![v.pid] = ParentMergeConfirm(v.node)]
        /\ Swap(t, v.pid,
                With(Stale(th[t], v.pid), [f EXCEPT !.pc = "free"]))
        /\ failed' = (failed \/ v.node.merging)
     \/ /\ ~v.fresh
        /\ IF page[v.pid].kind = "free" THEN Goto(t, Leave(th[t]))
           ELSE Goto(t, With(th[t], [f EXCEPT !.pc = "again"]))
        /\ UNCHANGED <<page, failed>>
  /\ UNCHANGED <<root, meta, limbo, ret, seen, calls, crashes>>

\* A parent that was viewed again has no merging child left to confirm.
confirm_again(t) ==
  /\ In(t, "again") /\ page[Top(t).parent.pid].mchild = 0
  /\ Goto(t, Leave(th[t]))
  /\ UNCHANGED <<page, root, meta, limbo, ret, seen, calls, crashes, failed>>

\* The thread that confirmed the merge frees the child.
free_child(t) ==
  LET f == Top(t) IN
  /\ In(t, "free")
  /\ \/ /\ f.cview.fresh
        /\ FreePage(f.child)
        /\ Swap(t, f.child, Stale(Leave(th[t]), f.child))
        /\ UNCHANGED failed
     \/ /\ ~f.cview.fresh
        /\ failed' = (failed \/ page[f.child].kind # "free")
        /\ Goto(t, Leave(th[t]))
        /\ UNCHANGED <<page, limbo>>
  /\ UNCHANGED <<root, meta, ret, seen, calls, crashes>>

-----------------------------------------------------------------------------
(* The process ends and starts again with the pages that the log has.      *)
crash ==
  /\ crashes < MaxCrashes
  /\ crashes' = crashes + 1
  /\ th' = [t \in Threads |-> Idle]
  /\ ret' = [t \in Threads |-> << >>]
  /\ seen' = [t \in Threads |-> {}]
  /\ limbo' = [p \in Pids |-> {}]
  /\ root' = meta
  /\ UNCHANGED <<page, meta, calls, failed>>

\* A tree that open_tree and splits have built: the leaves, the indexes over
\* them unless there is only the root, and the root.
Nth(S, i) == CHOOSE k \in S : Cardinality({j \in S : j < k}) = i
Rank(S, k) == Cardinality({j \in S : j < k})
FirstHi(S, i) == IF i + 1 = Cardinality(S) THEN Inf ELSE Nth(S, i + 1)
LeafPids == Cardinality(Separators)
FirstRoot == LeafPids + Cardinality(Uppers) + 1

FirstLevel(kind, S, p, i, kids) ==
  Node(kind, Nth(S, i), FirstHi(S, i),
       IF i + 1 = Cardinality(S) THEN 0 ELSE p + 1,
       [k \in {j \in DOMAIN kids : Nth(S, i) <= j /\ j < FirstHi(S, i)} |->
          kids[k]], 0)

FirstPage(p) ==
  LET leaves == [k \in Separators |-> Rank(Separators, k) + 1]
      uppers == [k \in Uppers |-> LeafPids + Rank(Uppers, k) + 1] IN
  IF p <= LeafPids
  THEN FirstLevel("leaf", Separators, p, p - 1, [k \in FirstKeys |-> 1])
  ELSE IF p < FirstRoot
  THEN FirstLevel("index", Uppers, p, p - LeafPids - 1, leaves)
  ELSE IF p = FirstRoot
  THEN Node("index", 0, Inf, 0, IF Uppers = {} THEN leaves ELSE uppers, 0)
  ELSE Free

Init ==
  /\ page = [p \in Pids |-> FirstPage(p)]
  /\ root = FirstRoot /\ meta = FirstRoot
  /\ limbo = [p \in Pids |-> {}]
  /\ th = [t \in Threads |-> Idle]
  /\ ret = [t \in Threads |-> << >>]
  /\ seen = [t \in Threads |-> {}]
  /\ calls = [t \in Threads |-> 0]
  /\ crashes = 0
  /\ failed = FALSE

Step(t) ==
  \/ link(t) \/ load(t) \/ retry(t) \/ help(t) \/ find_large(t)
  \/ undershoot(t) \/ find(t) \/ coop_split(t) \/ proceed(t) \/ intend(t)
  \/ split_node(t) \/ split_parent(t) \/ root_hoist(t) \/ swing(t)
  \/ help_more(t) \/ cap_view(t) \/ cap_merging_child(t) \/ find_left(t)
  \/ absorb(t) \/ install_parent_merge(t) \/ confirm_again(t)
  \/ free_child(t) \/ return(t)

Next == crash \/ \E t \in Threads : begin(t) \/ Step(t)

Spec == Init /\ [][Next]_vars

\* One thread keeps running, the others may stop anywhere.
FairSpec == Spec /\ WF_vars(Step(CHOOSE t \in Threads : TRUE))

-----------------------------------------------------------------------------

\* TypeOK: nodes cover non-empty ranges of keys and hold children within them;
\* threads hold the views that the loops of tree.rs can hold.
TypeOK ==
  /\ \A p \in Pids : /\ page[p].kind \in {"leaf", "index", "free"}
                     /\ page[p].lo < page[p].hi
                     /\ \A k \in DOMAIN page[p].kids :
                          page[p].lo <= k /\ k < page[p].hi
  /\ root \in Pids /\ meta \in Pids
  /\ \A t \in Threads : seen[t] \subseteq 0..MaxVal

\* The Tree is an atomic map: every call takes effect at one instant while it
\* is open, or answers with a value its key had while it was open; splits and
\* merges change nothing; a crash loses no finished write.
AM == INSTANCE AtomicMap WITH map <- Contents, call <- [t \in Threads |-> th[t].op]
AtomicMapSpec == AM!Spec

\* None of the assertions, unwraps and panics of view_for_key, merge_node,
\* receive_merge and Node::apply is reached.
NoFailure == ~failed

\* What an index says is where its child is: no entry of an index in use
\* points to a freed page or to one that starts at another key.
IndexIsRight ==
  \A p \in Pids : (page[p].kind = "index" /\ ~page[p].merging) =>
    \A k \in DOMAIN page[p].kids :
      LET c == page[page[p].kids[k]] IN c.kind # "free" /\ c.lo = k

RECURSIVE Level(_)
Level(pid) == {pid} \cup
              (IF page[pid].next = 0 THEN {} ELSE Level(page[pid].next))
RECURSIVE Below(_)
Below(pid) == Level(pid) \cup
              (IF page[pid].kind = "index" THEN Below(page[pid].kids[0]) ELSE {})

\* With no call open and no crash behind, every page that is not free is in
\* the tree: help and lost races leave no page behind.
NoOrphan ==
  (Active = {} /\ crashes = 0) =>
    {p \in Pids : page[p] # Free} = Below(meta)

\* A call of a thread that keeps running returns, wherever other threads have
\* stopped for ever in the middle of their splits and merges.
RunningReturns ==
  LET t == CHOOSE t \in Threads : TRUE IN (th[t].op # Nothing) ~> (th[t].op = Nothing)
=============================================================================
