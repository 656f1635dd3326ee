----------------------------- MODULE TreeIter -----------------------------
(* The double-ended iterator of src/iter.rs, with range, scan_prefix,      *)
(* pop_min and pop_max of src/tree.rs, over a tree that others write,      *)
(* split and merge between any two of its steps.  The tree is what the     *)
(* module Tree shows it to be for view_for_key: a map, and leaves that     *)
(* part the keys.  A key is a sequence of bytes; the byte MaxByte stands for  *)
(* 255 and Pad for the four bytes that possible_predecessor appends.       *)
EXTENDS Naturals, Sequences, FiniteSets, SequencesExt

CONSTANTS
  Keys,        \* the keys in use, the empty one among them
  MaxByte,        \* the highest byte
  Pad,         \* bytes of value MaxByte appended by possible_predecessor
  MaxVal,      \* the values are 1..MaxVal, 0 the missing value
  MaxLoops,    \* MAX_LOOPS
  MaxChanges,  \* bound: writes, splits and merges by others
  MaxCalls,    \* bound: calls of next and next_back
  Uses         \* "range", "prefix", "pop_min", "pop_max": what is called

VARIABLES
  map,      \* key -> value
  seps,     \* the lo keys of the leaves
  it,       \* the iterator and the registers of the call in progress
  outF,     \* keys returned by next
  outB,     \* keys returned by next_back
  wanted,   \* history: the keys that the iterator is to range over
  always,   \* history: keys in the map at all times since it was made
  ever,     \* history: pairs in the map at some time since it was made
  ended,    \* a call has answered that nothing is left
  changes, calls, failed

vars == <<map, seps, it, outF, outB, wanted, always, ever, ended, changes,
          calls, failed>>
others == <<map, seps, wanted, always, ever, changes>>

-----------------------------------------------------------------------------
(* Keys, leaves and bounds                                                 *)

Less(a, b) ==
  \/ IsStrictPrefix(a, b)
  \/ \E i \in DOMAIN a \cap DOMAIN b :
       a[i] < b[i] /\ \A j \in 1..(i - 1) : a[j] = b[j]
Leq(a, b) == a = b \/ Less(a, b)

MinKey(S) == CHOOSE k \in S : \A j \in S : Leq(k, j)
MaxKey(S) == CHOOSE k \in S : \A j \in S : Leq(j, k)

Present == {k \in Keys : map[k] # 0}

NoKey == << >>   \* as the hi key of a node: there is none

\* The leaf that view_for_key finds.
view_for_key(key) ==
  LET lo == MaxKey({s \in seps : Leq(s, key)})
      above == {s \in seps : Less(lo, s)}
      hi == IF above = {} THEN NoKey ELSE MinKey(above) IN
  [lo |-> lo, hi |-> hi,
   items |-> [k \in {j \in Present : Leq(lo, j) /\ (hi = NoKey \/ Less(j, hi))}
                |-> map[k]]]

\* A key below k, and above every other key below k that is short enough.
possible_predecessor(k) ==
  LET i == k[Len(k)] IN
  IF i = 0 THEN Front(k)
  ELSE Append(Front(k), i - 1) \o [j \in 1..Pad |-> MaxByte]

Included(k) == [kind |-> "included", key |-> k]
Excluded(k) == [kind |-> "excluded", key |-> k]
Unbounded == [kind |-> "unbounded", key |-> << >>]

AboveLo(k, lo) == lo.kind = "unbounded" \/ Less(lo.key, k) \/ (lo.kind = "included" /\ lo.key = k)
BelowHi(k, hi) == \/ hi.kind = "unbounded" \/ Less(k, hi.key)
                  \/ hi.kind = "included" /\ hi.key = k

\* The match on the other bound before an item is returned.
Within(k, lo, hi) == AboveLo(k, lo) /\ BelowHi(k, hi)

\* Mutant: the bound stays at the item that was returned.
TakenAgain(k) == Included(k)

\* The bound behind an item that was returned.
Taken(k) == Excluded(k)

bounds_collapsed(lo, hi) == hi.kind # "unbounded" /\ Less(hi.key, lo.key)

contains_upper_bound(n, b) ==
  \/ n.hi = NoKey
  \/ b.kind = "excluded" /\ Leq(b.key, n.hi)
  \/ b.kind = "included" /\ Less(b.key, n.hi)

contains_lower_bound(n, b, forward) ==
  \/ b.kind = "excluded" /\ (Less(n.lo, b.key) \/ (forward /\ b.key = n.lo))
  \/ b.kind = "included" /\ Leq(n.lo, b.key)
  \/ IF b.kind = "unbounded" /\ ~forward THEN n.hi = NoKey ELSE n.lo = << >>

\* The items of a leaf within a bound: successor takes the first of them,
\* predecessor the last.
Successors(n, lo) == {k \in DOMAIN n.items : AboveLo(k, lo)}
Predecessors(n, hi) == {k \in DOMAIN n.items : BelowHi(k, hi)}

\* The assertion of prefix_encode on the bound that the leaf is searched for.
prefix_encode(n, b) ==
  b.kind = "included" => Leq(n.lo, b.key) /\ (n.hi = NoKey \/ Less(b.key, n.hi))

low_key(i) == i.lo.key
high_key(i) == IF i.hi.kind = "unbounded" THEN MaxKey(Keys) ELSE i.hi.key

-----------------------------------------------------------------------------
(* The tree changes                                                        *)

write ==
  /\ changes < MaxChanges
  /\ \E k \in Keys, v \in 0..MaxVal :
       /\ v # map[k]
       /\ map' = [map EXCEPT ![k] = v]
       /\ always' = IF v = 0 THEN always \ {k} ELSE always
       /\ ever' = IF v = 0 \/ it.use = "none" THEN ever ELSE ever \cup {<<k, v>>}
  /\ changes' = changes + 1
  /\ UNCHANGED <<seps, it, outF, outB, wanted, ended, calls, failed>>

split_or_merge ==
  /\ changes < MaxChanges
  /\ \E s \in Keys \ {<< >>} :
       seps' = IF s \in seps THEN seps \ {s} ELSE seps \cup {s}
  /\ changes' = changes + 1
  /\ UNCHANGED <<map, it, outF, outB, wanted, always, ever, ended, calls, failed>>

-----------------------------------------------------------------------------
(* The iterator                                                            *)

NoNode == [lo |-> << >>, hi |-> NoKey, items |-> << >>]

\* What Tree::range builds, before a call.
Iter(use, lo, hi) ==
  [use |-> use, pc |-> "idle", lo |-> lo, hi |-> hi, node |-> NoNode,
   cached |-> FALSE, forward |-> TRUE, back |-> FALSE, key |-> << >>,
   loops |-> 0, pair |-> << >>]

NoIter == [Iter("none", Unbounded, Unbounded) EXCEPT !.pc = "none"]

Create(i, keys) ==
  /\ it' = i
  /\ wanted' = keys
  /\ always' = Present
  /\ ever' = {<<k, map[k]>> : k \in Present}
  /\ UNCHANGED <<map, seps, outF, outB, ended, changes, calls, failed>>

Bounded(lo, hi) == {k \in Keys : AboveLo(k, lo) /\ BelowHi(k, hi)}

\* A missing lower bound becomes the empty key, included.
LowerBound(b) == IF b = Unbounded THEN Included(<< >>) ELSE b

range ==
  /\ it = NoIter /\ "range" \in Uses
  /\ LET bounds == {Included(k) : k \in Keys} \cup {Excluded(k) : k \in Keys}
                     \cup {Unbounded} IN
     \E lo, hi \in bounds :
       Create(Iter("range", LowerBound(lo), hi), Bounded(lo, hi))

\* The least key above all that start with the prefix: the last byte that
\* can grow grows, and those after it are cut.
UpperBound(p) ==
  LET grow == {i \in DOMAIN p : p[i] < MaxByte} IN
  IF grow = {} THEN Unbounded
  ELSE LET i == CHOOSE i \in grow : \A j \in grow : j <= i IN
       Excluded(Append(SubSeq(p, 1, i - 1), p[i] + 1))

scan_prefix ==
  /\ it = NoIter /\ "prefix" \in Uses
  /\ \E p \in Keys : Create(Iter("prefix", Included(p), UpperBound(p)),
                            {k \in Keys : IsPrefix(p, k)})

\* pop_min and pop_max begin with the first item of a new iterator.
pop ==
  /\ it = NoIter
  /\ \E use \in Uses \cap {"pop_min", "pop_max"} :
       Create(Iter(use, Included(<< >>), Unbounded), Keys)

\* A call uses the leaf that the last one left if it went the same way.
Enter(i, back) ==
  LET key == IF back THEN high_key(i) ELSE low_key(i)
      use == i.cached /\ i.forward = ~back IN
  [i EXCEPT !.pc = IF use THEN "round" ELSE "seek", !.back = back,
            !.key = IF use THEN << >> ELSE key, !.loops = 0,
            !.cached = FALSE, !.node = IF use THEN i.node ELSE NoNode]

call ==
  /\ it.pc = "idle" /\ calls < MaxCalls /\ ~ended
  /\ \E back \in BOOLEAN :
       /\ it.use = "pop_min" => ~back
       /\ it.use = "pop_max" => back
       /\ it' = Enter(it, back)
  /\ calls' = calls + 1
  /\ UNCHANGED <<others, outF, outB, ended, failed>>

seek ==
  /\ it.pc = "seek"
  /\ it' = [it EXCEPT !.pc = "round", !.node = view_for_key(it.key),
                      !.key = << >>]
  /\ UNCHANGED <<others, outF, outB, ended, calls, failed>>

Seek(key) ==
  /\ it' = [it EXCEPT !.pc = "seek", !.key = key, !.loops = @ + 1,
                      !.node = NoNode]
  /\ UNCHANGED <<outF, outB, ended>>

End(i) ==
  /\ it' = [i EXCEPT !.pc = "idle", !.loops = 0,
                     !.node = IF i.cached THEN @ ELSE NoNode]
  /\ ended' = TRUE
  /\ UNCHANGED <<outF, outB>>

Yield(i, k) ==
  /\ it' = [i EXCEPT !.pc = IF i.use \in {"pop_min", "pop_max"} THEN "cas"
                            ELSE "idle",
                     !.pair = <<k, i.node.items[k]>>, !.loops = 0]
  /\ outF' = IF i.back THEN outF ELSE outF \cup {k}
  /\ outB' = IF i.back THEN outB \cup {k} ELSE outB
  /\ UNCHANGED ended

\* One round of the loop of next_inner.
next_inner ==
  LET n == it.node
      after == Successors(n, it.lo)
      k == MinKey(after)
      past == [it EXCEPT !.lo = Taken(k), !.cached = TRUE,
                         !.forward = TRUE] IN
  /\ it.pc = "round" /\ ~it.back
  /\ IF bounds_collapsed(it.lo, it.hi) THEN End(it)
     ELSE IF ~contains_upper_bound(n, it.lo) THEN Seek(low_key(it))
     ELSE IF ~contains_lower_bound(n, it.lo, TRUE)
     THEN IF n.lo = << >> THEN End(it) ELSE Seek(possible_predecessor(n.lo))
     ELSE IF after # {}
     THEN IF Within(k, it.lo, it.hi) THEN Yield(past, k) ELSE End(past)
     ELSE IF n.hi # NoKey
     THEN /\ it' = [it EXCEPT !.lo = Included(n.hi), !.loops = @ + 1]
          /\ UNCHANGED <<outF, outB, ended>>
     ELSE End(it)
  /\ failed' = \/ failed \/ it.loops >= MaxLoops
               \/ /\ contains_upper_bound(n, it.lo)
                  /\ contains_lower_bound(n, it.lo, TRUE)
                  /\ ~prefix_encode(n, Included(MaxKey({it.lo.key, n.lo})))
  /\ UNCHANGED <<others, calls>>

\* Mutant: an exhausted leaf moves the bound below its first key, not to it.
next_backSkips ==
  LET n == it.node
      before == Predecessors(n, it.hi)
      k == MaxKey(before)
      past == [it EXCEPT !.hi = Taken(k), !.cached = TRUE,
                         !.forward = FALSE] IN
  /\ it.pc = "round" /\ it.back
  /\ IF bounds_collapsed(it.lo, it.hi) THEN End(it)
     ELSE IF ~contains_upper_bound(n, it.hi) THEN Seek(high_key(it))
     ELSE IF ~contains_lower_bound(n, it.hi, FALSE)
     THEN IF n.lo = << >> THEN End(it) ELSE Seek(possible_predecessor(n.lo))
     ELSE IF before # {}
     THEN IF Within(k, it.lo, it.hi) THEN Yield(past, k) ELSE End(past)
     ELSE IF n.lo = << >> THEN End(it)
     ELSE /\ it' = [it EXCEPT !.hi = Excluded(possible_predecessor(n.lo)),
                              !.loops = @ + 1]
          /\ UNCHANGED <<outF, outB, ended>>
  /\ failed' = (failed \/ it.loops >= MaxLoops)
  /\ UNCHANGED <<others, calls>>

\* One round of the loop of next_back.
next_back ==
  LET n == it.node
      before == Predecessors(n, it.hi)
      k == MaxKey(before)
      past == [it EXCEPT !.hi = Taken(k), !.cached = TRUE,
                         !.forward = FALSE] IN
  /\ it.pc = "round" /\ it.back
  /\ IF bounds_collapsed(it.lo, it.hi) THEN End(it)
     ELSE IF ~contains_upper_bound(n, it.hi) THEN Seek(high_key(it))
     ELSE IF ~contains_lower_bound(n, it.hi, FALSE)
     THEN IF n.lo = << >> THEN End(it) ELSE Seek(possible_predecessor(n.lo))
     ELSE IF before # {}
     THEN IF Within(k, it.lo, it.hi) THEN Yield(past, k) ELSE End(past)
     ELSE IF n.lo = << >> THEN End(it)
     ELSE /\ it' = [it EXCEPT !.hi = Excluded(n.lo), !.loops = @ + 1]
          /\ UNCHANGED <<outF, outB, ended>>
  /\ failed' = \/ failed \/ it.loops >= MaxLoops
               \/ /\ contains_upper_bound(n, it.hi)
                  /\ contains_lower_bound(n, it.hi, FALSE)
                  /\ ~prefix_encode(n, it.hi)
  /\ UNCHANGED <<others, calls>>

\* The swap of pop_min and pop_max: the item is taken or all starts again.
pop_cas ==
  /\ it.pc = "cas"
  /\ IF map[it.pair[1]] = it.pair[2]
     THEN /\ map' = [map EXCEPT ![it.pair[1]] = 0]
          /\ it' = [it EXCEPT !.pc = "popped"]
          /\ UNCHANGED <<wanted, always, ever>>
     ELSE /\ it' = Iter(it.use, Included(<< >>), Unbounded)
          /\ wanted' = Keys
          /\ always' = Present
          /\ ever' = {<<k, map[k]>> : k \in Present}
          /\ UNCHANGED map
  /\ outF' = {} /\ outB' = {}
  /\ UNCHANGED <<seps, ended, changes, calls, failed>>

-----------------------------------------------------------------------------
Init ==
  /\ map \in [Keys -> 0..1]
  /\ seps \in {{<< >>} \cup S : S \in SUBSET Keys}
  /\ it = NoIter
  /\ outF = {} /\ outB = {} /\ wanted = {} /\ always = {} /\ ever = {}
  /\ ended = FALSE /\ changes = 0 /\ calls = 0 /\ failed = FALSE

Next == \/ write \/ split_or_merge
        \/ range \/ scan_prefix \/ pop
        \/ call \/ seek \/ next_inner \/ next_back \/ pop_cas

Spec == Init /\ [][Next]_vars

-----------------------------------------------------------------------------

\* TypeOK: the leaves start at the lowest key, and the iterator holds what the
\* fields of Iter can hold.
TypeOK ==
  /\ << >> \in seps /\ seps \subseteq Keys
  /\ it.pc \in {"none", "idle", "seek", "round", "cas", "popped"}
  /\ it.lo.kind # "unbounded" \/ it.use = "none"
  /\ outF \cup outB \subseteq Keys

\* When a call answers that nothing is left, every key of the range that was
\* in the tree all the time has been returned, whatever was split, merged or
\* written meanwhile and whichever way the calls went.
NothingSkipped == ended => (always \cap wanted) \subseteq (outF \cup outB)

\* What is returned was in the tree at some time since the iterator was made
\* and is in the range that was asked for.
PairsAreReal ==
  /\ it.pair # << >> => it.pair \in ever
  /\ outF \cup outB \subseteq wanted

\* next goes up, next_back goes down, and they never meet: no key is
\* returned twice.
GoesOn ==
  \A k \in Keys :
    /\ k \in outF' \ outF => \A j \in outF : Less(j, k)
    /\ k \in outB' \ outB => \A j \in outB : Less(k, j)
    /\ k \in (outF' \ outF) \cup (outB' \ outB) =>
         \A f \in outF', b \in outB' : Less(f, b)
InOrder == [][GoesOn]_vars

\* Neither the panic after MAX_LOOPS rounds of next_inner or next_back nor
\* the assertions of prefix_encode are reached: every call finds a leaf to go
\* on with, and never looks for a bound in a leaf that does not have it.
NoFailure == ~failed

\* pop_min takes a key below which no key has been all the time since it
\* looked, and pop_max one above which there is none.
PopIsOutermost ==
  it.pc = "popped" =>
    \A k \in always : IF it.use = "pop_min" THEN Leq(it.pair[1], k)
                      ELSE Leq(k, it.pair[1])

\* "Atomically removes the maximum item", and the minimum: when the item is
\* removed, no item is beyond it.
PopIsAtomic ==
  [][(it'.pc = "popped" /\ it.pc = "cas") =>
       \A k \in Present : IF it.use = "pop_min" THEN Leq(it.pair[1], k)
                          ELSE Leq(k, it.pair[1])]_vars
=============================================================================
