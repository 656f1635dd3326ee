---------------------------- MODULE NodeLayout ----------------------------
(* How src/node.rs lays out the items of a node in one buffer, and what    *)
(* its operations do to that buffer: Node::new with its four layouts, the  *)
(* patching of a neighbouring node by stitch, the replacement in place,    *)
(* split with its truncated split key and its prefixes, and receive_merge. *)
(* The state is a row of neighbouring nodes, and beside it the map that    *)
(* they are to hold.  A byte is a number below Base, so that small nodes   *)
(* reach the widths of offsets and of varints; src/varint.rs has Base 256, *)
(* Direct 240 and Leads 8.                                                 *)
EXTENDS Integers, Sequences, FiniteSets, SequencesExt

CONSTANTS
  Base,        \* values of a byte
  Direct,      \* the highest length that a varint holds in one byte
  Leads,       \* first bytes that announce a varint of two bytes
  Word,        \* size_of::<u64>() and size_of::<usize>()
  HeaderSize,  \* size_of::<Header>()
  MaxPrefix,   \* std::u8::MAX
  SplitAbove,  \* a node of more children is split
  MergeBelow,  \* a node of fewer children is merged with its left sibling
  IsIndex,     \* the row is one of index nodes
  Keys, Values \* bound: the keys and values in use, sequences of bytes

VARIABLES
  nodes,  \* the row of nodes
  map     \* the items written and not removed, as a function

vars == <<nodes, map>>

-----------------------------------------------------------------------------
(* varint.rs, for lengths of up to three bytes                             *)

Lead3 == Direct + Leads + 1
Two == Direct + Leads * Base

size(int) == IF int <= Direct THEN 1 ELSE IF int < Two THEN 2 ELSE 3

serialize_into(int) ==
  LET pair(n, lead) == <<n \div Base + lead, n % Base>> IN
  CASE int <= Direct -> <<int>>
    [] int > Direct /\ int < Two -> pair(int - Direct, Direct + 1)
    [] int >= Two -> <<Lead3>> \o pair(int - Two, 0)

-----------------------------------------------------------------------------
(* The buffer of a node behind its header and its lo and hi keys           *)

\* A slice beyond the end of the buffer panics; ok records that none did.
write(nd, at, bytes) ==
  [nd EXCEPT !.ok = @ /\ at + Len(bytes) <= Len(nd.data),
             !.data = [p \in DOMAIN @ |-> IF p - at \in DOMAIN bytes
                                            THEN bytes[p - at] ELSE @[p]]]

read(nd, at, len) ==
  [p \in 1..len |-> IF at + p \in DOMAIN nd.data THEN nd.data[at + p] ELSE 0]

deserialize(nd, at) ==
  LET b == read(nd, at, 3) IN
  CASE b[1] <= Direct -> [int |-> b[1], size |-> 1]
    [] b[1] > Direct /\ b[1] < Lead3 ->
         [int |-> Direct + Base * (b[1] - Direct - 1) + b[2], size |-> 2]
    [] b[1] >= Lead3 -> [int |-> Two + Base * b[2] + b[3], size |-> 3]

\* offset reads a whole word and masks off what is not of the offset.
offset(nd, i) ==
  LET b == read(nd, i * nd.offset_bytes, nd.offset_bytes)
      sum[j \in 0..nd.offset_bytes] ==
        IF j = 0 THEN 0 ELSE sum[j - 1] + b[j] * Base^(j - 1) IN
  sum[nd.offset_bytes]

set_offset(nd, i, to) ==
  write(nd, i * nd.offset_bytes,
        [j \in 1..nd.offset_bytes |-> (to \div Base^(j - 1)) % Base])

keys_start(nd) == nd.children * nd.offset_bytes

key_buf_for_offset(nd, i) ==
  keys_start(nd) + IF nd.fixed_key > 0 THEN i * nd.fixed_key ELSE offset(nd, i)

values_start(nd) ==
  IF nd.fixed_value > 0 THEN Len(nd.data) - nd.fixed_value * nd.children
  ELSE keys_start(nd) + nd.fixed_key * nd.children

value_buf_for_offset(nd, i) ==
  LET at == values_start(nd)
         + IF nd.fixed_value > 0 THEN i * nd.fixed_value ELSE offset(nd, i)
      key == deserialize(nd, at) IN
  IF nd.fixed_key > 0 \/ nd.fixed_value > 0 THEN at
  ELSE at + key.int + key.size

stored(nd, at, fixed) ==
  LET len == deserialize(nd, at) IN
  IF fixed > 0 THEN read(nd, at, fixed) ELSE read(nd, at + len.size, len.int)

index_key(nd, i) == stored(nd, key_buf_for_offset(nd, i), nd.fixed_key)
index_value(nd, i) == stored(nd, value_buf_for_offset(nd, i), nd.fixed_value)

item_at(nd, i) == <<index_key(nd, i), index_value(nd, i)>>
iter(nd) == [i \in 1..nd.children |-> item_at(nd, i - 1)]

\* What a key or a value takes in the buffer.
bytes_of(s, fixed) == (IF fixed > 0 THEN << >> ELSE serialize_into(Len(s))) \o s

put_key(nd, i, k) ==
  write(nd, key_buf_for_offset(nd, i), bytes_of(k, nd.fixed_key))
put_value(nd, i, v) ==
  write(nd, value_buf_for_offset(nd, i), bytes_of(v, nd.fixed_value))

-----------------------------------------------------------------------------
(* Node::new                                                               *)

\* The length that all of a sequence of strings have, if it is not zero.
fixed_length(seq) ==
  IF seq # << >> /\ \A i \in DOMAIN seq : Len(seq[i]) = Len(seq[1])
    THEN Len(seq[1]) ELSE 0

offset_width(sz) == CHOOSE w \in 1..6 :
  sz < Base^w /\ \A x \in 1..(w - 1) : sz >= Base^x

storage(seq, fixed) ==
  LET sum[i \in 0..Len(seq)] ==
        IF i = 0 THEN 0 ELSE sum[i - 1] + Len(bytes_of(seq[i], fixed)) IN
  sum[Len(seq)]

\* Bytes between the offset of an item and that of the next.
span(nd, item) ==
    (IF nd.fixed_key > 0 THEN 0 ELSE size(Len(item[1])) + Len(item[1]))
  + (IF nd.fixed_value > 0 THEN 0 ELSE size(Len(item[2])) + Len(item[2]))

value_storage(values, fixed) ==
  LET sum == storage(values, fixed) IN IF sum < Word THEN Word ELSE sum

new(lo, hi, prefix_len, items) ==
  LET n == Len(items)
      ks == [i \in 1..n |-> items[i][1]]
      vs == [i \in 1..n |-> items[i][2]]
      fk == fixed_length(ks)
      fv == fixed_length(vs)
      ksz == storage(ks, fk)
      vsz == value_storage(vs, fv)
      ob == IF fk > 0 /\ fv > 0 THEN 0 ELSE offset_width(ksz + vsz + 6 * n)
      empty == [lo |-> lo, hi |-> hi, prefix_len |-> prefix_len,
                fixed_key |-> fk, fixed_value |-> fv, offset_bytes |-> ob,
                children |-> n, sketch |-> {}, probation |-> 0,
                data |-> [p \in 1..(n * ob + ksz + vsz) |-> 0], ok |-> TRUE]
      at[i \in 1..n] == IF i = 1 THEN 0 ELSE at[i - 1] + span(empty, items[i - 1])
      put(nd, i) ==
        LET placed == IF ob = 0 THEN nd ELSE set_offset(nd, i - 1, at[i]) IN
        put_value(put_key(placed, i - 1, ks[i]), i - 1, vs[i])
      filled[i \in 0..n] == IF i = 0 THEN empty ELSE put(filled[i - 1], i) IN
  filled[n]

-----------------------------------------------------------------------------
(* stitch: a copy of a node with an item added, replaced or removed        *)

len(nd) == HeaderSize + Len(nd.lo) + Len(nd.hi) + Len(nd.data)
item_size(nd, item) ==
  nd.offset_bytes + Len(bytes_of(item[1], nd.fixed_key))
                  + Len(bytes_of(item[2], nd.fixed_value))

take_slow_path(nd, item) ==
  \/ offset_width(len(nd) + size(Len(item[1])) + Len(item[1])
                          + size(Len(item[2])) + Len(item[2]) + 6)
       > nd.offset_bytes
  \/ nd.fixed_key > 0 /\ nd.fixed_key # Len(item[1])
  \/ nd.fixed_value > 0 /\ nd.fixed_value # Len(item[2])

activity_sketch(nd, i) ==
  nd.sketch \cup {IF i = nd.children THEN 7 ELSE (i * 8) \div nd.children}

stitch_slow(nd, i, item, replace) ==
  LET items == iter(nd)
      skip == IF replace THEN i + 2 ELSE i + 1
      ret == new(nd.lo, nd.hi, nd.prefix_len,
                 SubSeq(items, 1, i) \o <<item>>
                                     \o SubSeq(items, skip, nd.children)) IN
  IF ret.children > 1 THEN [ret EXCEPT !.sketch = activity_sketch(nd, i)]
                      ELSE ret

\* Mutant: the offsets behind a removed item stay where they were.
stitch_offsetsUnshifted(ret, nd, i, old, item) ==
  LET kept == write(ret, 0, read(nd, 0, i * nd.offset_bytes))
      at == IF i = 0 THEN 0
            ELSE offset(kept, i - 1) + span(nd, item_at(nd, i - 1))
      placed == IF ret.children > 0 THEN set_offset(kept, i, at) ELSE kept
      back == nd.children - ret.children
      shifted[j \in i..(ret.children - 1)] ==
        IF j = i THEN placed
        ELSE set_offset(shifted[j - 1], j, offset(nd, j + back)) IN
  IF ret.offset_bytes = 0 THEN ret
  ELSE IF i < ret.children THEN shifted[ret.children - 1] ELSE placed

\* The offsets: those before i are kept, i follows the item before it, and
\* those behind it are shifted by what the item adds.  If the last item is
\* removed the offset of i lands in the keys, which are written afterwards.
stitch_offsets(ret, nd, i, old, item) ==
  LET shift == (IF item = << >> THEN 0 ELSE span(nd, item[1]))
             - (IF old = << >> THEN 0 ELSE span(nd, old[1]))
      kept == write(ret, 0, read(nd, 0, i * nd.offset_bytes))
      at == IF i = 0 THEN 0
            ELSE offset(kept, i - 1) + span(nd, item_at(nd, i - 1))
      placed == IF ret.children > 0 THEN set_offset(kept, i, at) ELSE kept
      back == nd.children - ret.children
      shifted[j \in i..(ret.children - 1)] ==
        IF j = i THEN placed
        ELSE set_offset(shifted[j - 1], j, offset(nd, j + back) + shift) IN
  IF ret.offset_bytes = 0 THEN ret
  ELSE IF i < ret.children THEN shifted[ret.children - 1] ELSE placed

\* Strings of a fixed length around the new one, if there is one.
spliced(nd, from, fixed, i, string, rest) ==
  read(nd, from, i * fixed) \o string
    \o read(nd, from + (nd.children - rest) * fixed, rest * fixed)

\* Keys of a fixed length are copied as two runs of bytes around the new key,
\* others one by one to where the offsets say; and so are the values.
stitch_keys(ret, nd, i, item, items) ==
  LET key == IF item = << >> THEN << >> ELSE item[1][1]
      rest == ret.children - i - Len(item)
      each[j \in 0..ret.children] ==
        IF j = 0 THEN ret ELSE put_key(each[j - 1], j - 1, items[j][1]) IN
  IF nd.fixed_key = 0 THEN each[ret.children]
  ELSE write(ret, keys_start(ret),
             spliced(nd, keys_start(nd), nd.fixed_key, i, key, rest))

stitch_values(ret, nd, i, item, items) ==
  LET value == IF item = << >> THEN << >> ELSE item[1][2]
      rest == ret.children - i - Len(item)
      each[j \in 0..ret.children] ==
        IF j = 0 THEN ret ELSE put_value(each[j - 1], j - 1, items[j][2]) IN
  IF nd.fixed_value = 0 THEN each[ret.children]
  ELSE write(ret, values_start(ret),
             spliced(nd, values_start(nd), nd.fixed_value, i, value, rest))

\* old and item are sequences of at most one item: the one at i that goes,
\* and the one that comes.
stitch_fast(nd, i, old, item) ==
  LET before == iter(nd)
      items == SubSeq(before, 1, i) \o item
               \o SubSeq(before, i + 1 + Len(old), nd.children)
      grow == (IF item = << >> THEN 0 ELSE item_size(nd, item[1]))
            - (IF old = << >> THEN 0 ELSE item_size(nd, old[1]))
      ret == [nd EXCEPT !.children = Len(items),
                        !.probation = IF @ = 0 THEN 0 ELSE @ - 1,
                        !.data = [p \in 1..(Len(@) + grow) |-> 0]]
      offsets == stitch_offsets(ret, nd, i, old, item) IN
  stitch_values(stitch_keys(offsets, nd, i, item, items), nd, i, item, items)

stitch(nd, i, old, item) ==
  IF item # << >> /\ take_slow_path(nd, item[1])
    THEN stitch_slow(nd, i, item[1], old # << >>)
    ELSE stitch_fast(nd, i, old, item)

-----------------------------------------------------------------------------
(* Lookup, and the operations that links stand for                         *)

Less(a, b) ==
  \/ IsStrictPrefix(a, b)
  \/ \E i \in DOMAIN a \cap DOMAIN b :
       a[i] < b[i] /\ \A j \in 1..(i - 1) : a[j] = b[j]
Leq(a, b) == a = b \/ Less(a, b)

RECURSIVE search(_, _, _, _)
search(nd, key, base, sz) ==
  LET mid == base + sz \div 2 IN
  IF sz <= 1 THEN base
  ELSE search(nd, key, IF Less(key, index_key(nd, mid)) THEN base ELSE mid,
              sz - sz \div 2)

find(nd, key) ==
  LET base == search(nd, key, 0, nd.children)
      at == index_key(nd, base) IN
  IF nd.children = 0 \/ Less(key, index_key(nd, 0))
    THEN [found |-> FALSE, index |-> 0]
    ELSE [found |-> at = key, index |-> IF Less(at, key) THEN base + 1 ELSE base]

insert(nd, key, value) ==
  LET at == find(nd, key) IN
  [stitch(nd, at.index, << >>, <<<<key, value>>>>) EXCEPT !.ok = @ /\ ~at.found]

remove_index(nd, i) == stitch(nd, i, <<item_at(nd, i)>>, << >>)

replace(nd, i, value) ==
  LET old == item_at(nd, i)
      skip == IF nd.fixed_value > 0 THEN 0 ELSE size(Len(value)) IN
  IF Len(old[2]) = Len(value)
    THEN write(nd, value_buf_for_offset(nd, i) + skip, value)
    ELSE stitch(nd, i, <<old>>, <<<<old[1], value>>>>)

-----------------------------------------------------------------------------
(* split and receive_merge                                                 *)

NoKey == << >>   \* as a hi key: there is none

common(a, b) ==
  LET n == IF Len(a) < Len(b) THEN Len(a) ELSE Len(b) IN
  CHOOSE i \in 0..n : /\ \A j \in 1..i : a[j] = b[j]
                      /\ i < n => a[i + 1] # b[i + 1]

drop(s, n) == SubSeq(s, n + 1, Len(s))

prefix_decode(nd, key) == SubSeq(nd.lo, 1, nd.prefix_len) \o key

weighted_split_point(nd) ==
  LET bits == nd.sketch
      weight[b \in 0..8] == IF b = 0 THEN 0
                            ELSE weight[b - 1] + IF b - 1 \in bits THEN b ELSE 0
      at == ((weight[8] \div Cardinality(bits)) * nd.children) \div 8
      low == IF at < nd.children - 1 THEN at ELSE nd.children - 1 IN
  IF bits = {} THEN nd.children \div 2 ELSE IF low < 1 THEN 1 ELSE low

split_key(nd, at) ==
  LET left_max == index_key(nd, at - 1)
      right_min == index_key(nd, at) IN
  prefix_decode(nd, IF IsIndex THEN right_min
                    ELSE SubSeq(right_min, 1, common(left_max, right_min) + 1))

\* Bytes that the keys between a and b share beyond the present prefix.
additional(nd, a, b) ==
  LET shared == common(drop(a, nd.prefix_len), drop(b, nd.prefix_len))
      room == MaxPrefix - nd.prefix_len IN
  IF shared < room THEN shared ELSE room

split(nd) ==
  LET at == weighted_split_point(nd)
      key == split_key(nd, at)
      items == iter(nd)
      left == additional(nd, nd.lo, key)
      right == IF nd.hi = NoKey THEN 0 ELSE additional(nd, key, nd.hi)
      half(from, to, n) ==
        [i \in 1..(to - from + 1) |->
           <<drop(items[from + i - 1][1], n), items[from + i - 1][2]>>]
      lhs == new(nd.lo, key, nd.prefix_len + left, half(1, at, left))
      rhs == new(key, nd.hi, nd.prefix_len + right,
                 half(at + 1, nd.children, right)) IN
  <<lhs, [rhs EXCEPT !.probation = nd.children \div 2]>>

reencoded(nd, n) ==
  [i \in 1..nd.children |->
     <<drop(prefix_decode(nd, index_key(nd, i - 1)), n), index_value(nd, i - 1)>>]

receive_merge(nd, other) ==
  LET n == IF nd.prefix_len < other.prefix_len THEN nd.prefix_len
                                               ELSE other.prefix_len IN
  new(nd.lo, other.hi, n, reencoded(nd, n) \o reencoded(other, n))

-----------------------------------------------------------------------------
(* The row of nodes: what the tree does with it                            *)

covers(nd, key) == Leq(nd.lo, key) /\ (nd.hi = NoKey \/ Less(key, nd.hi))

should_split(nd) == nd.children > SplitAbove
should_merge(nd) == nd.children < MergeBelow /\ nd.probation = 0

\* The new root of an index has one child; a leaf starts without items.
Init ==
  \E v \in Values :
    LET items == IF IsIndex THEN <<<< << >>, v>>>> ELSE << >> IN
    /\ nodes = <<new(<< >>, NoKey, 0, items)>>
    /\ map = [k \in {<< >>} \cap {i[1] : i \in ToSet(items)} |-> v]

\* Link::Set, Link::Replace and Link::Del on the node that view_for_key finds;
\* that splits a node that is too large first.
Set(j, k, v) ==
  /\ covers(nodes[j], k) /\ ~should_split(nodes[j]) /\ k \notin DOMAIN map
  /\ nodes' = [nodes EXCEPT ![j] = insert(@, drop(k, @.prefix_len), v)]
  /\ map' = [x \in DOMAIN map \cup {k} |-> IF x = k THEN v ELSE map[x]]

Replace(j, k, v) ==
  /\ covers(nodes[j], k) /\ ~should_split(nodes[j]) /\ k \in DOMAIN map
  /\ ~IsIndex /\ v # map[k]
  /\ LET at == find(nodes[j], drop(k, nodes[j].prefix_len)) IN
     nodes' = [nodes EXCEPT ![j] =
                 IF at.found THEN replace(@, at.index, v)
                 ELSE [@ EXCEPT !.ok = FALSE]]
  /\ map' = [map EXCEPT ![k] = v]

\* An index loses a child only when it was merged into the one on its left.
Del(j, k) ==
  /\ covers(nodes[j], k) /\ ~should_split(nodes[j]) /\ k \in DOMAIN map
  /\ IsIndex => k # nodes[j].lo
  /\ LET at == find(nodes[j], drop(k, nodes[j].prefix_len)) IN
     nodes' = [nodes EXCEPT ![j] =
                 IF at.found THEN remove_index(@, at.index)
                 ELSE [@ EXCEPT !.ok = FALSE]]
  /\ map' = [x \in DOMAIN map \ {k} |-> map[x]]

split_node(j) ==
  /\ should_split(nodes[j])
  /\ nodes' = SubSeq(nodes, 1, j - 1) \o split(nodes[j])
                                      \o SubSeq(nodes, j + 1, Len(nodes))
  /\ UNCHANGED map

merge_node(j) ==
  /\ j < Len(nodes) /\ should_merge(nodes[j + 1])
  /\ nodes' = SubSeq(nodes, 1, j - 1)
              \o <<receive_merge(nodes[j], nodes[j + 1])>>
              \o SubSeq(nodes, j + 2, Len(nodes))
  /\ UNCHANGED map

Next == \E j \in DOMAIN nodes :
  \/ split_node(j)
  \/ merge_node(j)
  \/ \E k \in Keys : Del(j, k)
  \/ \E k \in Keys, v \in Values : Set(j, k, v) \/ Replace(j, k, v)

Spec == Init /\ [][Next]_vars

-----------------------------------------------------------------------------
(* Properties                                                              *)

\* Headers agree with their buffers, which no slice has overrun.
TypeOK ==
  /\ DOMAIN map \subseteq Keys /\ \A k \in DOMAIN map : map[k] \in Values
  /\ \A j \in DOMAIN nodes : LET nd == nodes[j] IN
       /\ nd.ok
       /\ \A p \in DOMAIN nd.data : nd.data[p] \in 0..(Base - 1)
       /\ nd.prefix_len \in 0..MaxPrefix
       /\ nd.offset_bytes = 0 => nd.fixed_key > 0 /\ nd.fixed_value > 0

Held(nd) == SetToSortSeq({k \in DOMAIN map : covers(nd, k)}, Less)

\* Whatever sequence of stitches, splits and merges made it, iterating over a
\* node yields the items of its range, in order and with their values.
ItemsAreRead ==
  \A j \in DOMAIN nodes : LET nd == nodes[j] IN
    [i \in 1..nd.children |->
       <<prefix_decode(nd, index_key(nd, i - 1)), index_value(nd, i - 1)>>]
    = [i \in 1..Len(Held(nd)) |-> <<Held(nd)[i], map[Held(nd)[i]]>>]

\* The binary search of a node finds the keys that are in its range and in the
\* map, and for any other key of the range the place where it belongs.
FindIsRight ==
  \A j \in DOMAIN nodes : \A k \in Keys : covers(nodes[j], k) =>
    LET at == find(nodes[j], drop(k, nodes[j].prefix_len)) IN
    /\ at.found <=> k \in DOMAIN map
    /\ at.index = Cardinality({x \in DOMAIN map :
                                 covers(nodes[j], x) /\ Less(x, k)})

\* The ranges of neighbours meet without a gap, and the prefix that a node
\* leaves out of its keys is one that every key of its range has: also keys
\* that are not in it, which may be inserted or looked up.
RangesAndPrefixes ==
  \A j \in DOMAIN nodes : LET nd == nodes[j] IN
    /\ nd.lo = IF j = 1 THEN << >> ELSE nodes[j - 1].hi
    /\ nd.hi = NoKey <=> j = Len(nodes)
    /\ nd.hi # NoKey => Less(nd.lo, nd.hi)
    /\ nd.prefix_len <= Len(nd.lo)
    /\ \A k \in Keys : covers(nd, k) =>
         IsPrefix(SubSeq(nd.lo, 1, nd.prefix_len), k)

\* The first item of an index node is the one of its lo key: a key at the
\* bottom of the range of the node has a child to go to.
IndexStartsAtLo ==
  \A j \in DOMAIN nodes : nodes[j].children > 0 /\ index_key(nodes[j], 0)
                            = drop(nodes[j].lo, nodes[j].prefix_len)

\* What Node::new says of the word that offset reads: it does not extend
\* beyond the allocation.
OffsetReadsInside ==
  \A j \in DOMAIN nodes : LET nd == nodes[j] IN
    nd.offset_bytes > 0 => \A i \in 0..(nd.children - 1) :
      i * nd.offset_bytes + Word <= Len(nd.data)

\* What weighted_split_point says of the activity sketch: removals do not tick
\* it, and inserts do.
InsertsTick ==
  [][\A j \in DOMAIN nodes :
       Len(nodes') = Len(nodes) /\ nodes[j].children > 0
         /\ nodes'[j].children > nodes[j].children
       => nodes'[j].sketch # {}]_vars
====
