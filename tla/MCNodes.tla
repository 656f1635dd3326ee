------------------------------ MODULE MCNodes -------------------------------
(***************************************************************************)
(* Instances of TreeIter (ranges, prefixes, pop_min and pop_max) and of    *)
(* NodeLayout (values of different sizes, splits and merges with a short   *)
(* longest prefix, an index, and lengths as in the code).                  *)
(***************************************************************************)
EXTENDS Naturals, Sequences

VARIABLES
  case,  \* which instance runs
  \* of TreeIter
  map, seps, it, outF, outB, wanted, always, ever, ended, changes, calls, failed,
  \* of NodeLayout (with the names above that it shares)
  nodes

vars == <<case, map, seps, it, outF, outB, wanted, always, ever, ended, changes,
          calls, failed, nodes>>

Run(b, n) == [i \in 1..n |-> b]

\* Keys for iterators: with one byte of padding, every key of ShortKeys is within
\* reach of possible_predecessor.
ShortKeys == {<< >>, <<0, 1>>, <<1>>}
PrefixKeys == {<< >>, <<0, 1>>, <<1>>, <<1, 1>>}

\* Keys for nodes: with shared prefixes, one the prefix of another, and the empty one.
FewKeys == {<<1>>, <<1, 1, 1>>, <<1, 1, 2>>}
MoreKeys == {<< >>, <<1>>, <<1, 1>>, <<1, 1, 1>>, <<1, 1, 2>>}
IndexKeys == MoreKeys \cup {<<2>>}

\* A value of one byte and one whose length needs wider offsets and a longer varint;
\* page IDs of two bytes.
LongValues == {<<3>>, Run(6, 241)}
Children == {Run(3, 2), Run(4, 2)}

Range == INSTANCE TreeIter WITH
  Keys <- ShortKeys, MaxByte <- 1, Pad <- 1, MaxVal <- 1, MaxLoops <- 10,
  MaxChanges <- 1, MaxCalls <- 4, Uses <- {"range"}
Prefix == INSTANCE TreeIter WITH
  Keys <- PrefixKeys, MaxByte <- 1, Pad <- 1, MaxVal <- 1, MaxLoops <- 10,
  MaxChanges <- 1, MaxCalls <- 3, Uses <- {"prefix"}
Pop == INSTANCE TreeIter WITH
  Keys <- ShortKeys, MaxByte <- 1, Pad <- 1, MaxVal <- 1, MaxLoops <- 10,
  MaxChanges <- 2, MaxCalls <- 3, Uses <- {"pop_min", "pop_max"}
Leaf == INSTANCE NodeLayout WITH
  Base <- 256, Direct <- 240, Leads <- 8, Word <- 8, HeaderSize <- 64,
  MaxPrefix <- 1, SplitAbove <- 2, MergeBelow <- 2, IsIndex <- FALSE,
  Keys <- FewKeys, Values <- LongValues
Index == INSTANCE NodeLayout WITH
  Base <- 32, Direct <- 6, Leads <- 4, Word <- 2, HeaderSize <- 6,
  MaxPrefix <- 255, SplitAbove <- 2, MergeBelow <- 2, IsIndex <- TRUE,
  Keys <- IndexKeys, Values <- Children

\* A component that does not run is left out of the state.
NotTreeIter == <<nodes>>
OnlyTreeIter ==
  /\ nodes = 0
NotNodeLayout == <<seps, it, outF, outB, wanted, always, ever, ended, changes,
                   calls, failed>>
OnlyNodeLayout ==
  /\ seps = 0 /\ it = 0 /\ outF = 0 /\ outB = 0 /\ wanted = 0 /\ always = 0
  /\ ever = 0 /\ ended = 0 /\ changes = 0 /\ calls = 0 /\ failed = 0

Init ==
  \/ case = "range" /\ Range!Init /\ OnlyTreeIter
  \/ case = "prefix" /\ Prefix!Init /\ OnlyTreeIter
  \/ case = "pop" /\ Pop!Init /\ OnlyTreeIter
  \/ case = "leaf" /\ Leaf!Init /\ OnlyNodeLayout
  \/ case = "index" /\ Index!Init /\ OnlyNodeLayout

Next ==
  /\ UNCHANGED case
  /\ \/ case = "range" /\ Range!Next /\ UNCHANGED NotTreeIter
     \/ case = "prefix" /\ Prefix!Next /\ UNCHANGED NotTreeIter
     \/ case = "pop" /\ Pop!Next /\ UNCHANGED NotTreeIter
     \/ case = "leaf" /\ Leaf!Next /\ UNCHANGED NotNodeLayout
     \/ case = "index" /\ Index!Next /\ UNCHANGED NotNodeLayout

Spec == Init /\ [][Next]_vars
-----------------------------------------------------------------------------
\* Type invariant of the iterator and of the nodes' layout.
TypeOK ==
  /\ case = "range" => Range!TypeOK
  /\ case = "prefix" => Prefix!TypeOK
  /\ case = "pop" => Pop!TypeOK
  /\ case = "leaf" => Leaf!TypeOK
  /\ case = "index" => Index!TypeOK

\* When a call answers that nothing is left, every key of the range that was in
\* the tree all the time has been returned, whatever was split, merged or written
\* meanwhile and whichever way the calls went.
NothingSkipped ==
  /\ case = "range" => Range!NothingSkipped
  /\ case = "prefix" => Prefix!NothingSkipped

\* What is returned was in the tree at some time since the iterator was made and is
\* in the range that was asked for.
PairsAreReal ==
  /\ case = "range" => Range!PairsAreReal
  /\ case = "prefix" => Prefix!PairsAreReal

\* next goes up, next_back goes down, and they never meet: no key is returned twice.
InOrder ==
  [][/\ case = "range" => Range!GoesOn
     /\ case = "prefix" => Prefix!GoesOn]_vars

\* Neither the panic after MAX_LOOPS rounds of next_inner or next_back nor the
\* assertions of prefix_encode are reached: every call finds a leaf to go on with.
NoFailure ==
  /\ case = "range" => Range!NoFailure
  /\ case = "prefix" => Prefix!NoFailure
  /\ case = "pop" => Pop!NoFailure

\* pop_min takes a key below which no key has been all the time since it looked,
\* and pop_max one above which there is none.
PopIsOutermost ==
  case = "pop" => Pop!PopIsOutermost

\* Whatever sequence of stitches, splits and merges made it, iterating over a node
\* yields the items of its range, in order and with their values.
ItemsAreRead ==
  /\ case = "leaf" => Leaf!ItemsAreRead
  /\ case = "index" => Index!ItemsAreRead

\* The binary search of a node finds the keys that are in its range and in the map,
\* and for any other key of the range the place where it belongs.
FindIsRight ==
  /\ case = "leaf" => Leaf!FindIsRight
  /\ case = "index" => Index!FindIsRight

\* The ranges of neighbours meet without a gap, and the prefix that a node leaves
\* out of its keys is one that every key of its range has: also keys that are not
\* in it, which may be inserted or looked up.
RangesAndPrefixes ==
  /\ case = "leaf" => Leaf!RangesAndPrefixes
  /\ case = "index" => Index!RangesAndPrefixes

\* The first item of an index node is the one of its lo key: a key at the bottom of
\* the range of the node has a child to go to.
IndexStartsAtLo ==
  case = "index" => Index!IndexStartsAtLo

\* An iterator yields what is in the tree, all of it, and comes to an end.
IterationIsExact ==
  /\ case \in {"range", "prefix", "pop"} => TypeOK
  /\ NothingSkipped /\ PairsAreReal /\ NoFailure /\ PopIsOutermost

\* A node gives back what was put into it, in whatever way it was laid out.
LayoutIsRight ==
  /\ case \notin {"range", "prefix", "pop"} => TypeOK
  /\ ItemsAreRead /\ FindIsRight /\ RangesAndPrefixes /\ IndexStartsAtLo
=============================================================================
