------------------------------ MODULE MCTree --------------------------------
(***************************************************************************)
(* Instances of Tree: a leaf that grows into a tree of two levels, the     *)
(* operations on it, a row of leaves that are merged, a root that is split *)
(* and hoisted, and three levels with a crash.                             *)
(***************************************************************************)
EXTENDS Naturals, TLC

CONSTANTS Threads

VARIABLES
  case,  \* which instance runs
  \* of Tree
  page, root, meta, limbo, th, ret, seen, calls, crashes, failed

vars == <<case, page, root, meta, limbo, th, ret, seen, calls, crashes, failed>>

Grow == INSTANCE Tree WITH
  Inf <- 3, MaxVal <- 1, Pids <- 1..6, SplitAbove <- 2, MergeBelow <- 1,
  Separators <- {0}, Uppers <- {}, FirstKeys <- {0, 1},
  Kinds <- {"set", "del", "get"}, MaxCalls <- 2, MaxCrashes <- 0
Ops == INSTANCE Tree WITH
  Inf <- 3, MaxVal <- 2, Pids <- 1..6, SplitAbove <- 2, MergeBelow <- 1,
  Separators <- {0}, Uppers <- {}, FirstKeys <- {0, 1},
  Kinds <- {"cas", "update", "merge"}, MaxCalls <- 1, MaxCrashes <- 0
Merge == INSTANCE Tree WITH
  Inf <- 3, MaxVal <- 1, Pids <- 1..6, SplitAbove <- 3, MergeBelow <- 1,
  Separators <- {0, 1, 2}, Uppers <- {}, FirstKeys <- {1, 2}, Kinds <- {"del"},
  MaxCalls <- 2, MaxCrashes <- 0
Hoist == INSTANCE Tree WITH
  Inf <- 4, MaxVal <- 1, Pids <- 1..9, SplitAbove <- 2, MergeBelow <- 2,
  Separators <- {0, 1, 2}, Uppers <- {}, FirstKeys <- {0, 1, 2},
  Kinds <- {"set", "del"}, MaxCalls <- 1, MaxCrashes <- 0
Crash == INSTANCE Tree WITH
  Inf <- 3, MaxVal <- 1, Pids <- 1..9, SplitAbove <- 2, MergeBelow <- 2,
  Separators <- {0, 1, 2}, Uppers <- {0, 2}, FirstKeys <- {0, 1, 2},
  Kinds <- {"set", "del"}, MaxCalls <- 1, MaxCrashes <- 1

Init ==
  \/ case = "grow" /\ Grow!Init
  \/ case = "ops" /\ Ops!Init
  \/ case = "merge" /\ Merge!Init
  \/ case = "hoist" /\ Hoist!Init
  \/ case = "crash" /\ Crash!Init

Next ==
  /\ UNCHANGED case
  /\ \/ case = "grow" /\ Grow!Next
     \/ case = "ops" /\ Ops!Next
     \/ case = "merge" /\ Merge!Next
     \/ case = "hoist" /\ Hoist!Next
     \/ case = "crash" /\ Crash!Next

Spec == Init /\ [][Next]_vars
-----------------------------------------------------------------------------
Symmetry == Permutations(Threads)

\* Type invariant of the pages, the root and the registers.
TypeOK ==
  /\ case = "grow" => Grow!TypeOK
  /\ case = "ops" => Ops!TypeOK
  /\ case = "merge" => Merge!TypeOK
  /\ case = "hoist" => Hoist!TypeOK
  /\ case = "crash" => Crash!TypeOK

\* None of the assertions, unwraps and panics of view_for_key, merge_node,
\* receive_merge and Node::apply is reached.
NoFailure == ~failed

\* What an index says is where its child is: no entry of an index in use points
\* to a freed page or to one that starts at another key.
IndexIsRight ==
  /\ case = "grow" => Grow!IndexIsRight
  /\ case = "ops" => Ops!IndexIsRight
  /\ case = "merge" => Merge!IndexIsRight
  /\ case = "hoist" => Hoist!IndexIsRight
  /\ case = "crash" => Crash!IndexIsRight

\* With no call open and no crash behind, every page that is not free is in the
\* tree: help and lost races leave no page behind.
NoOrphan ==
  /\ case = "grow" => Grow!NoOrphan
  /\ case = "ops" => Ops!NoOrphan
  /\ case = "merge" => Merge!NoOrphan
  /\ case = "hoist" => Hoist!NoOrphan
  /\ case = "crash" => Crash!NoOrphan

\* The Tree is an atomic map: every call takes effect at one instant while it is
\* open, or answers with a value its key had while it was open; splits and merges
\* change nothing; a crash loses no finished write.
AtomicMapSpec ==
  /\ case = "grow" => Grow!AM!Init
  /\ case = "ops" => Ops!AM!Init
  /\ case = "merge" => Merge!AM!Init
  /\ case = "hoist" => Hoist!AM!Init
  /\ case = "crash" => Crash!AM!Init
  /\ [][/\ case = "grow" => [Grow!AM!Next]_(Grow!AM!vars)
        /\ case = "ops" => [Ops!AM!Next]_(Ops!AM!vars)
        /\ case = "merge" => [Merge!AM!Next]_(Merge!AM!vars)
        /\ case = "hoist" => [Hoist!AM!Next]_(Hoist!AM!vars)
        /\ case = "crash" => [Crash!AM!Next]_(Crash!AM!vars)]_vars

\* The structure of the tree is right between any two steps of its threads.
TreeIsSound == TypeOK /\ NoFailure /\ IndexIsRight /\ NoOrphan
=============================================================================
