---------------------------- MODULE MCRecovery ------------------------------
(***************************************************************************)
(* Instances of Recovery: restarts of a log of two pages with canceled     *)
(* messages, of one with batches, of one with snapshots taken while pages  *)
(* change, and of one whose segments are used again.                       *)
(***************************************************************************)
EXTENDS Integers

VARIABLES
  case,  \* which instance runs
  \* of Recovery
  tip, stable, header_stable, segs, pending, batch, pt, fuzzy, disk, snaps, mode,
  rec, log, count, crashes, failure

vars == <<case, tip, stable, header_stable, segs, pending, batch, pt, fuzzy, disk,
          snaps, mode, rec, log, count, crashes, failure>>

Plain == INSTANCE Recovery WITH
  SegmentSize <- 9, Lids <- {0, 1}, Pids <- {1, 2},
  Kinds <- {"replace", "link", "canceled"}, MaxMessages <- 4, MaxCrashes <- 2,
  Fuzzy <- FALSE, HeaderFirst <- TRUE
Batch == INSTANCE Recovery WITH
  SegmentSize <- 9, Lids <- {0, 1}, Pids <- {1},
  Kinds <- {"replace", "manifest", "cap"}, MaxMessages <- 5, MaxCrashes <- 2,
  Fuzzy <- FALSE, HeaderFirst <- TRUE
Online == INSTANCE Recovery WITH
  SegmentSize <- 7, Lids <- {0, 1, 2}, Pids <- {1, 2},
  Kinds <- {"replace", "free"}, MaxMessages <- 4, MaxCrashes <- 1, Fuzzy <- TRUE,
  HeaderFirst <- TRUE
Reuse == INSTANCE Recovery WITH
  SegmentSize <- 7, Lids <- {0, 1, 2}, Pids <- {1}, Kinds <- {"replace", "link"},
  MaxMessages <- 6, MaxCrashes <- 2, Fuzzy <- FALSE, HeaderFirst <- TRUE

Init ==
  \/ case = "plain" /\ Plain!Init
  \/ case = "batch" /\ Batch!Init
  \/ case = "fuzzy" /\ Online!Init
  \/ case = "reuse" /\ Reuse!Init

Next ==
  /\ UNCHANGED case
  /\ \/ case = "plain" /\ Plain!Next
     \/ case = "batch" /\ Batch!Next
     \/ case = "fuzzy" /\ Online!Next
     \/ case = "reuse" /\ Reuse!Next

Spec == Init /\ [][Next]_vars
-----------------------------------------------------------------------------
\* Type invariant of the log, the file, the snapshots and the pages.
TypeOK ==
  /\ case = "plain" => Plain!TypeOK
  /\ case = "batch" => Batch!TypeOK
  /\ case = "fuzzy" => Online!TypeOK
  /\ case = "reuse" => Reuse!TypeOK

\* The pages are those of the whole log up to its end: a recovery gives the state
\* of one moment in the past, with nothing missing before it and nothing from after
\* it, however often it was interrupted (advance_snapshot).
PagesAreReplay ==
  /\ case = "plain" => Plain!PagesAreReplay
  /\ case = "fuzzy" => Online!PagesAreReplay
  /\ case = "reuse" => Reuse!PagesAreReplay

\* Every message a page consists of is in memory, or in the file at its place.
PagesAreReadable ==
  /\ case = "fuzzy" => Online!PagesAreReadable
  /\ case = "reuse" => Reuse!PagesAreReadable

\* A batch is recovered as a whole or not at all (RecoveryGuard).
BatchesAreWhole ==
  case = "batch" => Batch!BatchesAreWhole

\* Recovery succeeds: there is one segment for each LSN, the snapshot does not go
\* back, and every page up to the last was found (the errors and panics of
\* advance_snapshot, filter_inner_heap_ids and load_snapshot).
NoFailure ==
  /\ case = "fuzzy" => Online!NoFailure
  /\ case = "reuse" => Reuse!NoFailure

\* What was stable when the system crashed is there when it is up again.
StableIsRecovered ==
  [][/\ case = "plain" => Plain!KeepsStable
     /\ case = "batch" => Batch!KeepsStable]_vars

\* A recovery gives the pages of one moment, with whole batches.
RecoversOneMoment == PagesAreReplay /\ BatchesAreWhole

\* Recovery and the pages it makes do not fail.
RecoveryIsSound == TypeOK /\ PagesAreReadable /\ NoFailure
=============================================================================
