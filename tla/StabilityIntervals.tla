------------------------- MODULE StabilityIntervals -------------------------
(***************************************************************************)
(* StabilityIntervals of src/src/pagecache/iobuf.rs with its vector of     *)
(* ranges and its map of batches, driven the way IoBufs drives it: buffers *)
(* cover consecutive intervals and are marked in any order, and the buffer *)
(* that holds a batch manifest is not marked before the batch is.          *)
(***************************************************************************)
EXTENDS Integers, Sequences, SequencesExt, Functions, Intervals

CONSTANTS
    MaxLsn,   \* bound: no buffer ends beyond it
    MaxLen,   \* bound: the longest buffer
    None

\* The constants are meant to satisfy
\*   MaxLsn \in Nat /\ MaxLen \in Nat \ {0}

VARIABLES
    fsynced_ranges,  \* sequence of pairs <<low, high>>, as the vector
    batches,         \* function from low to high, as the BTreeMap
    stable_lsn,      \* StabilityIntervals.stable_lsn
    published,       \* IoBufs.stable_lsn
    tip,             \* the first LSN not covered by a buffer
    unmarked,        \* buffers not marked yet
    pinned           \* the buffer in which a manifest is held, if any

intervalVars == <<fsynced_ranges, batches, stable_lsn, published>>
vars == <<intervalVars, tip, unmarked, pinned>>
----------------------------------------------------------------------------
Descending(ranges) ==
    SortSeq(ranges, LAMBDA x, y : x[1] > y[1] \/ (x[1] = y[1] /\ x[2] > y[2]))

InsertLosesEnd(ranges, interval) ==
    IF ranges # <<>> /\ Last(ranges)[2] + 1 = interval[1]
    THEN Descending(Append(Front(ranges), <<Last(ranges)[1], interval[1]>>))
    ELSE Descending(Append(ranges, interval))

\* Merge the interval with the last range, or push it, then sort in reverse.
Insert(ranges, interval) ==
    LET last == Last(ranges)
        pushed ==
            IF ranges = <<>> THEN <<interval>>
            ELSE IF last[1] = interval[2] + 1
            THEN Append(Front(ranges), <<interval[1], last[2]>>)
            ELSE IF last[2] + 1 = interval[1]
            THEN Append(Front(ranges), <<last[1], interval[2]>>)
            ELSE Append(ranges, interval)
    IN  Descending(pushed)

\* Pop the ranges that continue the stable prefix.
RECURSIVE Advance(_, _)
Advance(ranges, stable) ==
    IF ranges # <<>> /\ Last(ranges)[1] = stable + 1
    THEN Advance(Front(ranges), Last(ranges)[2])
    ELSE [ranges |-> ranges, stable |-> stable]

\* Remove the batches within the prefix, lowest first, stopping at the first one
\* that is not.
RECURSIVE Settle(_, _, _)
Settle(bs, stable, batch_stable) ==
    IF DOMAIN bs = {} THEN [batches |-> bs, lsn |-> batch_stable]
    ELSE LET low == CHOOSE l \in DOMAIN bs : \A m \in DOMAIN bs : l <= m
         IN  IF bs[low] <= stable
             THEN Settle(Restrict(bs, DOMAIN bs \ {low}), stable, bs[low])
             ELSE [batches |-> bs,
                   lsn |-> IF low <= stable THEN low - 1 ELSE batch_stable]

mark_batch(low, high) ==
    /\ batches' = [l \in DOMAIN batches \cup {low} |->
                        IF l = low THEN high ELSE batches[l]]
    /\ UNCHANGED <<fsynced_ranges, stable_lsn, published>>

\* The first two loops of mark_fsync.
Apply(interval) ==
    LET advanced == Advance(Insert(fsynced_ranges, interval), stable_lsn)
        settled == Settle(batches, advanced.stable, None)
    IN  [ranges |-> advanced.ranges, stable |-> advanced.stable,
         batches |-> settled.batches, lsn |-> settled.lsn]

mark_fsyncBatchesOnly(interval) ==
    LET r == Apply(interval)
    IN  /\ fsynced_ranges' = r.ranges /\ stable_lsn' = r.stable /\ batches' = r.batches
        /\ published' = IF r.lsn = None THEN published ELSE r.lsn

mark_fsyncTearsBatches(interval) ==
    LET r == Apply(interval)
    IN  /\ fsynced_ranges' = r.ranges /\ stable_lsn' = r.stable /\ batches' = r.batches
        /\ published' = r.stable

\* mark_fsync, and the store of its result in mark_interval.
mark_fsync(interval) ==
    LET r == Apply(interval)
        result == IF DOMAIN r.batches = {} THEN r.stable ELSE r.lsn
    IN  /\ fsynced_ranges' = r.ranges /\ stable_lsn' = r.stable /\ batches' = r.batches
        /\ published' = IF result = None THEN published ELSE result
----------------------------------------------------------------------------
Init ==
    /\ \E lsn \in {0, 2} : tip = lsn /\ stable_lsn = lsn - 1 /\ published = lsn - 1
    /\ fsynced_ranges = <<>> /\ batches = <<>>
    /\ unmarked = {} /\ pinned = None

\* A buffer is filled and sealed.
Fill ==
    /\ \E len \in 1..MaxLen :
        /\ tip + len <= MaxLsn
        /\ unmarked' = unmarked \cup {<<tip, tip + len - 1>>}
        /\ tip' = tip + len
    /\ UNCHANGED <<intervalVars, pinned>>

\* A manifest is reserved in the newest buffer, above any batch sealed before.
Pin ==
    /\ pinned = None
    /\ \E x \in unmarked : \E low \in x[1]..x[2] :
        /\ x[2] = tip - 1
        /\ \A l \in DOMAIN batches : batches[l] < low
        /\ pinned' = [buf |-> x, low |-> low]
    /\ UNCHANGED <<intervalVars, tip, unmarked>>

\* The batch ends with the last byte reserved so far.
SealBatch ==
    /\ pinned # None /\ pinned.low < tip - 1
    /\ mark_batch(pinned.low, tip - 1)
    /\ pinned' = None
    /\ UNCHANGED <<tip, unmarked>>

Mark ==
    /\ \E x \in unmarked :
        /\ pinned # None => x # pinned.buf
        /\ mark_fsync(x) /\ unmarked' = unmarked \ {x}
    /\ UNCHANGED <<tip, pinned>>

Next == Fill \/ Pin \/ SealBatch \/ Mark

Spec == Init /\ [][Next]_vars
----------------------------------------------------------------------------
Synced == UNION {r[1]..r[2] : r \in Range(fsynced_ranges)}

AsSets ==
    [stable |-> stable_lsn, synced |-> Synced,
     batches |-> {[low |-> l, high |-> batches[l]] : l \in DOMAIN batches}]

\* Type invariant of the vector of ranges, the map of batches and the buffers.
TypeOK ==
    /\ fsynced_ranges \in Seq(Nat \X Nat)
    /\ DOMAIN batches \subseteq 0..MaxLsn /\ Range(batches) \subseteq 0..MaxLsn
    /\ stable_lsn \in -1..MaxLsn /\ published \in -1..stable_lsn
    /\ tip \in 0..MaxLsn /\ unmarked \subseteq (0..MaxLsn) \X (0..MaxLsn)

\* The assertions in mark_fsync's first loop: merging with the last range and
\* sorting keep the ranges non-empty, disjoint and in descending order, and the
\* lowest of them, looked at first, leaves a gap above the stable LSN.
RangesAreDescending ==
    /\ \A i \in DOMAIN fsynced_ranges :
            fsynced_ranges[i][1] <= fsynced_ranges[i][2]
            /\ fsynced_ranges[i][1] > stable_lsn + 1
    /\ \A i, j \in DOMAIN fsynced_ranges :
            i < j => fsynced_ranges[i][1] > fsynced_ranges[j][2]

\* mark_fsync's loops over the vector and the map compute what module Intervals
\* defines on sets, and publish the same LSN, whatever the order of the marks.
MarksAsIntervals ==
    \A x \in unmarked \ unmarked' :
        /\ AsSets' = MarkFsync(AsSets, x[1]..x[2])
        /\ published' = Published(stable_lsn', AsSets.batches, published)
AgreesWithIntervals == [][MarksAsIntervals]_vars

\* mark_fsync returning None hides progress only while a batch is pending: when
\* the last batch is settled, the published LSN has caught up with the prefix.
NothingStaysHidden == DOMAIN batches = {} => published = stable_lsn

\* The published LSN is below every buffer that is not marked, below every batch
\* that is sealed and not settled, and below a manifest still being held.
PublishedIsSafe ==
    /\ \A x \in unmarked : published < x[1]
    /\ \A l \in DOMAIN batches : published < l
    /\ pinned # None => published < pinned.low
============================================================================
