------------------------------ MODULE Recovery ------------------------------
(***************************************************************************)
(* Snapshots and recovery: src/src/pagecache/snapshot.rs, iterator.rs,     *)
(* what logger.rs reads for them, and the snapshots that are taken and     *)
(* loaded in src/src/pagecache/mod.rs.                                     *)
(*                                                                         *)
(* Messages are appended to a log, which is cut into segments that lie     *)
(* anywhere in the file and are used again.  They reach the file in any    *)
(* order.  After a crash, recovery reads the last snapshot, finds the      *)
(* segments and the end of the log, applies what it finds to the snapshot  *)
(* and cleans up; it may crash itself.                                     *)
(*                                                                         *)
(* LSNs are those of the code with all messages of length MSG.  A message  *)
(* is an io buffer of its own (see IoBufs for the buffers).  A page is     *)
(* known by the messages it consists of; `log` remembers every message of  *)
(* the current history, whatever became of its segment.                    *)
(***************************************************************************)
EXTENDS Integers, Sequences, SequencesExt, FiniteSetsExt, Functions, TLC

CONSTANTS
    SegmentSize, Lids,   \* the file: segments at offsets 0..n
    Pids, Kinds,         \* the pages, and the kinds of messages
    MaxMessages,         \* bound: messages in the whole history
    MaxCrashes,          \* bound: crashes
    HeaderFirst,         \* the first buffer of a segment is written before others
    Fuzzy                \* snapshots are taken while the system runs

SEG_HEADER_LEN == 2
MSG == 2
MAX_MSG_HEADER_LEN == 2
None == -1
Infinity == 1000

VARIABLES
    \* in memory
    tip,            \* the next LSN
    stable,         \* stable_lsn (after a crash: what was promised)
    header_stable,  \* max_header_stable_lsn
    segs,           \* open and used segments: LSN -> [lid, max_stable]
    pending,        \* LSNs of messages that are not on disk
    batch,          \* the LSN of the open batch manifest, or None
    pt,             \* the pages
    fuzzy,          \* the fuzzy snapshot in progress
    \* on disk
    disk,           \* lid -> [lsn, max_stable, msgs]
    snaps,          \* the snapshot files
    \* recovery, and the world
    mode, rec,
    log,            \* LSN -> message
    count, crashes, failure

memory == <<tip, stable, header_stable, segs, pending, batch, pt, fuzzy>>
vars == <<memory, disk, snaps, mode, rec, log, count, crashes, failure>>

normalize(lsn) == (lsn \div SegmentSize) * SegmentSize
valid_entry_offset(lsn) ==
    lsn % SegmentSize \in SEG_HEADER_LEN .. (SegmentSize - MAX_MSG_HEADER_LEN)

Blank == [lsn |-> None, max_stable |-> None, msgs |-> <<>>]
NoFuzzy == [st |-> "none", stable_lsn |-> None, bound |-> 0, pt |-> <<>>, reserved |-> None]
NoSnapshot == [stable_lsn |-> None, active_segment |-> None, pt |-> <<>>]
NoRec == [snapshot |-> NoSnapshot, zero |-> {}]

Init ==
    /\ tip = 0 /\ stable = -1 /\ header_stable = 0
    /\ segs = <<>> /\ pending = {} /\ batch = None /\ pt = <<>> /\ fuzzy = NoFuzzy
    /\ disk = [l \in Lids |-> Blank]
    /\ snaps = {}
    /\ mode = "up" /\ rec = NoRec
    /\ log = <<>> /\ count = 0 /\ crashes = 0 /\ failure = "none"

-----------------------------------------------------------------------------
(* Snapshots as values.                                                    *)

Uninitialized == [st |-> "Uninitialized", refs |-> <<>>]

\* PageState::push
push(page, ref) ==
    IF Last(page.refs).lsn < ref.lsn THEN [page EXCEPT !.refs = Append(@, ref)] ELSE page

\* Snapshot::apply: one message and its place.
apply(pages, m) ==
    LET ref == [lsn |-> m.lsn, lid |-> m.lid]
        grown == [p \in 1..Max({Len(pages), m.pid}) |->
                    IF p <= Len(pages) THEN pages[p] ELSE Uninitialized]
    IN CASE m.kind = "replace" -> [grown EXCEPT ![m.pid] = [st |-> "Present", refs |-> <<ref>>]]
         [] m.kind = "free"    -> [grown EXCEPT ![m.pid] = [st |-> "Free", refs |-> <<ref>>]]
         [] m.kind = "link"    -> IF grown[m.pid].st = "Present"
                                  THEN [grown EXCEPT ![m.pid] = push(@, ref)]
                                  ELSE IF m.pid > Len(pages) THEN pages ELSE grown

IsData(m) == m.kind \in {"replace", "link", "free"}

-----------------------------------------------------------------------------
(* The running system.                                                     *)

Reserved == DOMAIN log

\* max_reserved_lsn: caps are not reserved.
LastReserved == Max({-1} \cup {l + MSG - 1 : l \in {l \in Reserved : log[l].kind # "cap"}})

\* Where the bytes that belong to a message end: the last message of a segment
\* carries the rest of it.
End(l) == IF log[l].kind = "cap" \/ ~valid_entry_offset(l + MSG)
          THEN normalize(l) + SegmentSize - 1 ELSE l + MSG - 1

\* The stable LSN that these unwritten messages allow (StabilityIntervals):
\* over everything that is written, and over a batch in one piece.
StableWithout(unwritten) ==
    LET ends == {End(l) : l \in {l \in Reserved : \A u \in unwritten : l < u}}
        whole(e) == \A l \in Reserved :
                        log[l].kind = "manifest" /\ l <= e => log[l].last <= e
    IN Max({stable} \cup {e \in ends : whole(e)})

\* The segments that pages refer to.
Kept(pages) ==
    UNION {{pages[p].refs[i].lid : i \in DOMAIN pages[p].refs} : p \in DOMAIN pages}

\* What replaces the segment's contents is in a segment that is still active.
Needed(g) ==
    \E cut \in {l \in Reserved : l >= normalize(header_stable)} : \E p \in Pids :
        LET before == {l \in Reserved : l < cut /\ IsData(log[l]) /\ log[l].pid = p}
            bases == {l \in before : log[l].kind # "link"}
        IN bases # {} /\ \E l \in before : l >= Max(bases) /\ normalize(l) = g

\* Mutant: a segment is free as soon as it is stable.
ReusableOld(g) == g <= normalize(header_stable) - SegmentSize

\* A segment is used again once its contents were replaced by what is in an
\* inactive segment, one that is stable according to a header on disk (see
\* SegmentAccountant).
Reusable(g) ==
    /\ g <= normalize(header_stable) - SegmentSize
    /\ segs[g].lid \notin Kept(pt)
    /\ ~Needed(g)

FreeLids == Lids \ {segs[g].lid : g \in {g \in DOMAIN segs : ~Reusable(g)}}

NextSegmentLsn == IF tip % SegmentSize = 0 THEN tip ELSE normalize(tip) + SegmentSize

\* A new segment for the next message.
next_segment ==
    /\ mode = "up" /\ count < MaxMessages
    /\ ~valid_entry_offset(tip)
    /\ FreeLids # {}
    /\ LET lsn == NextSegmentLsn
           lid == Min(FreeLids)
           keep == {g \in DOMAIN segs : segs[g].lid # lid}
       IN /\ segs' = (lsn :> [lid |-> lid, max_stable |-> stable]) @@ Restrict(segs, keep)
          /\ tip' = lsn + SEG_HEADER_LEN
    /\ UNCHANGED <<stable, header_stable, pending, batch, pt, fuzzy, disk, snaps, mode, rec,
                   log, count, crashes, failure>>

\* link, cas_page: a message is reserved and the page refers to it.  (An
\* aborted one is cancelled; a cap fills the segment.)
append(kind, p) ==
    /\ mode = "up" /\ count < MaxMessages
    /\ valid_entry_offset(tip) /\ normalize(tip) \in DOMAIN segs
    /\ CASE kind = "replace" -> p <= Len(pt) + 1
         [] kind = "link" -> p <= Len(pt) /\ pt[p].st = "Present"
         [] kind = "free" -> p <= Len(pt) /\ pt[p].st = "Present"
         [] OTHER -> p = 1
    /\ kind = "manifest" => batch = None
    /\ LET m == [kind |-> kind, pid |-> p, last |-> IF kind = "manifest" THEN Infinity ELSE None]
       IN /\ log' = (tip :> m) @@ log
          /\ pt' = IF IsData(m)
                   THEN apply(pt, [kind |-> kind, pid |-> p, lsn |-> tip,
                                   lid |-> segs[normalize(tip)].lid])
                   ELSE pt
    /\ pending' = pending \cup {tip}
    /\ batch' = IF kind = "manifest" THEN tip ELSE batch
    /\ tip' = IF kind = "cap" THEN normalize(tip) + SegmentSize ELSE tip + MSG
    /\ count' = count + 1
    /\ UNCHANGED <<stable, header_stable, segs, fuzzy, disk, snaps, mode, rec, crashes, failure>>

\* RecoveryGuard::seal_batch
seal_batch ==
    /\ mode = "up" /\ batch # None
    /\ log' = [log EXCEPT ![batch].last = LastReserved]
    /\ batch' = None
    /\ UNCHANGED <<tip, stable, header_stable, segs, pending, pt, fuzzy, disk, snaps, mode,
                   rec, count, crashes, failure>>

\* write_to_log: the first message of a segment takes the header with it.
write_to_log(l) ==
    /\ mode = "up" /\ l \in pending /\ l # batch
    /\ HeaderFirst => normalize(l) + SEG_HEADER_LEN \in {l} \cup (Reserved \ pending)
    /\ LET g == normalize(l)
           lid == segs[g].lid
           first == l = g + SEG_HEADER_LEN
           m == (l % SegmentSize) :> ([seg |-> g] @@ log[l])
       IN /\ disk' = [disk EXCEPT ![lid] =
                [lsn |-> IF first THEN g ELSE @.lsn,
                 max_stable |-> IF first THEN segs[g].max_stable ELSE @.max_stable,
                 msgs |-> m @@ @.msgs]]
          /\ header_stable' = IF first THEN Max({header_stable, segs[g].max_stable})
                              ELSE header_stable
    /\ pending' = pending \ {l}
    /\ stable' = StableWithout(pending')
    /\ UNCHANGED <<tip, segs, batch, pt, fuzzy, snaps, mode, rec, log, count, crashes, failure>>

-----------------------------------------------------------------------------
(* take_fuzzy_snapshot and write_snapshot.                                 *)

fuzzy_begin ==
    /\ mode = "up" /\ Fuzzy /\ fuzzy.st = "none" /\ pt # <<>>
    /\ fuzzy' = [NoFuzzy EXCEPT !.st = "pages", !.bound = Len(pt), !.stable_lsn = stable]
    /\ UNCHANGED <<tip, stable, header_stable, segs, pending, batch, pt, disk, snaps, mode,
                   rec, log, count, crashes, failure>>

\* One page; after the last, the LSN that has to be stable before the snapshot
\* may be written.
fuzzy_page ==
    /\ mode = "up" /\ fuzzy.st = "pages"
    /\ LET pages == Append(fuzzy.pt, pt[Len(fuzzy.pt) + 1])
       IN fuzzy' = [fuzzy EXCEPT !.pt = pages,
                        !.st = IF Len(pages) = fuzzy.bound THEN "wait" ELSE @,
                        !.stable_lsn = IF @ = Infinity THEN stable ELSE @,
                        !.reserved = LastReserved]
    /\ UNCHANGED <<tip, stable, header_stable, segs, pending, batch, pt, disk, snaps, mode,
                   rec, log, count, crashes, failure>>

Renamed(s) == {f \in snaps : f.stable_lsn # s.stable_lsn} \cup {s}

fuzzy_write ==
    /\ mode = "up" /\ fuzzy.st = "wait" /\ stable >= fuzzy.reserved
    /\ snaps' = Renamed([stable_lsn |-> fuzzy.stable_lsn, active_segment |-> None,
                         pt |-> fuzzy.pt])
    /\ fuzzy' = [fuzzy EXCEPT !.st = "remove"]
    /\ UNCHANGED <<tip, stable, header_stable, segs, pending, batch, pt, disk, mode, rec,
                   log, count, crashes, failure>>

\* The removal of the other snapshot files.
fuzzy_remove ==
    /\ mode = "up" /\ fuzzy.st = "remove"
    /\ snaps' = {s \in snaps : s.stable_lsn = fuzzy.stable_lsn}
    /\ fuzzy' = NoFuzzy
    /\ UNCHANGED <<tip, stable, header_stable, segs, pending, batch, pt, disk, mode, rec,
                   log, count, crashes, failure>>

-----------------------------------------------------------------------------
(* Reading the log.                                                        *)

\* read_message: a message of another use of the segment is as good as none.
read_message(lid, lsn) ==
    LET o == lsn % SegmentSize  msgs == disk[lid].msgs
    IN IF o \in DOMAIN msgs /\ msgs[o].seg = normalize(lsn) THEN msgs[o]
       ELSE [kind |-> "corrupted", pid |-> 1, last |-> None, seg |-> None]

TornBatch(last, max_lsn) == last > max_lsn

\* LogIter::read_segment: the next segment is open, and leaves the list.
read_segment(it, where) ==
    LET g == Min(it.segments)
    IN [it EXCEPT !.segment_base = where[g], !.cur_lsn = g + SEG_HEADER_LEN,
                  !.segments = @ \ {g}]

\* LogIter::next, run to the end: `it` has segments (their
\* LSNs, at `where`), segment_base, max_lsn, cur_lsn and the items so far.
RECURSIVE iterate(_, _, _)
iterate(it, where, last_stage) ==
    LET base == IF valid_entry_offset(Max({it.cur_lsn, 0})) THEN it.segment_base ELSE None
        none == [it EXCEPT !.segment_base = base]
        now == IF base = None THEN read_segment(it, where) ELSE none
        lsn == now.cur_lsn
        m == read_message(now.segment_base, lsn)
        on == [now EXCEPT !.cur_lsn = lsn + MSG]
        capped == [now EXCEPT !.segment_base = None]
    IN IF base = None /\ it.segments = {} THEN none
       ELSE IF base = None /\ Min(it.segments) > it.max_lsn THEN none
       ELSE IF lsn > it.max_lsn THEN now
       ELSE CASE IsData(m) ->
                    iterate([on EXCEPT !.items =
                                Append(@, [kind |-> m.kind, pid |-> m.pid, lsn |-> lsn,
                                           lid |-> now.segment_base])], where, last_stage)
              [] m.kind = "canceled" -> iterate(on, where, last_stage)
              [] m.kind = "manifest" ->
                    IF TornBatch(m.last, it.max_lsn) THEN now ELSE iterate(on, where, last_stage)
              [] m.kind = "cap" -> iterate(capped, where, last_stage)
              [] m.kind = "corrupted" ->
                    IF last_stage THEN iterate(capped, where, last_stage) ELSE now

LogIter(segments, max_lsn) ==
    [segments |-> segments, segment_base |-> None, max_lsn |-> max_lsn, cur_lsn |-> None,
     items |-> <<>>]

\* Mutant: the segment of the snapshot's own LSN is left out.
HeadersAfter(min) == {l \in Lids : disk[l].lsn > min /\ disk[l].lsn # None}

\* scan_segment_headers_and_tail: the segments by LSN.
Headers(min) == {l \in Lids : disk[l].lsn >= min /\ disk[l].lsn # None}
Where(min) == [g \in {disk[l].lsn : l \in Headers(min)} |->
                CHOOSE l \in Headers(min) : disk[l].lsn = g]

\* check_contiguity_in_unstable_tail: the last LSN of the log.
RECURSIVE Contiguous(_, _)
Contiguous(g, S) == IF g \in S THEN {g} \cup Contiguous(g + SegmentSize, S) ELSE {}

end_of_last_message(min) ==
    LET where == Where(min)
        max_header_stable_lsn == Max({min} \cup {disk[l].max_stable : l \in Headers(min)})
        lowest == normalize(Max({0, max_header_stable_lsn}))
        candidates == {g \in DOMAIN where : g >= lowest}
        tail == Contiguous(lowest, candidates)
        missing == IF tail = candidates THEN Infinity
                   ELSE lowest + SegmentSize * Cardinality(tail)
        it == iterate(LogIter(tail, missing), where, FALSE)
    IN Max({it.cur_lsn, 0}) - 1

-----------------------------------------------------------------------------
(* advance_snapshot                                                        *)

\* read_snapshot: the file with the greatest name.
last_snapshot ==
    IF snaps = {} THEN NoSnapshot
    ELSE CHOOSE s \in snaps : \A f \in snaps : f.stable_lsn <= s.stable_lsn

AlreadyProcessed(lsn, stable_lsn) == lsn < stable_lsn

recovered_iter ==
    LET min == normalize(Max({0, last_snapshot.stable_lsn}))
    IN iterate(LogIter(DOMAIN Where(min), end_of_last_message(min)), Where(min), TRUE)

Advanced(it) ==
    LET old == last_snapshot
        new == SelectSeq(it.items, LAMBDA m : ~AlreadyProcessed(m.lsn, old.stable_lsn))
        progress == it.cur_lsn % SegmentSize
        bumped == progress + MAX_MSG_HEADER_LEN >= SegmentSize
    IN IF it.cur_lsn = None THEN old
       ELSE [stable_lsn |-> IF bumped THEN normalize(it.cur_lsn) + SegmentSize ELSE it.cur_lsn,
             active_segment |-> IF bumped THEN None ELSE it.segment_base,
             pt |-> FoldLeft(apply, old.pt, new)]

\* The tail of the active segment is overwritten from the end of the log.
Shredded(it, s) ==
    IF it.cur_lsn = None \/ s.active_segment = None THEN disk
    ELSE [disk EXCEPT ![s.active_segment].msgs =
            Restrict(@, {o \in DOMAIN @ : o < it.cur_lsn % SegmentSize})]

\* The errors and panics of a recovery.
Failure(it, s) ==
    LET min == normalize(Max({0, last_snapshot.stable_lsn}))
        progress == it.cur_lsn % SegmentSize
    IN CASE \E k, l \in Headers(min) : k # l /\ disk[k].lsn = disk[l].lsn -> "duplicate segment"
         [] /\ it.cur_lsn # None
            /\ ~(progress >= SEG_HEADER_LEN \/ (progress = 0 /\ it.segment_base = None)) ->
                "progress in a segment header"
         [] s.stable_lsn < last_snapshot.stable_lsn -> "stable LSN went back"
         [] \E q \in DOMAIN s.pt : s.pt[q] = Uninitialized -> "uninitialized page"
         [] OTHER -> failure

crash ==
    /\ crashes < MaxCrashes
    /\ mode' = "down"
    /\ crashes' = crashes + 1
    /\ segs' = <<>> /\ pending' = {} /\ batch' = None /\ pt' = <<>> /\ fuzzy' = NoFuzzy
    /\ header_stable' = 0 /\ tip' = 0 /\ rec' = NoRec
    /\ UNCHANGED <<stable, disk, snaps, log, count, failure>>

\* Read, apply, shred.
advance_snapshot ==
    /\ mode = "down"
    /\ LET it == recovered_iter
           s == Advanced(it)
       IN /\ failure' = Failure(it, s)
          /\ disk' = Shredded(it, s)
          /\ rec' = [snapshot |-> s, zero |-> it.segments]
          /\ mode' = IF failure' # "none" THEN "failed"
                     ELSE IF s.stable_lsn > last_snapshot.stable_lsn THEN "write" ELSE "zero"
    /\ UNCHANGED <<memory, snaps, log, count, crashes>>

\* write_snapshot: the new file gets its name, then the old ones go.
write_snapshot ==
    /\ mode = "write"
    /\ snaps' = Renamed(rec.snapshot)
    /\ mode' = "remove"
    /\ UNCHANGED <<memory, disk, rec, log, count, crashes, failure>>

remove_old ==
    /\ mode = "remove"
    /\ snaps' = {rec.snapshot}
    /\ mode' = "zero"
    /\ UNCHANGED <<memory, disk, rec, log, count, crashes, failure>>

\* Mutant: torn segments are left as they are.
zero_segmentNot ==
    /\ mode = "zero" /\ rec.zero # {}
    /\ rec' = [rec EXCEPT !.zero = @ \ {Min(rec.zero)}]
    /\ UNCHANGED <<memory, disk, snaps, mode, log, count, crashes, failure>>

\* The segments after the end of the log are zeroed.
zero_segment ==
    /\ mode = "zero" /\ rec.zero # {}
    /\ LET g == Min(rec.zero)
           l == CHOOSE l \in Lids : disk[l].lsn = g
       IN /\ disk' = [disk EXCEPT ![l] = Blank]
          /\ rec' = [rec EXCEPT !.zero = @ \ {g}]
    /\ UNCHANGED <<memory, snaps, mode, log, count, crashes, failure>>

\* Snapshot::recovered_coords
recovered_lsn(s) ==
    IF s.stable_lsn = None THEN 0
    ELSE IF s.active_segment # None \/ s.stable_lsn % SegmentSize = 0 THEN s.stable_lsn
    ELSE normalize(s.stable_lsn) + SegmentSize

\* load_snapshot, and the start of the log and of the segment accountant.  The
\* history goes on from here.
load_snapshot ==
    /\ mode = "zero" /\ rec.zero = {}
    /\ LET s == rec.snapshot
           lsn == recovered_lsn(s)
           used == Kept(s.pt) \cup ({s.active_segment} \ {None})
       IN /\ tip' = lsn /\ stable' = lsn - 1 /\ header_stable' = lsn
          /\ pt' = s.pt
          /\ segs' = [g \in {disk[l].lsn : l \in used} |->
                        [lid |-> CHOOSE l \in used : disk[l].lsn = g, max_stable |-> None]]
          /\ log' = Restrict(log, {l \in DOMAIN log : l < lsn})
    /\ mode' = "up" /\ rec' = NoRec
    /\ UNCHANGED <<pending, batch, fuzzy, disk, snaps, count, crashes, failure>>

Next ==
    \/ next_segment
    \/ \E kind \in Kinds, p \in Pids : append(kind, p)
    \/ seal_batch
    \/ \E l \in pending : write_to_log(l)
    \/ fuzzy_begin \/ fuzzy_page \/ fuzzy_write \/ fuzzy_remove
    \/ crash
    \/ advance_snapshot \/ write_snapshot \/ remove_old \/ zero_segment \/ load_snapshot

Spec == Init /\ [][Next]_vars

-----------------------------------------------------------------------------

\* TypeOK: the file, the snapshot and the recovering process hold what their
\* formats allow; segment LSNs are aligned to the segment size.
TypeOK ==
    /\ mode \in {"up", "down", "write", "remove", "zero", "failed"}
    /\ batch \in {None} \cup DOMAIN log /\ pending \subseteq DOMAIN log
    /\ \A p \in DOMAIN pt : pt[p].st \in {"Present", "Free", "Uninitialized"}
    /\ \A g \in DOMAIN segs : g % SegmentSize = 0 /\ segs[g].lid \in Lids

\* What a list of messages makes of a page: its last whole state and the
\* updates after it.
PageOf(p) ==
    LET mine == {l \in DOMAIN log : IsData(log[l]) /\ log[l].pid = p}
    IN {l \in mine : \A k \in mine : k > l => log[k].kind = "link"}

\* The pages are those of the whole log up to its end: a recovery gives the
\* state of one moment in the past, with nothing missing before it and nothing
\* from after it, however often it was interrupted (advance_snapshot).
PagesAreReplay ==
    mode = "up" =>
        /\ \A p \in DOMAIN pt :
            /\ {pt[p].refs[i].lsn : i \in DOMAIN pt[p].refs} = PageOf(p)
            /\ \A i \in 1..(Len(pt[p].refs) - 1) : pt[p].refs[i].lsn < pt[p].refs[i + 1].lsn
        /\ \A l \in DOMAIN log : IsData(log[l]) => log[l].pid \in DOMAIN pt

\* Every message a page consists of is in memory, or in the file at its place.
PagesAreReadable ==
    mode = "up" => \A p \in DOMAIN pt : \A i \in DOMAIN pt[p].refs :
        LET r == pt[p].refs[i]
        IN r.lsn \in pending \/ read_message(r.lid, r.lsn).kind # "corrupted"

\* A batch is recovered as a whole or not at all (RecoveryGuard).
BatchesAreWhole ==
    mode = "up" => \A l \in DOMAIN log :
        log[l].kind = "manifest" /\ l # batch => log[l].last < tip

\* What was stable when the system crashed is there when it is up again.
KeepsStable ==
    mode = "zero" /\ mode' = "up" =>
        \A l \in DOMAIN log : l <= stable /\ log[l].kind # "cap" => l \in DOMAIN log'
StableIsRecovered == [][KeepsStable]_vars

\* Recovery succeeds: there is one segment for each LSN, the snapshot does not
\* go back, and every page up to the last was found (the errors and panics of
\* advance_snapshot, filter_inner_heap_ids and load_snapshot).
NoFailure == failure = "none"
=============================================================================
