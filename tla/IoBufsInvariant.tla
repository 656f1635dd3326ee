-------------------------- MODULE IoBufsInvariant --------------------------
(***************************************************************************)
(* The two inductive invariants of IoBufs. IInv says what threads have     *)
(* loaded, reserved or sealed at each place, and that what is marked is on *)
(* disk; LogInv, on top of it, how buffers follow one another, who holds   *)
(* which bytes, who has to have a buffer written, and where batches lie.   *)
(* Frozen, Bystander and WritersKept are what steps leave alone.           *)
(***************************************************************************)
EXTENDS IoBufs

\* Where a thread is, or will be once maybe_seal_and_write_iobuf returns.
Place(t) ==
    IF pc[t] \in {"seal_cas", "seal_swap", "seal_spawn"} THEN seen[t].after ELSE pc[t]

Reserving == {"reserve", "claim", "bump", "exit", "exit_spawn"}
Batching == {"pin_seal", "batch", "mark_writebatch"}
Stabilizing == {"stable_check", "stable_body", "stable_lock", "waiting", "mark_writebatch"}

\* What a thread has loaded, reserved or is waiting for, at each place.
ThreadOK(t) ==
    /\ pc[t] \in {"claim", "seal_cas", "seal_swap", "seal_spawn"} =>
            seen[t] \in SeenType /\ seen[t].buf \in 1..Cur
    /\ Place(t) \in Reserving => res[t] \in ResType
    /\ pc[t] = "roll_iobuf" /\ op[t] # "roll" => res[t] \in ResType
    /\ pc[t] \in {"bump", "exit", "exit_spawn"} => res[t].buf \in 1..Cur
    /\ Place(t) \in Batching => peg[t] # None
    /\ peg[t] # None => peg[t].buf \in 1..Cur
    /\ Place(t) \in Stabilizing => goal[t] \in Lsn

\* A header that is going to be swapped is open, a claim fits the buffer, and
\* who replaces a buffer or hands it to the threadpool knows it to be sealed.
HandoverOK(t) ==
    /\ pc[t] \in {"claim", "seal_cas"} => ~seen[t].header.sealed
    /\ pc[t] = "claim" =>
            seen[t].header.offset + res[t].len <= bufs[seen[t].buf].capacity
    /\ pc[t] \in {"seal_swap", "seal_spawn"} => bufs[seen[t].buf].sealed
    /\ pc[t] = "exit_spawn" => bufs[res[t].buf].sealed

BufsOK == \A i \in 1..Cur : bufs[i].offset <= bufs[i].capacity

\* What is on disk, or on its way there, is sealed.
DiskOK ==
    /\ disk \subseteq 1..Cur
    /\ \A i \in disk : bufs[i].sealed
    /\ \A x \in tasks : x.buf \in 1..Cur /\ bufs[x.buf].sealed
    /\ \A x \in tasks : x.stage = "synced" => x.buf \in disk

\* What the intervals say is written is written.
IntervalsOK ==
    /\ IsFiniteSet(intervals.synced)
    /\ \A lsn \in intervals.synced : OnDisk(lsn)
    /\ \A lsn \in StartLsn..intervals.stable : OnDisk(lsn)
    /\ stable_lsn <= intervals.stable

\* The two halves of the inductive invariant.
LocalsOK ==
    /\ pc \in [Threads -> Labels]
    /\ op \in [Threads -> OpNames \cup {"none"}]
    /\ seen \in [Threads -> SeenType \cup {None}]
    /\ res \in [Threads -> ResType \cup {None}]
    /\ peg \in [Threads -> ResType \cup {None}]
    /\ goal \in [Threads -> Lsn \cup {None}]
    /\ \A t \in Threads : ThreadOK(t) /\ HandoverOK(t)

SharedOK ==
    /\ bufs \in Seq(BufType) /\ bufs # <<>>
    /\ tasks \subseteq TaskType /\ disk \subseteq Nat
    /\ intervals \in IntervalsType
    /\ stable_lsn \in Lsn /\ max_reserved \in Lsn /\ error \in BOOLEAN
    /\ page \in Nat \cup {None}
    /\ BufsOK /\ DiskOK /\ IntervalsOK

IInv == LocalsOK /\ SharedOK

\* Buffers are only added, and sealed ones are never changed.
Frozen ==
    /\ Cur <= Cur'
    /\ \A i \in 1..Cur :
        /\ bufs'[i].lsn = bufs[i].lsn /\ bufs'[i].capacity = bufs[i].capacity
        /\ bufs[i].sealed => /\ bufs'[i].sealed /\ bufs'[i].offset = bufs[i].offset
                             /\ bufs'[i].maxed = bufs[i].maxed

\* pc, possibly after a notification.
Wakes(p) == p \in {pc, NotifyAll(pc)}

Bystander(u) ==
    /\ pc'[u] = pc[u] \/ (pc[u] = "waiting" /\ pc'[u] = "stable_body")
    /\ op'[u] = op[u] /\ seen'[u] = seen[u] /\ res'[u] = res[u]
    /\ peg'[u] = peg[u] /\ goal'[u] = goal[u]

\* The end of the log.
Tip == End(bufs[Cur])

\* The buffers follow one another, and only the last one may be open.  A buffer
\* reaches to the end of its segment, where one that is not maxed leaves room.
Chain ==
    \A i \in 1..Cur :
        /\ \A j \in 1..Cur : i < j => bufs[i].sealed /\ End(bufs[i]) <= bufs[j].lsn
        /\ ~bufs[i].sealed => ~bufs[i].maxed
        /\ bufs[i].lsn + bufs[i].capacity = NextSegment(bufs[i].lsn)
        /\ bufs[i].sealed /\ ~bufs[i].maxed =>
                bufs[i].capacity - bufs[i].offset >= MaxMsgHeaderLen

\* Two reservations that share no byte.
Apart(r, s) == r.lsn + r.len <= s.lsn \/ s.lsn + s.len <= r.lsn

\* A reservation within its buffer, which counts its holder as a writer.
Inside(r) ==
    /\ r \in ResType /\ r.buf \in 1..Cur /\ r.lsn \in bufs[r.buf].writers
    /\ bufs[r.buf].lsn <= r.lsn
    /\ r.lsn + r.len <= bufs[r.buf].lsn + bufs[r.buf].offset
    /\ bufs[r.buf].lsn + bufs[r.buf].capacity - r.lsn >= MaxMsgHeaderLen

\* What thread t holds: a reservation, a manifest.
Claimed(t) == {r \in {res[t]} : pc[t] \in {"bump", "exit"}}
Pegged(t) == {r \in {peg[t]} : peg[t] # None}
HeldBy(t) == Claimed(t) \cup Pegged(t)

Counted == \A i \in 1..Cur : \A lsn \in bufs[i].writers :
               \E t \in Threads : \E r \in HeldBy(t) : r.buf = i /\ r.lsn = lsn

HeldOK ==
    /\ \A t \in Threads : \A r \in HeldBy(t) : Inside(r)
    /\ \A t, u \in Threads : t # u => \A r \in HeldBy(t), s \in HeldBy(u) : Apart(r, s)
    /\ \A t \in Threads : \A r \in Claimed(t), s \in Pegged(t) : Apart(r, s)
    /\ HeapErrors \/ Counted

\* The buffer that thread t has to hand to the threadpool, or zero.
Duty(t) ==
    IF pc[t] = "exit_spawn" THEN res[t].buf
    ELSE IF pc[t] \in {"seal_swap", "seal_spawn"} /\ seen[t].header.writers = {}
         THEN seen[t].buf
         ELSE 0

Queued(i) == \E x \in tasks : x.buf = i /\ x.stage = "queued"

\* A buffer is nobody's duty before it is sealed and empty, and then one thread's or
\* one task's until it is on disk.
DutiesOK ==
    /\ \A t \in Threads : Duty(t) # 0 =>
            /\ bufs[Duty(t)].sealed /\ bufs[Duty(t)].writers = {}
            /\ Duty(t) \notin disk /\ ~Queued(Duty(t))
            /\ \A u \in Threads : Duty(u) = Duty(t) => u = t
    /\ \A x \in tasks : bufs[x.buf].writers = {} /\ (x.stage = "queued" <=> x.buf \notin disk)
    /\ \A x, y \in tasks : x.buf = y.buf => x = y
    /\ \A i \in disk : bufs[i].writers = {}
    /\ \A i \in 1..Cur : bufs[i].sealed /\ bufs[i].writers = {} =>
            error \/ i \in disk \/ Queued(i) \/ \E t \in Threads : Duty(t) = i

\* A buffer on disk that mark_interval has not seen yet.
Unmarked(i) == \E x \in tasks : x.buf = i /\ x.stage = "synced"

\* What the intervals say is written was marked.
MarksOK ==
    \A lsn \in intervals.synced \cup (StartLsn..intervals.stable) :
        \E i \in disk : lsn \in Extent(bufs[i]) /\ ~Unmarked(i)

\* A thread that installs a buffer has sealed the current one, one that goes on to
\* hand it over found it empty, and a claim is out of the red zone.
SealerOK(t) ==
    /\ pc[t] = "seal_swap" => seen[t].buf = Cur
    /\ pc[t] = "seal_spawn" => seen[t].header.writers = {}
    /\ pc[t] = "claim" =>
            bufs[seen[t].buf].capacity - seen[t].header.offset >= MaxMsgHeaderLen
    /\ res[t] # None => res[t].len > 1
    /\ peg[t] # None => peg[t].len > 1

\* A manifest that t holds, or is about to hold, lies above all recorded batches.
BatchOK(t) ==
    /\ pc[t] = "idle" => peg[t] = None
    /\ peg[t] # None => /\ op[t] = "batch" /\ peg[t].lsn + peg[t].len - 1 <= max_reserved
                        /\ \A b \in intervals.batches : b.high < peg[t].lsn
    /\ pc[t] = "bump" /\ IsManifest(t) => \A b \in intervals.batches : b.high < res[t].lsn
    /\ pc[t] = "mark_writebatch" => peg[t].lsn + peg[t].len - 1 <= goal[t] /\ goal[t] < Tip

\* One thread at most installs a buffer, and one at most runs a batch.
AloneOK ==
    \A t, u \in Threads :
        \/ pc[t] = "seal_swap" /\ pc[u] = "seal_swap"
        \/ op[t] = "batch" /\ op[u] = "batch"
        => t = u

\* The recorded batches lie apart, below the end of the log and above what is stable.
BatchesOK ==
    /\ max_reserved < Tip /\ StartLsn - 1 <= stable_lsn
    /\ \A b \in intervals.batches : b.low < b.high /\ b.high < Tip /\ stable_lsn < b.low
    /\ \A b, c \in intervals.batches : b # c => b.high < c.low \/ c.high < b.low

LogInv ==
    /\ Chain /\ HeldOK /\ DutiesOK /\ MarksOK /\ BatchesOK /\ AloneOK
    /\ \A t \in Threads : SealerOK(t) /\ BatchOK(t)

\* Nobody enters or leaves a buffer.
WritersKept ==
    /\ \A i \in 1..Cur : bufs'[i].writers = bufs[i].writers /\ bufs'[i].offset >= bufs[i].offset
    /\ \A i \in 1..Cur' : i \notin 1..Cur => bufs'[i].writers = {}
============================================================================
