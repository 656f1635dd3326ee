---------------------------- MODULE Transactions ----------------------------
(***************************************************************************)
(* src/src/transaction.rs with apply_batch of src/src/tree.rs and the      *)
(* recovery guard of src/src/pagecache/mod.rs.  A transaction holds the    *)
(* exclusive side of the concurrency control while its closure runs        *)
(* against an overlay of cached reads and pending writes; it then applies  *)
(* the writes tree by tree, between a batch manifest that is reserved in   *)
(* the log and its sealing.  Single operations hold the shared side.       *)
(***************************************************************************)
EXTENDS Naturals, Sequences, SequencesExt

CONSTANTS
    Threads,
    Trees,         \* how many trees a transaction spans: 1..Trees, in the order of its tuple
    Keys, Values, Absent,
    Calls,         \* which calls the threads make
    ClosureOps,    \* which operations a closure makes
    MaxOps,        \* operations of one closure
    MaxCalls,      \* calls altogether
    MaxCrashes,
    MaxErrors      \* storage errors while the writes are applied

Cells == (1..Trees) \X Keys

VARIABLES
    db,           \* the contents of the trees, in memory
    log,          \* the records of the log: writes, batch manifests and canceled manifests
    stable,       \* so many records are known to be on disk, with no batch cut in two
    readers, writer,   \* who holds the concurrency control
    th,           \* the threads
    calls, crashes, errors

vars == <<db, log, stable, readers, writer, th, calls, crashes, errors>>
counts == <<calls, crashes, errors>>

Nil == 0
Empty == [c \in Cells |-> Absent]

\* The parts of an overlay: pending writes and cached reads, by cell; writes
\* and reads are those of all of its trees together.
Overlay == [writes |-> <<>>, cache |-> <<>>, flush |-> {}]

Idle == [pc |-> "idle", call |-> "none", overlay |-> Overlay, peg |-> Nil, goal |-> 0,
         ops |-> <<>>,   \* what the call did, and
         at |-> 0]       \* where the log ended when it took effect: history only

Init ==
    /\ db = Empty /\ log = <<>> /\ stable = 0
    /\ readers = {} /\ writer = Nil
    /\ th = [t \in Threads |-> Idle]
    /\ calls = 0 /\ crashes = 0 /\ errors = 0

\* f with the cells of g added or replaced
Over(f, g) == [c \in DOMAIN f \cup DOMAIN g |-> IF c \in DOMAIN g THEN g[c] ELSE f[c]]
At(c, v) == [x \in {c} |-> v]

Did(reads, writes, flush) == [reads |-> reads, writes |-> writes, flush |-> flush]

Set(t, r) == th' = [th EXCEPT ![t] = r]
----------------------------------------------------------------------------
(* Calls.  A single operation takes the shared side; apply_batch and          *)
(* transactions the exclusive side.                                           *)

Begin(t) ==
    /\ th[t].pc = "idle" /\ calls < MaxCalls
    /\ calls' = calls + 1
    /\ \E call \in Calls :
          Set(t, [Idle EXCEPT !.call = call,
                              !.pc = IF call \in {"apply_batch", "transaction"} THEN "stage"
                                     ELSE "read"])
    /\ UNCHANGED <<db, log, stable, readers, writer, crashes, errors>>

\* concurrency_control::read()
read(t) ==
    /\ th[t].pc = "read" /\ writer = Nil
    /\ readers' = readers \cup {t}
    /\ Set(t, [th[t] EXCEPT !.pc = "single"])
    /\ UNCHANGED <<db, log, stable, writer, counts>>

\* get, insert and remove of a tree, each atomic by itself.  A write of what is
\* there already does nothing.
single(t) ==
    /\ th[t].pc = "single"
    /\ \E c \in Cells :
          \E v \in CASE th[t].call = "insert" -> Values
                     [] th[t].call = "remove" -> {Absent}
                     [] OTHER -> {db[c]} :
             /\ db' = [db EXCEPT ![c] = v]
             /\ log' = IF v = db[c] THEN log
                       ELSE Append(log, [kind |-> "write", cell |-> c, val |-> v, batch |-> 0, last |-> 0])
             /\ Set(t, [th[t] EXCEPT !.pc = "read_return", !.at = Len(log'),
                          !.ops = <<Did(At(c, db[c]), IF th[t].call = "get" THEN <<>> ELSE At(c, v), FALSE)>>])
    /\ UNCHANGED <<stable, readers, writer, counts>>

read_return(t) ==
    /\ th[t].pc = "read_return"
    /\ readers' = readers \ {t}
    /\ Set(t, Idle)
    /\ UNCHANGED <<db, log, stable, writer, counts>>

\* A transaction starts with a new overlay, apply_batch with the batch it was
\* given.
Staged(t) ==
    \/ th[t].call = "transaction" /\ Set(t, [th[t] EXCEPT !.pc = "closure"])
    \/ /\ th[t].call = "apply_batch"
       /\ \E ks \in SUBSET ({1} \X Keys) : \E b \in [ks -> Values \cup {Absent}] :
             Set(t, [th[t] EXCEPT !.pc = "pin_log", !.overlay.writes = b,
                                  !.ops = <<Did(<<>>, b, FALSE)>>])

\* Mutant: operations that hold the shared side are not waited for.
stageUnlocked(t) ==
    /\ th[t].pc = "stage" /\ writer = Nil
    /\ writer' = t
    /\ Staged(t)
    /\ UNCHANGED <<db, log, stable, readers, counts>>

\* concurrency_control::write()
stage(t) ==
    /\ th[t].pc = "stage" /\ readers = {} /\ writer = Nil
    /\ writer' = t
    /\ Staged(t)
    /\ UNCHANGED <<db, log, stable, readers, counts>>
----------------------------------------------------------------------------
(* The closure, against the overlay.                                          *)

\* Mutant: pending writes are not looked at.
getUnderWrites(o, c) == IF c \in DOMAIN o.cache THEN o.cache[c] ELSE db[c]

\* TransactionalTree::get
get(o, c) ==
    IF c \in DOMAIN o.writes THEN o.writes[c]
    ELSE IF c \in DOMAIN o.cache THEN o.cache[c] ELSE db[c]

\* What a get leaves behind: an answer from the tree is cached.
Read(o, c) ==
    IF c \in DOMAIN o.writes \cup DOMAIN o.cache THEN o
    ELSE [o EXCEPT !.cache = Over(o.cache, At(c, db[c]))]

\* TransactionalTree::insert and remove, which first read
Write(o, c, v) == [Read(o, c) EXCEPT !.writes = Over(o.writes, At(c, v))]

ReadAll(o, cs) ==
    [o EXCEPT !.cache = Over(o.cache, [c \in cs \ (DOMAIN o.writes \cup DOMAIN o.cache) |-> db[c]])]

\* TransactionalTree::apply_batch: the same for every key of the batch
WriteBatch(o, b) == [ReadAll(o, DOMAIN b) EXCEPT !.writes = Over(o.writes, b)]

Results(t) ==
    LET o == th[t].overlay IN
    UNION {
      IF "get" \in ClosureOps
      THEN {[overlay |-> Read(o, c), op |-> Did(At(c, get(o, c)), <<>>, FALSE)] : c \in Cells} ELSE {},
      IF "insert" \in ClosureOps
      THEN {[overlay |-> Write(o, c, v), op |-> Did(At(c, get(o, c)), At(c, v), FALSE)] :
               c \in Cells, v \in Values} ELSE {},
      IF "remove" \in ClosureOps
      THEN {[overlay |-> Write(o, c, Absent), op |-> Did(At(c, get(o, c)), At(c, Absent), FALSE)] :
               c \in Cells} ELSE {},
      IF "apply_batch" \in ClosureOps
      THEN {[overlay |-> WriteBatch(o, b), op |-> Did(<<>>, b, FALSE)] :
               b \in UNION {[({i} \X Keys) -> Values \cup {Absent}] : i \in 1..Trees}} ELSE {},
      IF "flush" \in ClosureOps
      THEN {[overlay |-> [o EXCEPT !.flush = @ \cup {i}], op |-> Did(<<>>, <<>>, TRUE)] : i \in 1..Trees}
      ELSE {} }

closure(t) ==
    /\ th[t].pc = "closure" /\ Len(th[t].ops) < MaxOps
    /\ \E r \in Results(t) :
          Set(t, [th[t] EXCEPT !.overlay = r.overlay, !.ops = Append(@, r.op)])
    /\ UNCHANGED <<db, log, stable, readers, writer, counts>>

\* The closure returns Ok.  validate() is always true.
closure_ok(t) ==
    /\ th[t].pc = "closure"
    /\ Set(t, [th[t] EXCEPT !.pc = "pin_log"])
    /\ UNCHANGED <<db, log, stable, readers, writer, counts>>

\* The closure returns Abort, or the Storage error of a read: the lock is
\* dropped, the overlay too.
closure_abort(t) ==
    /\ th[t].pc = "closure"
    /\ writer' = Nil
    /\ Set(t, [th[t] EXCEPT !.pc = "aborted", !.overlay = Overlay])
    /\ UNCHANGED <<db, log, stable, readers, counts>>

\* The closure returns Conflict: the loop starts over with a new overlay.
closure_conflict(t) ==
    /\ th[t].pc = "closure" /\ th[t].ops # <<>>
    /\ writer' = Nil
    /\ Set(t, [Idle EXCEPT !.pc = "stage", !.call = "transaction"])
    /\ UNCHANGED <<db, log, stable, readers, counts>>
----------------------------------------------------------------------------
(* Commit.                                                                    *)

\* pin_log: the manifest is reserved; until it is sealed nothing from it on can
\* be on disk.
pin_log(t) ==
    /\ th[t].pc = "pin_log"
    /\ log' = Append(log, [kind |-> "open", cell |-> <<>>, val |-> Absent, batch |-> 0, last |-> 0])
    /\ Set(t, [th[t] EXCEPT !.pc = "apply", !.peg = Len(log')])
    /\ UNCHANGED <<db, stable, readers, writer, counts>>

\* Trees are applied in their order, the keys of one in any order.
NextCells(w) == {c \in DOMAIN w : \A d \in DOMAIN w : c[1] <= d[1]}

Without(w, c) == [d \in DOMAIN w \ {c} |-> w[d]]

\* apply_batch_inner: insert_inner of one key of one tree
apply(t) ==
    /\ th[t].pc = "apply"
    /\ \E c \in NextCells(th[t].overlay.writes) :
          LET v == th[t].overlay.writes[c] IN
          /\ db' = [db EXCEPT ![c] = v]
          /\ log' = IF v = db[c] THEN log
                    ELSE Append(log, [kind |-> "write", cell |-> c, val |-> v, batch |-> th[t].peg,
                                      last |-> 0])
          /\ Set(t, [th[t] EXCEPT !.overlay.writes = Without(@, c)])
    /\ UNCHANGED <<stable, readers, writer, counts>>

\* insert_inner fails, on a page that cannot be read say: the manifest is
\* canceled as the guard is dropped, the lock is dropped, the error returned.
apply_fails(t) ==
    /\ th[t].pc = "apply" /\ errors < MaxErrors
    /\ NextCells(th[t].overlay.writes) # {}
    /\ errors' = errors + 1
    /\ log' = [log EXCEPT ![th[t].peg].kind = "canceled"]
    /\ writer' = Nil
    /\ Set(t, [th[t] EXCEPT !.pc = "failed", !.overlay = Overlay, !.peg = Nil])
    /\ UNCHANGED <<db, stable, readers, calls, crashes>>

\* mark_writebatch: an empty batch is canceled; another one ends with the last
\* record that was reserved.
Sealed(peg) == IF peg = Len(log) THEN [log EXCEPT ![peg].kind = "canceled"]
               ELSE [log EXCEPT ![peg].kind = "manifest", ![peg].last = Len(log)]

seal_batch(t) ==
    /\ th[t].pc = "apply" /\ NextCells(th[t].overlay.writes) = {}
    /\ log' = Sealed(th[t].peg)
    /\ Set(t, [th[t] EXCEPT !.pc = "unlock", !.peg = Nil, !.at = Len(log')])
    /\ UNCHANGED <<db, stable, readers, writer, counts>>

\* One tree of the transaction asks for a flush.
flush_if_configured(o) == o.flush # {}

\* drop(locks); then the flush begins, which is to cover all that is reserved.
unlock(t) ==
    /\ th[t].pc = "unlock"
    /\ writer' = Nil
    /\ Set(t, [th[t] EXCEPT !.pc = "flush", !.overlay = Overlay,
                            !.goal = IF flush_if_configured(th[t].overlay) THEN Len(log) ELSE 0])
    /\ UNCHANGED <<db, log, stable, readers, counts>>

transaction_return(t) ==
    /\ th[t].pc = "flush" /\ stable >= th[t].goal
    /\ Set(t, Idle)
    /\ UNCHANGED <<db, log, stable, readers, writer, counts>>

error_return(t) ==
    /\ th[t].pc \in {"aborted", "failed"}
    /\ Set(t, Idle)
    /\ UNCHANGED <<db, log, stable, readers, writer, counts>>
----------------------------------------------------------------------------
(* The log.                                                                   *)

\* A part of the log that can be recovered: it holds no open reservation and
\* cuts no batch in two.
Whole(n) ==
    \A i \in 1..n : log[i].kind # "open" /\ (log[i].kind = "manifest" => log[i].last <= n)

stabilize ==
    /\ \E n \in (stable + 1)..Len(log) : Whole(n) /\ stable' = n
    /\ UNCHANGED <<db, log, readers, writer, th, counts>>

\* The contents that the first n records make
Apply(contents, r) == IF r.kind = "write" THEN [contents EXCEPT ![r.cell] = r.val] ELSE contents
Replay(n) ==
    LET after[i \in 0..n] == IF i = 0 THEN Empty ELSE Apply(after[i - 1], log[i]) IN after[n]

\* A crash and the recovery after it: of what was written beyond the stable part
\* any whole batches may be found, from the first on.
crash ==
    /\ crashes < MaxCrashes
    /\ crashes' = crashes + 1
    /\ \E n \in stable..Len(log) :
          /\ Whole(n)
          /\ db' = Replay(n) /\ log' = SubSeq(log, 1, n) /\ stable' = n
    /\ readers' = {} /\ writer' = Nil
    /\ th' = [t \in Threads |-> Idle]
    /\ UNCHANGED <<calls, errors>>

Step(t) ==
    \/ Begin(t) \/ read(t) \/ single(t) \/ read_return(t) \/ stage(t)
    \/ closure(t) \/ closure_ok(t) \/ closure_abort(t) \/ closure_conflict(t)
    \/ pin_log(t) \/ apply(t) \/ apply_fails(t) \/ seal_batch(t) \/ unlock(t)
    \/ transaction_return(t) \/ error_return(t)

Next == (\E t \in Threads : Step(t)) \/ stabilize \/ crash

Spec == Init /\ [][Next]_vars

\* The steps of a thread that goes on, those for which it waits for the lock, and
\* those that end its closure.
Going(t) ==
    \/ single(t) \/ read_return(t) \/ pin_log(t) \/ apply(t) \/ seal_batch(t) \/ unlock(t)
    \/ transaction_return(t) \/ error_return(t)
Getting(t) == stage(t) \/ read(t)
Ending(t) == closure_ok(t) \/ closure_abort(t)

\* A closure does not return Conflict for ever, locks are fair and the log is
\* written.
Fairness ==
    /\ \A t \in Threads : WF_vars(Going(t)) /\ SF_vars(Getting(t)) /\ SF_vars(Ending(t))
    /\ WF_vars(stabilize)

FairSpec == Spec /\ Fairness
----------------------------------------------------------------------------
(* Properties.                                                                *)

PCs == {"idle", "read", "single", "read_return", "stage", "closure", "aborted", "pin_log", "apply",
        "failed", "unlock", "flush"}

\* TypeOK: the store, its log and the threads hold what their fields can hold, and
\* the stable prefix of the log never ends inside a batch.
TypeOK ==
    /\ db \in [Cells -> Values \cup {Absent}]
    /\ stable \in 0..Len(log) /\ Whole(stable)
    /\ readers \subseteq Threads /\ writer \in Threads \cup {Nil}
    /\ writer # Nil => readers = {}
    /\ \A t \in Threads :
          /\ th[t].pc \in PCs /\ Len(th[t].ops) <= MaxOps
          /\ DOMAIN th[t].overlay.writes \subseteq Cells /\ DOMAIN th[t].overlay.cache \subseteq Cells
          /\ th[t].peg \in 0..Len(log)
    /\ calls \in 0..MaxCalls /\ crashes \in 0..MaxCrashes /\ errors \in 0..MaxErrors

\* The versions of the abstract store that the first n records make: the contents
\* after each single write and after each sealed batch.
VersionEnds(n) ==
    {i \in 1..n : /\ log[i].kind = "write"
                  /\ log[i].batch # 0 => log[log[i].batch].last \in {0, i}
                  /\ log[i].batch # 0 => log[log[i].batch].kind # "open"}
Versions(n) ==
    LET upto[i \in 0..n] == IF i = 0 THEN <<Empty>>
                            ELSE IF i \in VersionEnds(n) THEN Append(upto[i - 1], Replay(i))
                            ELSE upto[i - 1]
    IN upto[n]

Outcome(t) ==
    CASE th[t].pc = "idle" -> "idle"
      [] th[t].pc \in {"read_return", "unlock", "flush"} -> "committed"
      [] th[t].pc \in {"aborted", "failed"} -> "aborted"
      [] OTHER -> "running"

Store == INSTANCE SerialStore WITH
    versions <- Versions(Len(log)), flushed <- Len(Versions(stable)),
    ops <- [t \in Threads |-> th[t].ops], outcome <- [t \in Threads |-> Outcome(t)],
    at <- [t \in Threads |-> IF Outcome(t) = "committed" THEN Len(Versions(th[t].at)) ELSE 1]

\* Every call takes effect at one instant, with all of its reads right at that
\* instant; what it wrote is there as a whole or not at all after a crash, and is
\* there if it asked for a flush and returned (transaction, apply_batch).
SerialStoreSpec == Store!Spec

\* A closure sees one state of the trees, with its own writes on top, however
\* the calls around it go or fail (stage, TransactionalTree::get).
ClosureSeesOneState ==
    \A t \in Threads : th[t].pc = "closure" => Store!Legal(db, th[t].ops)

\* What readers see is what recovery would make of the log: no write is in one and
\* not in the other, even when a batch fails half-way (apply_batch_inner).
MemoryFollowsLog == db = Replay(Len(log))

\* A transaction that returns an error has left nothing behind (transaction.rs:1,
\* "Fully serializable (ACID) multi-`Tree` transactions").
ErrorLeavesNothing ==
    \A i \in 1..Len(log) :
        log[i].kind = "write" /\ log[i].batch # 0 => log[log[i].batch].kind # "canceled"

\* Every call returns.
CallsReturn == \A t \in Threads : th[t].pc # "idle" ~> th[t].pc = "idle"
=============================================================================
