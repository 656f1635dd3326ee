------------------------------ MODULE Shutdown ------------------------------
(***************************************************************************)
(* The periodic flusher and what dropping a database does                  *)
(* (src/src/flusher.rs, src/src/context.rs, Log::drop in                   *)
(* src/src/pagecache/logger.rs).                                           *)
(*                                                                         *)
(* Db, Tree and friends hold a Context: an Arc of the flusher and an Arc   *)
(* of the page cache.  The last Context to go drops the flusher (which is  *)
(* told to stop, and joined) and then its reference to the page cache.     *)
(* The flusher thread and a snapshot task of the thread pool hold page     *)
(* caches of their own; whoever lets go of the last one runs Log::drop,    *)
(* which flushes the log and syncs the file.                               *)
(*                                                                         *)
(* A write is a number; the log knows how many are in the open buffer,     *)
(* how many are in a sealed buffer handed to the pool, and how many are    *)
(* on disk.                                                                *)
(***************************************************************************)
EXTENDS Naturals, FiniteSets

CONSTANTS
    Users,       \* threads, each with a clone of the Context
    MaxWrites,   \* bound: writes to the log
    Snapshots,   \* BOOLEAN: a write may start a snapshot on the pool
    Faults       \* BOOLEAN: writing a buffer may fail

Nobody == "nobody"
Flusher == "flusher"
Snapshot == "snapshot"
Contexts == "contexts"

VARIABLES
    users,       \* the users that still hold a Context
    pagecache,   \* who holds the page cache: contexts, flusher, snapshot
    shutdown,    \* Flusher::shutdown
    mutex,       \* who holds the mutex around it
    flusher,     \* the flusher thread: pc, wrote_data
    dropper,     \* the user that drops the last Context, and its pc
    closing,     \* Log::drop: who runs it, and its pc
    snap,        \* the snapshot task's pc
    log,         \* open, sealed, durable: numbers of writes
    error        \* RunningConfig::global_error is set

vars == <<users, pagecache, shutdown, mutex, flusher, dropper, closing, snap,
          log, error>>

Written == log.open + log.sealed + log.durable

Buffers == [open : 0..MaxWrites, sealed : 0..MaxWrites, durable : 0..MaxWrites]

\* TypeOK: the handles, the flusher and the buffers hold what the fields of Db,
\* Flusher and IoBufs can hold.
TypeOK ==
    /\ users \subseteq Users
    /\ pagecache \subseteq {Contexts, Flusher, Snapshot}
    /\ shutdown \in {"Running", "ShuttingDown", "ShutDown"}
    /\ mutex \in Users \cup {Nobody, Flusher}
    /\ flusher \in [pc : {"lock", "roll", "gc", "sync", "sleep", "notify", "done"},
                    wrote_data : BOOLEAN]
    /\ dropper \in [by : Users \cup {Nobody},
                    pc : {"none", "lock", "wait", "join", "release", "done"}]
    /\ closing \in [by : Users \cup {Nobody, Flusher, Snapshot},
                    pc : {"none", "check", "flush", "done"}]
    /\ snap \in {"none", "seal", "wait", "drop", "done"}
    /\ log \in Buffers
    /\ error \in BOOLEAN

Init ==
    /\ users = Users
    /\ pagecache = {Contexts, Flusher}
    /\ shutdown = "Running"
    /\ mutex = Nobody
    /\ flusher = [pc |-> "lock", wrote_data |-> FALSE]
    /\ dropper = [by |-> Nobody, pc |-> "none"]
    /\ closing = [by |-> Nobody, pc |-> "none"]
    /\ snap = "none"
    /\ log = [open |-> 0, sealed |-> 0, durable |-> 0]
    /\ error = FALSE

-----------------------------------------------------------------------------
(* The log as its users see it.                                            *)

Sealed(l) == [l EXCEPT !.open = 0, !.sealed = @ + l.open]

\* An operation of a user: one message.  Every so often a link starts a
\* snapshot, which takes a clone of the page cache along.
write(u) ==
    /\ u \in users
    /\ ~error
    /\ Written < MaxWrites
    /\ log' = [log EXCEPT !.open = @ + 1]
    /\ \/ UNCHANGED <<snap, pagecache>>
       \/ /\ Snapshots /\ snap = "none"
          /\ snap' = "seal"
          /\ pagecache' = pagecache \cup {Snapshot}
    /\ UNCHANGED <<users, shutdown, mutex, flusher, dropper, closing, error>>

\* A thread of the pool writes and syncs the sealed buffers, or fails and
\* sets the global error.
write_to_log ==
    /\ log.sealed > 0 /\ ~error
    /\ \/ /\ log' = [log EXCEPT !.sealed = 0, !.durable = @ + log.sealed]
          /\ UNCHANGED error
       \/ /\ Faults
          /\ error' = TRUE
          /\ UNCHANGED log
    /\ UNCHANGED <<users, pagecache, shutdown, mutex, flusher, dropper, closing,
                   snap>>

-----------------------------------------------------------------------------
(* The flusher thread.  It holds the mutex except while it sleeps.         *)

\* The head of the loop, with the mutex just taken.
run_lock ==
    /\ flusher.pc \in {"lock", "sleep"}
    /\ mutex = Nobody
    /\ mutex' = Flusher
    /\ flusher' = [flusher EXCEPT !.pc = "roll"]
    /\ UNCHANGED <<users, pagecache, shutdown, dropper, closing, snap, log, error>>

\* The loop's condition.
Continues(wrote_data) == shutdown = "Running" \/ wrote_data

\* Mutant: the thread ends without recording it.
LeaveSilently(wrote_data) ==
    /\ mutex' = Nobody
    /\ flusher' = [pc |-> "notify", wrote_data |-> wrote_data]
    /\ UNCHANGED shutdown

\* Every way out of run records ShutDown before the mutex is released.
Leave(wrote_data) ==
    /\ shutdown' = "ShutDown"
    /\ mutex' = Nobody
    /\ flusher' = [pc |-> "notify", wrote_data |-> wrote_data]

\* The loop's condition and roll_iobuf: the buffer is sealed, not awaited.
\* While shutting down the loop rolls again at once, until it finds nothing.
roll_iobuf ==
    /\ flusher.pc = "roll"
    /\ IF ~Continues(flusher.wrote_data) \/ error
       THEN Leave(flusher.wrote_data) /\ UNCHANGED log
       ELSE IF log.open = 0
       THEN /\ IF shutdown # "Running"
               THEN Leave(FALSE)
               ELSE /\ flusher' = [pc |-> "gc", wrote_data |-> FALSE]
                    /\ UNCHANGED <<shutdown, mutex>>
            /\ UNCHANGED log
       ELSE /\ log' = Sealed(log)
            /\ flusher' = [pc |-> IF shutdown = "Running" THEN "gc" ELSE "roll",
                           wrote_data |-> TRUE]
            /\ UNCHANGED <<shutdown, mutex>>
    /\ UNCHANGED <<users, pagecache, dropper, closing, snap, error>>

\* attempt_gc: moves pages, each a write, as long as there is time.
attempt_gc ==
    /\ flusher.pc = "gc"
    /\ IF error
       THEN Leave(flusher.wrote_data) /\ UNCHANGED log
       ELSE /\ \/ /\ Written < MaxWrites
                  /\ log' = [log EXCEPT !.open = @ + 1]
                  /\ \/ UNCHANGED flusher
                     \/ flusher' = [flusher EXCEPT !.pc = "sync"]
               \/ /\ UNCHANGED log
                  /\ flusher' = [flusher EXCEPT !.pc = "sync"]
            /\ UNCHANGED <<shutdown, mutex>>
    /\ UNCHANGED <<users, pagecache, dropper, closing, snap, error>>

\* sync_all, and the sleep on the condition variable if still running: the
\* mutex is released; the sleep ends by a notification or by itself.
sync_all ==
    /\ flusher.pc = "sync"
    /\ IF shutdown = "Running"
       THEN /\ flusher' = [flusher EXCEPT !.pc = "sleep"]
            /\ mutex' = Nobody
       ELSE /\ flusher' = [flusher EXCEPT !.pc = "roll"]
            /\ UNCHANGED mutex
    /\ UNCHANGED <<users, pagecache, shutdown, dropper, closing, snap, log, error>>

\* notify_all, and the end of the thread, which drops its page cache.
run_end ==
    /\ flusher.pc = "notify"
    /\ flusher' = [flusher EXCEPT !.pc = "done"]
    /\ pagecache' = pagecache \ {Flusher}
    /\ closing' = IF pagecache = {Flusher}
                  THEN [by |-> Flusher, pc |-> "check"] ELSE closing
    /\ UNCHANGED <<users, shutdown, mutex, dropper, snap, log, error>>

-----------------------------------------------------------------------------
(* Dropping the Contexts.                                                  *)

drop_context(u) ==
    /\ u \in users
    /\ users' = users \ {u}
    /\ dropper' = IF users = {u} THEN [by |-> u, pc |-> "lock"] ELSE dropper
    /\ UNCHANGED <<pagecache, shutdown, mutex, flusher, closing, snap, log, error>>

\* Flusher::drop: ask the thread to stop.
drop_lock ==
    /\ dropper.pc = "lock"
    /\ mutex = Nobody
    /\ shutdown' = IF shutdown = "Running" THEN "ShuttingDown" ELSE shutdown
    /\ dropper' = [dropper EXCEPT !.pc = "wait"]
    /\ UNCHANGED <<users, pagecache, mutex, flusher, closing, snap, log, error>>

\* Each time the wait ends (notified, or 100 ms) the state is read again
\* under the mutex.
drop_wait ==
    /\ dropper.pc = "wait"
    /\ mutex = Nobody
    /\ shutdown = "ShutDown"
    /\ dropper' = [dropper EXCEPT !.pc = "join"]
    /\ UNCHANGED <<users, pagecache, shutdown, mutex, flusher, closing, snap, log,
                   error>>

drop_join ==
    /\ dropper.pc = "join"
    /\ flusher.pc = "done"
    /\ dropper' = [dropper EXCEPT !.pc = "release"]
    /\ UNCHANGED <<users, pagecache, shutdown, mutex, flusher, closing, snap, log,
                   error>>

\* The Context's next field: its page cache.
drop_pagecache ==
    /\ dropper.pc = "release"
    /\ IF Contexts \in pagecache
       THEN /\ pagecache' = pagecache \ {Contexts}
            /\ IF pagecache = {Contexts}
               THEN /\ closing' = [by |-> dropper.by, pc |-> "check"]
                    /\ UNCHANGED dropper
               ELSE /\ dropper' = [dropper EXCEPT !.pc = "done"]
                    /\ UNCHANGED closing
       ELSE /\ closing.pc = "done"
            /\ dropper' = [dropper EXCEPT !.pc = "done"]
            /\ UNCHANGED <<pagecache, closing>>
    /\ UNCHANGED <<users, shutdown, mutex, flusher, snap, log, error>>

-----------------------------------------------------------------------------
(* The snapshot task: it makes the log stable, writes its file (not shown), *)
(* and lets go of its page cache.                                          *)

take_fuzzy_snapshot ==
    /\ \/ /\ snap = "seal"
          /\ snap' = "wait"
          /\ log' = IF error THEN log ELSE Sealed(log)
          /\ UNCHANGED <<pagecache, closing>>
       \/ /\ snap = "wait"
          /\ log.sealed = 0 \/ error
          /\ snap' = "drop"
          /\ UNCHANGED <<log, pagecache, closing>>
       \/ /\ snap = "drop"
          /\ snap' = "done"
          /\ pagecache' = pagecache \ {Snapshot}
          /\ closing' = IF pagecache = {Snapshot}
                        THEN [by |-> Snapshot, pc |-> "check"] ELSE closing
          /\ UNCHANGED log
    /\ UNCHANGED <<users, shutdown, mutex, flusher, dropper, error>>

-----------------------------------------------------------------------------
(* Log::drop, by the thread that held the last page cache.                 *)

\* Mutant: the file is synced but the open buffer is not sealed.
log_dropNoFlush ==
    /\ closing.pc = "check"
    /\ closing' = [closing EXCEPT !.pc = "flush"]
    /\ UNCHANGED <<users, pagecache, shutdown, mutex, flusher, dropper, snap, log,
                   error>>

log_drop ==
    /\ closing.pc = "check"
    /\ closing' = [closing EXCEPT !.pc = IF error THEN "done" ELSE "flush"]
    /\ log' = IF error THEN log ELSE Sealed(log)
    /\ UNCHANGED <<users, pagecache, shutdown, mutex, flusher, dropper, snap,
                   error>>

log_dropped ==
    /\ closing.pc = "flush"
    /\ log.sealed = 0 \/ error
    /\ closing' = [closing EXCEPT !.pc = "done"]
    /\ UNCHANGED <<users, pagecache, shutdown, mutex, flusher, dropper, snap, log,
                   error>>

FlusherNext == run_lock \/ roll_iobuf \/ attempt_gc \/ sync_all \/ run_end
DropperNext == drop_lock \/ drop_wait \/ drop_join \/ drop_pagecache
CloserNext == log_drop \/ log_dropped

Next ==
    \/ \E u \in Users : write(u) \/ drop_context(u)
    \/ write_to_log
    \/ FlusherNext
    \/ DropperNext
    \/ take_fuzzy_snapshot
    \/ CloserNext

Spec == Init /\ [][Next]_vars

(* Threads that can run do; the mutex is handed over in the end to whoever *)
(* waits for it, although the flusher takes it again and again, because    *)
(* the flusher sleeps in between.                                          *)
FairSpec ==
    /\ Spec
    /\ WF_vars(write_to_log)
    /\ WF_vars(FlusherNext)
    /\ SF_vars(DropperNext)
    /\ WF_vars(take_fuzzy_snapshot)
    /\ WF_vars(CloserNext)

-----------------------------------------------------------------------------

\* The thread that drops the last Context comes back, whatever the flusher is
\* doing at the time, also when it met an error (flusher.rs, Drop).
DropReturns == dropper.pc = "lock" ~> dropper.pc = "done"

\* The flusher thread has ended when the drop goes on past it: it touches
\* neither the log nor the file while they are being closed (the join).
FlusherIsGone ==
    dropper.pc \in {"release", "done"} =>
        flusher.pc = "done" /\ Flusher \notin pagecache

\* Log::drop is run once all holders of the page cache are gone, and leaves
\* every write on disk unless an error was recorded.
NothingLostAtClose ==
    closing.pc = "done" => pagecache = {} /\ (~error => log.durable = Written)

\* When the last Context has been dropped, everything is cleaned up: the log
\* is flushed and the file can be opened again (context.rs, Context::flusher).
DropIsSynchronous ==
    dropper.pc = "done" => closing.pc = "done"
=============================================================================
