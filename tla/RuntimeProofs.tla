---------------------------- MODULE RuntimeProofs ----------------------------
(***************************************************************************)
(* Proofs about the parts that the tree and the page cache run on: the     *)
(* concurrency control, lazy values, the shutdown of a database and the    *)
(* thread pool.  The concurrency control is extended; the others are       *)
(* instances over variables of their own.                                  *)
(***************************************************************************)
EXTENDS ConcurrencyControl, Sequences, FiniteSets, TLAPS
USE ZenonT(30)
-----------------------------------------------------------------------------
(* Concurrency control: mutual exclusion of batches and shared operations, *)
(* for any number of threads, across the upgrade from the counter to the   *)
(* lock.                                                                   *)

\* Where a thread can only be after RW_REQUIRED_BIT was set.
AfterBit == {"uncount", "want_read", "reading", "draining", "drained",
             "want_upgrade", "want_write", "writing"}

\* The counter and the lock record exactly the threads they should, and nobody
\* is inside on a count once the drain has been observed.
Inv ==
    /\ TypeOK
    /\ counted = {t \in Threads : pc[t] \in {"counting", "uncount"}}
    /\ readers = {t \in Threads : pc[t] = "reading"}
    /\ \A t \in Threads : pc[t] = "writing" <=> writer = t
    /\ writer # None => readers = {}
    /\ \A t \in Threads : pc[t] \in AfterBit => required
    /\ upgrade_complete => required
    /\ \A t \in Threads : pc[t] \in {"want_write", "writing"} => upgrade_complete
    /\ \A t, u \in Threads :
            upgrade_complete \/ pc[t] = "drained" => pc[u] # "counting"

\* The initial state satisfies the invariant.
LEMMA InitInv == Init => Inv
  BY NoneAssumption DEF Init, Inv, TypeOK, Labels, AfterBit

\* Each action of a thread preserves the invariant.
LEMMA NextInv == Inv /\ [Next]_vars => Inv'
<1> SUFFICES ASSUME Inv, [Next]_vars PROVE Inv'
  OBVIOUS
<1> USE NoneAssumption DEF Inv, TypeOK, Labels, AfterBit, Goto
<1>1. ASSUME NEW t \in Threads, read(t) PROVE Inv'
  BY <1>1 DEF read
<1>2. ASSUME NEW t \in Threads, read_uncount(t) PROVE Inv'
  BY <1>2 DEF read_uncount
<1>3. ASSUME NEW t \in Threads, read_lock(t) PROVE Inv'
  BY <1>3 DEF read_lock
<1>4. ASSUME NEW t \in Threads, enable(t) PROVE Inv'
  BY <1>4 DEF enable
<1>5. ASSUME NEW t \in Threads, enable_drained(t) PROVE Inv'
  BY <1>5 DEF enable_drained
<1>6. ASSUME NEW t \in Threads, enable_complete(t) PROVE Inv'
  BY <1>6 DEF enable_complete
<1>7. ASSUME NEW t \in Threads, write_upgraded(t) PROVE Inv'
  BY <1>7 DEF write_upgraded
<1>8. ASSUME NEW t \in Threads, write_lock(t) PROVE Inv'
  BY <1>8 DEF write_lock
<1>9. ASSUME NEW t \in Threads, drop_counted(t) PROVE Inv'
  BY <1>9 DEF drop_counted
<1>10. ASSUME NEW t \in Threads, drop_read(t) PROVE Inv'
  BY <1>10 DEF drop_read
<1>11. ASSUME NEW t \in Threads, drop_write(t) PROVE Inv'
  BY <1>11 DEF drop_write
<1>12. CASE UNCHANGED vars
  BY <1>12 DEF vars
<1> QED
  BY <1>1, <1>2, <1>3, <1>4, <1>5, <1>6, <1>7, <1>8, <1>9, <1>10, <1>11, <1>12
     DEF Next, Acquire, Drop

\* The invariant contains every property claimed below.
LEMMA InvImplies == Inv => TypeOK /\ Exclusion /\ UpgradeIsFinal
  BY NoneAssumption DEF Inv, TypeOK, Exclusion, UpgradeIsFinal, Shared

\* The counter, the lock and the threads keep their types.
THEOREM TypeCorrect == Spec => []TypeOK
  BY InitInv, NextInv, InvImplies, PTL DEF Spec

\* concurrency_control::write() excludes every other protector.
THEOREM MutualExclusion == Spec => []Exclusion
  BY InitInv, NextInv, InvImplies, PTL DEF Spec

\* After the upgrade no thread is inside on a count.
THEOREM UpgradeFinal == Spec => []UpgradeIsFinal
  BY InitInv, NextInv, InvImplies, PTL DEF Spec

-----------------------------------------------------------------------------
(* Lazy: the value is made once, for every number of calls.                *)
CONSTANT MaxDerefs
VARIABLES value, init_mu, lazy_pc, seen, made, calls, failed

Value == INSTANCE Lazy WITH pc <- lazy_pc

Locked == {"check", "init", "swap", "unlock"}

\* The spin lock has one holder, whoever initializes has found nothing under
\* the lock, and the pointer is published only when the value is complete.
LazyInv ==
  /\ made \in {0, 1} /\ value \in {0, 1} /\ init_mu \in BOOLEAN
  /\ failed = FALSE
  /\ lazy_pc \in [Threads -> {"idle", "lock", "return"} \cup Locked]
  /\ seen \in [Threads -> {0, 1}]
  /\ value = 1 => made = 1
  /\ \A t \in Threads : lazy_pc[t] \in Locked => init_mu
  /\ \A t, u \in Threads : lazy_pc[t] \in Locked /\ lazy_pc[u] \in Locked => t = u
  /\ \A t \in Threads :
        /\ lazy_pc[t] = "init" => value = 0 /\ made = 0
        /\ lazy_pc[t] = "swap" => value = 0 /\ seen[t] = 1 /\ made = 1
        /\ lazy_pc[t] \in {"unlock", "return"} => seen[t] = 1 /\ value = 1
  \* A value that was made is published, or about to be.
  /\ made = 1 /\ value = 0 => \E t \in Threads : lazy_pc[t] = "swap"

\* Nothing is made at first.
LEMMA LazyInit == Value!Init => LazyInv
<1> SUFFICES ASSUME Value!Init PROVE LazyInv
  OBVIOUS
<1>1. \A t \in Threads : lazy_pc[t] = "idle" /\ seen[t] = 0
  BY DEF Value!Init, Value!Null
<1>2. lazy_pc \in [Threads -> {"idle", "lock", "return"} \cup Locked] /\ seen \in [Threads -> {0, 1}]
  BY DEF Value!Init, Value!Null
<1>3. made = 0 /\ value = 0 /\ init_mu \in BOOLEAN /\ failed = FALSE
  BY DEF Value!Init, Value!Null
<1> QED
  BY SMTT(30), <1>1, <1>2, <1>3 DEF LazyInv, Locked

\* One step per action of deref; only check, init and swap touch the value.
LEMMA LazyNext == LazyInv /\ [Value!Next]_(Value!vars) => LazyInv'
<1> SUFFICES ASSUME LazyInv, [Value!Next]_(Value!vars) PROVE LazyInv'
  OBVIOUS
<1>1. ASSUME NEW t \in Threads, Value!deref(t) PROVE LazyInv'
  BY <1>1 DEF LazyInv, Value!deref, Value!at, Value!go, Value!Null, Locked
<1>2. ASSUME NEW t \in Threads, Value!lock(t) PROVE LazyInv'
  BY <1>2 DEF LazyInv, Value!lock, Value!at, Value!go, Locked
<1>3. ASSUME NEW t \in Threads, Value!check(t) PROVE LazyInv'
  BY <1>3 DEF LazyInv, Value!check, Value!at, Value!go, Value!Null, Locked
<1>4. ASSUME NEW t \in Threads, Value!init(t) PROVE LazyInv'
  BY SMTT(30), <1>4 DEF LazyInv, Value!init, Value!at, Value!go, Locked
<1>5. ASSUME NEW t \in Threads, Value!swap(t) PROVE LazyInv'
  <2>1. lazy_pc[t] = "swap" /\ value = 0 /\ seen[t] = 1 /\ made = 1
    BY <1>5 DEF LazyInv, Value!swap, Value!at
  <2>2. failed' = FALSE
    BY <1>5, <2>1 DEF LazyInv, Value!swap, Value!Null
  <2>3. /\ value' = 1 /\ lazy_pc' = [lazy_pc EXCEPT ![t] = "unlock"]
        /\ UNCHANGED <<init_mu, seen, made>>
    BY <1>5, <2>1 DEF Value!swap, Value!go
  <2> QED
    BY SMTT(30), <2>1, <2>2, <2>3 DEF LazyInv, Locked
<1>6. ASSUME NEW t \in Threads, Value!unlock(t) PROVE LazyInv'
  BY <1>6 DEF LazyInv, Value!unlock, Value!at, Value!go, Locked
<1>7. ASSUME NEW t \in Threads, Value!return(t) PROVE LazyInv'
  BY <1>7 DEF LazyInv, Value!return, Value!at, Value!go, Value!Null, Locked
<1>8. CASE UNCHANGED Value!vars
  BY <1>8 DEF LazyInv, Value!vars, Locked
<1> QED
  BY <1>1, <1>2, <1>3, <1>4, <1>5, <1>6, <1>7, <1>8 DEF Value!Next, Value!Step

\* The initializer runs at most once, everyone returns with its value, and
\* the assertions on the old pointer and on the lock of deref hold.
THEOREM Once == Value!Spec => []Value!MadeOnce
<1>1. LazyInv => Value!MadeOnce
  BY SMTT(30) DEF LazyInv, Value!MadeOnce
<1> QED
  BY LazyInit, LazyNext, <1>1, PTL DEF Value!Spec

-----------------------------------------------------------------------------
(* Shutdown: what Log::drop leaves, and when the flusher is gone, for any  *)
(* number of users and of writes.                                          *)
CONSTANTS Users, MaxWrites, Snapshots, Faults
VARIABLES users, pagecache, shutdown, mutex, flusher, dropper, closing, snap, log, error

Close == INSTANCE Shutdown

\* What the constants of Shutdown are: the names of threads are not users.
ShutdownConstants ==
  /\ MaxWrites \in Nat
  /\ {Close!Nobody, Close!Flusher, Close!Snapshot} \cap Users = {}

\* Whoever may still write holds the page cache, Log::drop begins when nobody
\* does, and from then on the open buffer, and later the sealed one, stays empty.
CloseInv ==
  /\ Close!TypeOK
  /\ Close!Written <= MaxWrites
  /\ dropper.pc # "none" => users = {}
  /\ Close!Contexts \notin pagecache => dropper.pc \in {"release", "done"}
  /\ Close!Flusher \in pagecache <=> flusher.pc # "done"
  /\ Close!Snapshot \in pagecache <=> snap \in {"seal", "wait", "drop"}
  /\ dropper.pc \in {"release", "done"} => flusher.pc = "done"
  /\ closing.pc = "none" <=> pagecache # {}
  /\ closing.pc \in {"flush", "done"} /\ ~error => log.open = 0
  /\ closing.pc = "done" /\ ~error => log.sealed = 0
  /\ ~Snapshots => /\ snap = "none"
                   /\ dropper.pc = "done" => closing.pc = "done"

\* The buffers count writes.
LEMMA BuffersAre ==
  ASSUME MaxWrites \in Nat
  PROVE  /\ \A l \in Close!Buffers : /\ l.open \in Nat /\ l.sealed \in Nat /\ l.durable \in Nat
                                    /\ l = [open |-> l.open, sealed |-> l.sealed,
                                             durable |-> l.durable]
         /\ \A a, b, c \in Nat :
               a + b + c <= MaxWrites =>
                 [open |-> a, sealed |-> b, durable |-> c] \in Close!Buffers
<1>1. \A a, b, c \in Nat :
         a + b + c <= MaxWrites => a \in 0..MaxWrites /\ b \in 0..MaxWrites /\ c \in 0..MaxWrites
  BY SMTT(30)
<1> QED
  BY SMTT(30), <1>1 DEF Close!Buffers

\* The invariant holds when the database is opened.
LEMMA CloseInit == ASSUME ShutdownConstants PROVE Close!Init => CloseInv
<1> SUFFICES ASSUME Close!Init PROVE CloseInv
  OBVIOUS
<1>1. log = [open |-> 0, sealed |-> 0, durable |-> 0] /\ MaxWrites \in Nat
  BY DEF Close!Init, ShutdownConstants
<1>2. log \in Close!Buffers /\ Close!Written <= MaxWrites
  BY SMTT(30), <1>1, BuffersAre DEF Close!Written
<1>3. Close!TypeOK
  BY <1>2 DEF ShutdownConstants, Close!Init, Close!TypeOK, Close!Nobody, Close!Flusher,
              Close!Snapshot, Close!Contexts
<1> QED
  BY <1>2, <1>3 DEF CloseInv, Close!Init, Close!Nobody, Close!Flusher, Close!Snapshot,
                    Close!Contexts

\* Sealing the open buffer moves its writes and loses none.
LEMMA SealMoves ==
  ASSUME MaxWrites \in Nat, log \in Close!Buffers, Close!Written <= MaxWrites,
         log' = Close!Sealed(log)
  PROVE  /\ log' \in Close!Buffers /\ log'.open = 0
         /\ Close!Written' = Close!Written
<1>1. /\ log.open \in Nat /\ log.sealed \in Nat /\ log.durable \in Nat
      /\ log = [open |-> log.open, sealed |-> log.sealed, durable |-> log.durable]
  BY BuffersAre
<1>2. log' = [open |-> 0, sealed |-> log.sealed + log.open, durable |-> log.durable]
  BY <1>1 DEF Close!Sealed
<1>3. 0 + (log.sealed + log.open) + log.durable <= MaxWrites
  BY SMTT(30), <1>1 DEF Close!Written
<1>4. log' \in Close!Buffers
  BY SMTT(30), <1>1, <1>2, <1>3, BuffersAre
<1> QED
  BY SMTT(30), <1>1, <1>2, <1>4 DEF Close!Written

\* A write to the open buffer, while there is room for it.
LEMMA WriteAdds ==
  ASSUME MaxWrites \in Nat, log \in Close!Buffers, Close!Written < MaxWrites,
         log' = [log EXCEPT !.open = @ + 1]
  PROVE  log' \in Close!Buffers /\ Close!Written' <= MaxWrites
<1>1. /\ log.open \in Nat /\ log.sealed \in Nat /\ log.durable \in Nat
      /\ log = [open |-> log.open, sealed |-> log.sealed, durable |-> log.durable]
  BY BuffersAre
<1>2. log' = [open |-> log.open + 1, sealed |-> log.sealed, durable |-> log.durable]
  BY <1>1
<1>3. (log.open + 1) + log.sealed + log.durable <= MaxWrites
  BY SMTT(30), <1>1 DEF Close!Written
<1>4. log' \in Close!Buffers
  BY SMTT(30), <1>1, <1>2, <1>3, BuffersAre
<1> QED
  BY <1>2, <1>3, <1>4 DEF Close!Written

\* The sealed buffers are written to disk.
LEMMA DiskTakes ==
  ASSUME MaxWrites \in Nat, log \in Close!Buffers, Close!Written <= MaxWrites,
         log' = [log EXCEPT !.sealed = 0, !.durable = @ + log.sealed]
  PROVE  /\ log' \in Close!Buffers /\ log'.open = log.open /\ log'.sealed = 0
         /\ Close!Written' = Close!Written
<1>1. /\ log.open \in Nat /\ log.sealed \in Nat /\ log.durable \in Nat
      /\ log = [open |-> log.open, sealed |-> log.sealed, durable |-> log.durable]
  BY BuffersAre
<1>2. log' = [open |-> log.open, sealed |-> 0, durable |-> log.durable + log.sealed]
  BY <1>1
<1>3. log.open + 0 + (log.durable + log.sealed) <= MaxWrites
  BY SMTT(30), <1>1 DEF Close!Written
<1>4. log' \in Close!Buffers
  <2>1. 0 \in Nat /\ log.durable + log.sealed \in Nat
    BY SMTT(30), <1>1
  <2>2. \A b, c \in Nat : log.open + b + c <= MaxWrites =>
          [open |-> log.open, sealed |-> b, durable |-> c] \in Close!Buffers
    BY <1>1, BuffersAre
  <2>3. [open |-> log.open, sealed |-> 0, durable |-> log.durable + log.sealed] \in Close!Buffers
    BY <1>3, <2>1, <2>2
  <2> QED
    BY <1>2, <2>3
<1> QED
  BY SMTT(30), <1>1, <1>2, <1>4 DEF Close!Written

\* One step per action; each of them changes few of the fields.
LEMMA CloseNext ==
  ASSUME ShutdownConstants PROVE CloseInv /\ [Close!Next]_(Close!vars) => CloseInv'
<1> SUFFICES ASSUME CloseInv, [Close!Next]_(Close!vars) PROVE CloseInv'
  OBVIOUS
<1>a. MaxWrites \in Nat /\ log \in Close!Buffers /\ Close!Written <= MaxWrites
  BY DEF ShutdownConstants, CloseInv, Close!TypeOK
<1>b. UNCHANGED log => log' \in Close!Buffers /\ Close!Written' <= MaxWrites
  BY <1>a DEF Close!Written
<1>c. log' = Close!Sealed(log) =>
        log' \in Close!Buffers /\ log'.open = 0 /\ Close!Written' <= MaxWrites
  BY <1>a, SealMoves
<1>d. ASSUME log' = [log EXCEPT !.open = @ + 1], Close!Written < MaxWrites
      PROVE  log' \in Close!Buffers /\ Close!Written' <= MaxWrites
  BY <1>a, <1>d, WriteAdds
<1> USE DEF CloseInv, Close!TypeOK, Close!Nobody, Close!Flusher, Close!Snapshot, Close!Contexts
<1>1. ASSUME NEW u \in Users, Close!write(u) PROVE CloseInv'
  <2>1. log' \in Close!Buffers /\ Close!Written' <= MaxWrites
    BY <1>1, <1>d DEF Close!write
  <2> QED
    BY SMTT(30), <1>1, <2>1 DEF Close!write
<1>2. ASSUME NEW u \in Users, Close!drop_context(u) PROVE CloseInv'
  BY SMTT(30), <1>2, <1>b DEF Close!drop_context
<1>3. CASE Close!write_to_log
  <2>1. CASE UNCHANGED log /\ error' = TRUE
    BY SMTT(30), <1>3, <1>b, <2>1 DEF Close!write_to_log
  <2>2. CASE log' = [log EXCEPT !.sealed = 0, !.durable = @ + log.sealed] /\ UNCHANGED error
    <3>1. /\ log' \in Close!Buffers /\ log'.open = log.open /\ log'.sealed = 0
          /\ Close!Written' <= MaxWrites
      BY <1>a, <2>2, DiskTakes
    <3> QED
      BY SMTT(30), <1>3, <2>2, <3>1 DEF Close!write_to_log
  <2> QED
    BY <1>3, <2>1, <2>2 DEF Close!write_to_log
<1>4. CASE Close!run_lock
  BY SMTT(30), <1>4, <1>b DEF Close!run_lock
<1>5. CASE Close!roll_iobuf
  <2>1. log' \in Close!Buffers /\ Close!Written' <= MaxWrites
    BY <1>5, <1>b, <1>c DEF Close!roll_iobuf
  <2>2. /\ flusher' \in [pc : {"roll", "gc", "notify"}, wrote_data : BOOLEAN]
        /\ shutdown' \in {"Running", "ShuttingDown", "ShutDown"}
        /\ mutex' \in {mutex, Close!Nobody}
    <3>1. flusher.wrote_data \in BOOLEAN
      OBVIOUS
    <3>2. CASE flusher' = [pc |-> "notify", wrote_data |-> flusher.wrote_data]
      BY <1>5, <3>1, <3>2 DEF Close!roll_iobuf, Close!Leave
    <3>3. CASE \E p \in {"roll", "gc", "notify"}, b \in BOOLEAN : flusher' = [pc |-> p, wrote_data |-> b]
      BY SMTT(30), <1>5, <3>3 DEF Close!roll_iobuf, Close!Leave
    <3> QED
      BY <1>5, <3>2, <3>3 DEF Close!roll_iobuf, Close!Leave
  <2>3. closing.pc = "none" /\ flusher.pc # "done"
    BY <1>5 DEF Close!roll_iobuf
  <2> QED
    BY SMTT(30), <1>5, <2>1, <2>2, <2>3 DEF Close!roll_iobuf
<1>6. CASE Close!attempt_gc
  <2>1. log' \in Close!Buffers /\ Close!Written' <= MaxWrites
    BY <1>6, <1>b, <1>d DEF Close!attempt_gc
  <2> QED
    BY SMTT(30), <1>6, <2>1 DEF Close!attempt_gc, Close!Leave
<1>7. CASE Close!sync_all
  BY SMTT(30), <1>7, <1>b DEF Close!sync_all
<1>8. CASE Close!run_end
  BY SMTT(30), <1>8, <1>b DEF Close!run_end
<1>9. CASE Close!drop_lock
  BY SMTT(30), <1>9, <1>b DEF Close!drop_lock
<1>10. CASE Close!drop_wait
  BY SMTT(30), <1>10, <1>b DEF Close!drop_wait
<1>11. CASE Close!drop_join
  BY SMTT(30), <1>11, <1>b DEF Close!drop_join
<1>12. CASE Close!drop_pagecache
  BY SMTT(30), <1>12, <1>b DEF Close!drop_pagecache
<1>13. CASE Close!take_fuzzy_snapshot
  <2>1. log' \in Close!Buffers /\ Close!Written' <= MaxWrites
    BY <1>13, <1>b, <1>c DEF Close!take_fuzzy_snapshot
  <2>2. UNCHANGED <<users, shutdown, mutex, flusher, dropper, error>>
    BY <1>13 DEF Close!take_fuzzy_snapshot
  <2>3. CASE snap \in {"seal", "wait"} /\ UNCHANGED <<pagecache, closing>>
    <3>1. snap' \in {"wait", "drop"} /\ closing.pc = "none"
      BY <1>13, <2>3 DEF Close!take_fuzzy_snapshot
    <3> QED
      BY SMTT(30), <2>1, <2>2, <2>3, <3>1
  <2>4. CASE snap = "drop"
    <3>1. /\ snap' = "done" /\ pagecache' = pagecache \ {Close!Snapshot} /\ UNCHANGED log
          /\ closing' = IF pagecache = {Close!Snapshot}
                        THEN [by |-> Close!Snapshot, pc |-> "check"] ELSE closing
      BY <1>13, <2>4 DEF Close!take_fuzzy_snapshot
    <3> QED
      BY SMTT(30), <2>1, <2>2, <2>4, <3>1
  <2> QED
    BY <1>13, <2>3, <2>4 DEF Close!take_fuzzy_snapshot
<1>14. CASE Close!log_drop
  <2>1. /\ log' \in Close!Buffers /\ Close!Written' <= MaxWrites
        /\ ~error => log'.open = 0
    BY <1>14, <1>b, <1>c DEF Close!log_drop
  <2> QED
    BY SMTT(30), <1>14, <2>1 DEF Close!log_drop
<1>15. CASE Close!log_dropped
  BY SMTT(30), <1>15, <1>b DEF Close!log_dropped
<1>16. CASE UNCHANGED Close!vars
  BY SMTT(30), <1>16, <1>b DEF Close!vars
<1> QED
  BY <1>1, <1>2, <1>3, <1>4, <1>5, <1>6, <1>7, <1>8, <1>9, <1>10, <1>11, <1>12, <1>13,
     <1>14, <1>15, <1>16
     DEF Close!Next, Close!FlusherNext, Close!DropperNext, Close!CloserNext

\* Log::drop is run when all holders of the page cache are gone, and leaves every
\* write on disk unless an error was recorded; the flusher has ended before the
\* drop of the last Context goes on past it.
THEOREM ClosesCleanly ==
  ASSUME ShutdownConstants
  PROVE  Close!Spec => [](Close!TypeOK /\ Close!NothingLostAtClose /\ Close!FlusherIsGone)
<1>1. CloseInv => Close!TypeOK /\ Close!NothingLostAtClose /\ Close!FlusherIsGone
  <2>1. log \in Close!Buffers => log.open \in Nat /\ log.sealed \in Nat /\ log.durable \in Nat
    BY BuffersAre DEF ShutdownConstants
  <2> QED
    BY SMTT(30), <2>1 DEF CloseInv, Close!TypeOK, Close!Written, Close!NothingLostAtClose, Close!FlusherIsGone
<1> QED
  <2>1. (Close!Init => CloseInv) /\ (CloseInv /\ [Close!Next]_(Close!vars) => CloseInv')
    BY CloseInit, CloseNext
  <2> QED
    BY <1>1, <2>1, PTL DEF Close!Spec

\* When no snapshot is being taken the drop of the last Context returns after
\* Log::drop: the file can be opened again at once.
THEOREM DropsSynchronously ==
  ASSUME ShutdownConstants, ~Snapshots
  PROVE  Close!Spec => []Close!DropIsSynchronous
<1>1. CloseInv => Close!DropIsSynchronous
  BY DEF CloseInv, Close!DropIsSynchronous
<1> QED
  <2>1. (Close!Init => CloseInv) /\ (CloseInv /\ [Close!Next]_(Close!vars) => CloseInv')
    BY CloseInit, CloseNext
  <2> QED
    BY <1>1, <2>1, PTL DEF Close!Spec

-----------------------------------------------------------------------------
(* The thread pool: no task is lost or run twice, and one dynamic thread   *)
(* is started at a time, for any number of threads, clients and tasks.     *)
CONSTANTS Workers, Immortal, Clients, Flushes, Write, Panics, MaxThreads, MinPerformed,
          MinOvershoots, Wrap
VARIABLES queue, waiting_threads, total_workers, spawning, broken, promise, sealed, wpc, task,
          performed, overshoots, spc, total_seen

Pool == INSTANCE ThreadPool WITH seen <- total_seen

\* What the constants of ThreadPool are: the threads of the pool are not clients,
\* and the write is the task of neither.
PoolConstants ==
  /\ Write \notin Clients /\ Clients \cap Workers = {}
  /\ None \notin Pool!Tasks
  /\ Flushes \subseteq Clients /\ Panics \subseteq Clients

PoolTypes ==
  /\ queue \in Seq(Pool!Tasks)
  /\ promise \in [Pool!Tasks -> {"empty", "filled", "dropped"}]
  /\ sealed \in BOOLEAN /\ spawning \in BOOLEAN
  /\ wpc \in [Workers -> {"unborn", "born", "recv", "wait", "run", "try"}]
  /\ task \in [Workers -> Pool!Tasks \cup {None}]
  /\ spc \in [Pool!Submitters -> {"send", "idle", "total", "waiting", "spawning", "start"}]

Submitted(x) ==
  IF x = Write THEN sealed /\ \A w \in Workers : spc[w] # "send" ELSE spc[x] # "send"

\* A task is pending if it was submitted and its promise not resolved: exactly
\* then it is in the queue or on a thread, and never in two places.
PlacesInv ==
  /\ \A w \in Workers : wpc[w] = "run" <=> task[w] # None
  /\ ~sealed => \A w \in Workers : spc[w] # "send"
  /\ \A v, w \in Workers : spc[v] = "send" /\ spc[w] = "send" => v = w
  /\ \A x \in Pool!Tasks : ~Submitted(x) => promise[x] = "empty"
  /\ \A i, j \in 1..Len(queue) : queue[i] = queue[j] => i = j
  /\ \A v, w \in Workers : task[v] = task[w] /\ task[v] # None => v = w
  /\ \A i \in 1..Len(queue), w \in Workers : queue[i] # task[w]
  /\ \A x \in Pool!Tasks :
        promise[x] = "empty" /\ Submitted(x) <=>
          (\E i \in 1..Len(queue) : queue[i] = x) \/ (\E w \in Workers : task[w] = x)

\* The flag `spawning` is held by the submitter that is about to start a thread,
\* or by the thread that it has started.
StartsInv ==
  /\ \A v, w \in Workers : wpc[v] = "born" /\ wpc[w] = "born" => v = w
  /\ \A r, s \in Pool!Submitters : spc[r] = "start" /\ spc[s] = "start" => r = s
  /\ \A w \in Workers, s \in Pool!Submitters : ~(wpc[w] = "born" /\ spc[s] = "start")
  /\ ~spawning => /\ \A w \in Workers : wpc[w] # "born"
                  /\ \A s \in Pool!Submitters : spc[s] # "start"

PoolInv == PoolTypes /\ PlacesInv /\ StartsInv

\* At first nothing is submitted and nobody is started.
LEMMA PoolInit == ASSUME PoolConstants PROVE Pool!Init => PoolInv
<1> SUFFICES ASSUME Pool!Init PROVE PoolInv
  OBVIOUS
<1> USE DEF PoolConstants, Pool!Init, Pool!Tasks, Pool!Submitters
<1>1. queue \in Seq(Pool!Tasks) /\ Len(queue) = 0
  BY SMTT(30)
<1>2. /\ \A w \in Workers : wpc[w] \in {"unborn", "recv"} /\ task[w] = None /\ spc[w] = "idle"
      /\ \A s \in Clients : spc[s] = "send"
  OBVIOUS
<1>3. PoolTypes
  BY <1>1 DEF PoolTypes
<1>4. \A x \in Pool!Tasks : ~Submitted(x) /\ promise[x] = "empty"
  BY <1>2 DEF Submitted
<1>5. PlacesInv
  BY SMTT(30), <1>1, <1>2, <1>4 DEF PlacesInv
<1>6. StartsInv
  BY <1>2 DEF StartsInv
<1> QED
  BY <1>3, <1>5, <1>6 DEF PoolInv

\* A step after which the same tasks are in the same places.
LEMMA PlacesFrame ==
  ASSUME PlacesInv, UNCHANGED <<queue, task, promise, sealed>>,
         \A w \in Workers : wpc'[w] = "run" <=> wpc[w] = "run",
         \A s \in Pool!Submitters : spc'[s] = "send" <=> spc[s] = "send"
  PROVE  PlacesInv'
<1>1. \A x \in Pool!Tasks : Submitted(x)' <=> Submitted(x)
  BY DEF Submitted, Pool!Submitters, Pool!Tasks
<1> QED
  BY SMTT(30), <1>1 DEF PlacesInv, Pool!Submitters

\* Whoever starts a thread has the flag.
LEMMA StartsNext ==
  ASSUME PoolConstants, PoolInv, Pool!Next PROVE StartsInv'
<1> USE DEF PoolConstants, PoolInv, PoolTypes, StartsInv, Pool!Submitters, Pool!Goto, Pool!At
<1>1. ASSUME NEW s \in Pool!Submitters, Pool!SubmitterNext(s) PROVE StartsInv'
  <2>1. CASE Pool!send(s)
    BY <2>1 DEF Pool!send, Pool!worker
  <2>2. CASE Pool!load_total(s) \/ Pool!load_waiting(s)
    BY <2>2 DEF Pool!load_total, Pool!load_waiting, Pool!worker, Pool!pool
  <2>3. CASE Pool!cas_spawning(s)
    BY SMTT(30), <2>3 DEF Pool!cas_spawning, Pool!worker
  <2>4. CASE Pool!start(s)
    BY SMTT(30), <2>4 DEF Pool!start, Pool!worker
  <2> QED
    BY <1>1, <2>1, <2>2, <2>3, <2>4 DEF Pool!SubmitterNext
<1>2. ASSUME NEW w \in Workers, Pool!WorkerNext(w) PROVE StartsInv'
  <2>1. CASE Pool!born(w)
    BY <2>1 DEF Pool!born, Pool!submitter
  <2>2. CASE Pool!recv(w)
    BY SMTT(30), <2>2 DEF Pool!recv, Pool!take, Pool!submitter
  <2>3. CASE Pool!wake(w)
    BY SMTT(30), <2>3 DEF Pool!wake, Pool!take, Pool!submitter
  <2>4. CASE Pool!finish(w)
    BY <2>4 DEF Pool!finish, Pool!submitter
  <2>5. CASE Pool!flush(w)
    BY <2>5 DEF Pool!flush, Pool!pool, Pool!worker
  <2>6. CASE Pool!panic(w)
    BY <2>6 DEF Pool!panic, Pool!submitter
  <2>7. CASE Pool!try_recv(w)
    BY SMTT(30), <2>7 DEF Pool!try_recv, Pool!take, Pool!submitter
  <2> QED
    BY <1>2, <2>1, <2>2, <2>3, <2>4, <2>5, <2>6, <2>7 DEF Pool!WorkerNext
<1> QED
  BY <1>1, <1>2 DEF Pool!Next

\* Queue::send: the task was in no place, and is in the queue now.
LEMMA SendPlaces ==
  ASSUME PoolConstants, PoolInv, NEW s \in Pool!Submitters, Pool!send(s)
  PROVE  PlacesInv'
<1> DEFINE x == IF s \in Clients THEN s ELSE Write
<1> DEFINE n == Len(queue) + 1
<1> USE DEF PoolConstants
<1>1. /\ queue \in Seq(Pool!Tasks) /\ Len(queue) \in Nat /\ x \in Pool!Tasks
      /\ spc \in [Pool!Submitters -> {"send", "idle", "total", "waiting", "spawning", "start"}]
  BY SMTT(30) DEF PoolInv, PoolTypes, Pool!Tasks
<1>2. /\ queue' = Append(queue, x) /\ spc[s] = "send" /\ spc'[s] # "send"
      /\ \A r \in Pool!Submitters : r # s => spc'[r] = spc[r]
      /\ UNCHANGED <<promise, sealed, wpc, task>>
  BY <1>1 DEF Pool!send, Pool!Goto, Pool!worker
<1>3. /\ Len(queue') = n /\ queue'[n] = x
      /\ \A i \in 1..Len(queue) : queue'[i] = queue[i]
  BY SMTT(30), <1>1, <1>2
<1>4. ~Submitted(x) /\ Submitted(x)'
  <2>1. CASE s \in Clients
    BY <1>2, <2>1 DEF Submitted
  <2>2. CASE s \notin Clients
    <3>1. s \in Workers /\ sealed
      BY <1>2, <2>2 DEF Pool!Submitters, PoolInv, PlacesInv
    <3>2. \A w \in Workers : spc'[w] # "send"
      BY SMTT(30), <1>2, <3>1 DEF Pool!Submitters, PoolInv, PlacesInv
    <3> QED
      BY <1>2, <2>2, <3>1, <3>2 DEF Submitted
  <2> QED
    BY <2>1, <2>2
<1>5. \A y \in Pool!Tasks : y # x => (Submitted(y)' <=> Submitted(y))
  <2> SUFFICES ASSUME NEW y \in Pool!Tasks, y # x PROVE Submitted(y)' <=> Submitted(y)
    OBVIOUS
  <2>1. CASE y = Write
    BY <1>2, <2>1 DEF Submitted, Pool!Submitters
  <2>2. CASE y # Write
    BY <1>2, <2>2 DEF Submitted, Pool!Submitters, Pool!Tasks
  <2> QED
    BY <2>1, <2>2
<1>6. promise[x] = "empty" /\ (\A i \in 1..Len(queue) : queue[i] # x) /\ \A w \in Workers : task[w] # x
  BY <1>1, <1>4 DEF PoolInv, PlacesInv
<1> HIDE DEF x
<1>7. /\ \A i, j \in 1..n : queue'[i] = queue'[j] => i = j
      /\ \A i \in 1..n, w \in Workers : queue'[i] # task[w]
  <2>1. \A i \in 1..n : i = n \/ i \in 1..Len(queue)
    BY SMTT(30), <1>1
  <2>2. /\ \A i, j \in 1..Len(queue) : queue[i] = queue[j] => i = j
        /\ \A i \in 1..Len(queue), w \in Workers : queue[i] # task[w]
    BY DEF PoolInv, PlacesInv
  <2> HIDE DEF n
  <2> QED
    BY SMTT(30), <1>3, <1>6, <2>1, <2>2
<1>8. \A y \in Pool!Tasks : (\E i \in 1..n : queue'[i] = y) <=> (y = x \/ \E i \in 1..Len(queue) : queue[i] = y)
  BY SMTT(30), <1>1, <1>3
<1>9. \A y \in Pool!Tasks :
        promise[y] = "empty" /\ Submitted(y)' <=>
          (\E i \in 1..n : queue'[i] = y) \/ (\E w \in Workers : task[w] = y)
  BY <1>4, <1>5, <1>6, <1>8 DEF PoolInv, PlacesInv
<1>10. \A y \in Pool!Tasks : ~Submitted(y)' => promise[y] = "empty"
  BY <1>4, <1>5 DEF PoolInv, PlacesInv
<1>11. /\ \A w \in Workers : spc'[w] = "send" => spc[w] = "send"
       /\ \A v, w \in Workers : task[v] = task[w] /\ task[v] # None => v = w
       /\ \A w \in Workers : wpc[w] = "run" <=> task[w] # None
  BY <1>2 DEF PoolInv, PlacesInv, Pool!Submitters
<1>12. /\ ~sealed => \A w \in Workers : spc'[w] # "send"
       /\ \A v, w \in Workers : spc'[v] = "send" /\ spc'[w] = "send" => v = w
  BY <1>11 DEF PoolInv, PlacesInv
<1> QED
  BY SMTT(30), <1>2, <1>3, <1>7, <1>9, <1>10, <1>11, <1>12 DEF PlacesInv

\* pop_front: the task leaves the queue for a thread that has none.
LEMMA TakePlaces ==
  ASSUME PoolConstants, PoolInv, NEW w \in Workers, Pool!take(w), queue # <<>>, wpc[w] # "run",
         UNCHANGED <<promise, sealed, spc>>
  PROVE  PlacesInv'
<1> DEFINE x == Head(queue)
<1>1. /\ queue \in Seq(Pool!Tasks) /\ Len(queue) \in Nat /\ Len(queue) >= 1
      /\ task \in [Workers -> Pool!Tasks \cup {None}] /\ None \notin Pool!Tasks
      /\ wpc \in [Workers -> {"unborn", "born", "recv", "wait", "run", "try"}]
  BY SMTT(30) DEF PoolInv, PoolTypes, PoolConstants
<1>2. /\ queue' = Tail(queue) /\ x = queue[1] /\ x \in Pool!Tasks
      /\ task'[w] = x /\ wpc'[w] = "run"
      /\ \A v \in Workers : v # w => task'[v] = task[v] /\ wpc'[v] = wpc[v]
  BY SMTT(30), <1>1 DEF Pool!take, Pool!At
<1>3. /\ Len(queue') = Len(queue) - 1
      /\ \A i \in 1..Len(queue') : i + 1 \in 1..Len(queue) /\ queue'[i] = queue[i + 1]
      /\ \A i \in 1..Len(queue) : i # 1 => i - 1 \in 1..Len(queue') /\ queue'[i - 1] = queue[i]
  BY SMTT(30), <1>1, <1>2
<1>4. task[w] = None /\ \A v \in Workers : task[v] # x
  BY SMTT(30), <1>1, <1>2 DEF PoolInv, PlacesInv
<1> HIDE DEF x
<1>5. \A i, j \in 1..Len(queue') : queue'[i] = queue'[j] => i = j
  BY SMTT(30), <1>1, <1>3 DEF PoolInv, PlacesInv
<1>6. \A i \in 1..Len(queue') : queue'[i] # x
  <2> SUFFICES ASSUME NEW i \in 1..Len(queue'), queue'[i] = x PROVE FALSE
    OBVIOUS
  <2>1. 1 \in 1..Len(queue) /\ i + 1 \in 1..Len(queue) /\ queue[i + 1] = queue[1]
    BY SMTT(30), <1>1, <1>2, <1>3
  <2>2. i + 1 = 1
    BY <2>1 DEF PoolInv, PlacesInv
  <2> QED
    BY SMTT(30), <2>2, <1>1, <1>3
<1>7. \A i \in 1..Len(queue'), v \in Workers : queue'[i] # task'[v]
  BY SMTT(30), <1>2, <1>3, <1>6 DEF PoolInv, PlacesInv
<1>8. \A u, v \in Workers : task'[u] = task'[v] /\ task'[u] # None => u = v
  BY SMTT(30), <1>2, <1>4 DEF PoolInv, PlacesInv
<1>9. \A v \in Workers : wpc'[v] = "run" <=> task'[v] # None
  BY SMTT(30), <1>1, <1>2 DEF PoolInv, PlacesInv
<1>10. \A y \in Pool!Tasks :
         (\E i \in 1..Len(queue') : queue'[i] = y) \/ (\E v \in Workers : task'[v] = y)
           <=> (\E i \in 1..Len(queue) : queue[i] = y) \/ (\E v \in Workers : task[v] = y)
  <2> SUFFICES ASSUME NEW y \in Pool!Tasks
               PROVE  (\E i \in 1..Len(queue') : queue'[i] = y) \/ (\E v \in Workers : task'[v] = y)
                        <=> (\E i \in 1..Len(queue) : queue[i] = y) \/ (\E v \in Workers : task[v] = y)
    OBVIOUS
  <2>1. CASE y = x
    BY SMTT(30), <1>1, <1>2, <2>1
  <2>2. CASE y # x
    <3>1. (\E v \in Workers : task'[v] = y) <=> (\E v \in Workers : task[v] = y)
      BY <1>1, <1>2, <1>4, <2>2
    <3>2. (\E i \in 1..Len(queue') : queue'[i] = y) <=> (\E i \in 1..Len(queue) : queue[i] = y)
      <4>1. ASSUME NEW i \in 1..Len(queue'), queue'[i] = y
            PROVE  \E j \in 1..Len(queue) : queue[j] = y
        BY <1>3, <4>1
      <4>2. ASSUME NEW i \in 1..Len(queue), queue[i] = y
            PROVE  \E j \in 1..Len(queue') : queue'[j] = y
        <5>1. i # 1
          BY <1>2, <2>2, <4>2
        <5> QED
          BY <1>3, <4>2, <5>1
      <4> QED
        BY <4>1, <4>2
    <3> QED
      BY <3>1, <3>2
  <2> QED
    BY <2>1, <2>2
<1>11. \A y \in Pool!Tasks : Submitted(y)' <=> Submitted(y)
  BY DEF Submitted
<1> QED
  BY SMTT(30), <1>5, <1>7, <1>8, <1>9, <1>10, <1>11 DEF PoolInv, PlacesInv

\* A promise is resolved, when its task returns or unwinds: it leaves the thread.
LEMMA ResolvePlaces ==
  ASSUME PoolConstants, PoolInv, NEW w \in Workers, wpc[w] = "run", NEW p \in {"filled", "dropped"},
         promise' = [promise EXCEPT ![task[w]] = p], task' = [task EXCEPT ![w] = None],
         NEW l, l # "run", wpc' = [wpc EXCEPT ![w] = l], UNCHANGED <<queue, sealed, spc>>
  PROVE  PlacesInv'
<1> DEFINE x == task[w]
<1>1. /\ promise \in [Pool!Tasks -> {"empty", "filled", "dropped"}]
      /\ task \in [Workers -> Pool!Tasks \cup {None}] /\ None \notin Pool!Tasks
      /\ wpc \in [Workers -> {"unborn", "born", "recv", "wait", "run", "try"}]
      /\ x # None
  BY DEF PoolInv, PoolTypes, PoolConstants, PlacesInv
<1>2. /\ x \in Pool!Tasks /\ promise'[x] # "empty" /\ task'[w] = None /\ wpc'[w] # "run"
      /\ \A y \in Pool!Tasks : y # x => promise'[y] = promise[y]
      /\ \A v \in Workers : v # w => task'[v] = task[v] /\ wpc'[v] = wpc[v]
  BY <1>1
<1>3. Submitted(x) /\ \A y : Submitted(y)' <=> Submitted(y)
  BY <1>2 DEF Submitted, PoolInv, PlacesInv
<1>4. /\ \A i \in 1..Len(queue) : queue[i] # x
      /\ \A v \in Workers : v # w => task[v] # x
  BY SMTT(30), <1>1 DEF PoolInv, PlacesInv
<1> HIDE DEF x
<1>5. \A y \in Pool!Tasks :
        promise'[y] = "empty" /\ Submitted(y)' <=>
          (\E i \in 1..Len(queue) : queue[i] = y) \/ (\E v \in Workers : task'[v] = y)
  <2> SUFFICES ASSUME NEW y \in Pool!Tasks
               PROVE  promise'[y] = "empty" /\ Submitted(y)' <=>
                        (\E i \in 1..Len(queue) : queue[i] = y) \/ (\E v \in Workers : task'[v] = y)
    OBVIOUS
  <2>1. CASE y = x
    BY <1>1, <1>2, <1>4, <2>1
  <2>2. CASE y # x
    <3>1. (\E v \in Workers : task'[v] = y) <=> (\E v \in Workers : task[v] = y)
      BY <1>1, <1>2, <2>2 DEF x
    <3> QED
      BY SMTT(30), <1>2, <1>3, <2>2, <3>1 DEF PoolInv, PlacesInv
  <2> QED
    BY <2>1, <2>2
<1>6. \A y \in Pool!Tasks : ~Submitted(y)' => promise'[y] = "empty"
  BY SMTT(30), <1>2, <1>3 DEF PoolInv, PlacesInv
<1>7. /\ \A v \in Workers : wpc'[v] = "run" <=> task'[v] # None
      /\ \A u, v \in Workers : task'[u] = task'[v] /\ task'[u] # None => u = v
  BY SMTT(30), <1>1, <1>2 DEF PoolInv, PlacesInv
<1>8. \A i \in 1..Len(queue), v \in Workers : queue[i] # task'[v]
  <2>1. \A i \in 1..Len(queue) : queue[i] # None
    BY SMTT(30), <1>1 DEF PoolInv, PoolTypes
  <2>2. \A i \in 1..Len(queue), v \in Workers : queue[i] # task[v]
    BY DEF PoolInv, PlacesInv
  <2>3. \A v \in Workers : task'[v] \in {task[v], None}
    BY <1>2
  <2> QED
    BY <2>1, <2>2, <2>3
<1> QED
  BY SMTT(30), <1>5, <1>6, <1>7, <1>8 DEF PoolInv, PlacesInv

\* One step per action.
LEMMA PlacesNext == ASSUME PoolConstants, PoolInv, Pool!Next PROVE PlacesInv'
<1> USE DEF PoolConstants, Pool!Submitters, Pool!Goto, Pool!At
<1>t. /\ wpc \in [Workers -> {"unborn", "born", "recv", "wait", "run", "try"}]
      /\ spc \in [Pool!Submitters -> {"send", "idle", "total", "waiting", "spawning", "start"}]
      /\ PlacesInv
  BY DEF PoolInv, PoolTypes
<1>1. ASSUME NEW s \in Pool!Submitters, Pool!SubmitterNext(s) PROVE PlacesInv'
  <2>1. CASE Pool!send(s)
    BY <2>1, SendPlaces
  <2>2. CASE Pool!load_total(s) \/ Pool!load_waiting(s)
    <3>1. /\ UNCHANGED <<queue, task, promise, sealed, wpc>>
          /\ \A r \in Pool!Submitters : spc'[r] = "send" <=> spc[r] = "send"
      BY <1>t, <2>2 DEF Pool!load_total, Pool!load_waiting, Pool!worker, Pool!pool
    <3> QED
      BY <1>t, <3>1, PlacesFrame
  <2>3. CASE Pool!cas_spawning(s)
    <3>1. /\ UNCHANGED <<queue, task, promise, sealed, wpc>>
          /\ \A r \in Pool!Submitters : spc'[r] = "send" <=> spc[r] = "send"
      BY <1>t, <2>3 DEF Pool!cas_spawning, Pool!worker
    <3> QED
      BY <1>t, <3>1, PlacesFrame
  <2>4. CASE Pool!start(s)
    <3>1. /\ UNCHANGED <<queue, task, promise, sealed>>
          /\ \A w \in Workers : wpc'[w] = "run" <=> wpc[w] = "run"
          /\ \A r \in Pool!Submitters : spc'[r] = "send" <=> spc[r] = "send"
      BY <1>t, <2>4 DEF Pool!start, Pool!worker
    <3> QED
      BY <1>t, <3>1, PlacesFrame
  <2> QED
    BY <1>1, <2>1, <2>2, <2>3, <2>4 DEF Pool!SubmitterNext
<1>2. ASSUME NEW w \in Workers, Pool!WorkerNext(w) PROVE PlacesInv'
  <2>1. CASE Pool!born(w)
    <3>1. /\ UNCHANGED <<queue, task, promise, sealed, spc>>
          /\ \A v \in Workers : wpc'[v] = "run" <=> wpc[v] = "run"
      BY <1>t, <2>1 DEF Pool!born, Pool!submitter
    <3> QED
      BY <1>t, <3>1, PlacesFrame
  <2>2. ASSUME wpc[w] \in {"recv", "wait", "try"}, UNCHANGED <<promise, sealed, spc>>,
               \/ queue # <<>> /\ Pool!take(w)
               \/ \E l : l # "run" /\ Pool!At(w, l) /\ UNCHANGED <<task, queue>>
        PROVE  PlacesInv'
    <3>1. CASE queue # <<>> /\ Pool!take(w)
      BY <2>2, <3>1, TakePlaces
    <3>2. CASE \E l : l # "run" /\ Pool!At(w, l) /\ UNCHANGED <<task, queue>>
      <4>1. /\ UNCHANGED <<queue, task, promise, sealed, spc>>
            /\ \A v \in Workers : wpc'[v] = "run" <=> wpc[v] = "run"
        BY <1>t, <2>2, <3>2
      <4> QED
        BY <1>t, <4>1, PlacesFrame
    <3> QED
      BY <2>2, <3>1, <3>2
  <2>3. CASE Pool!recv(w)
    BY <2>2, <2>3 DEF Pool!recv, Pool!submitter
  <2>4. CASE Pool!wake(w)
    BY <2>2, <2>4 DEF Pool!wake, Pool!submitter
  <2>5. CASE Pool!try_recv(w)
    BY <2>2, <2>5 DEF Pool!try_recv, Pool!submitter
  <2>6. CASE Pool!finish(w)
    BY <2>6, ResolvePlaces DEF Pool!finish, Pool!submitter
  <2>7. CASE Pool!panic(w)
    BY <2>7, ResolvePlaces DEF Pool!panic, Pool!drop, Pool!submitter
  <2>8. CASE Pool!flush(w)
    <3>1. /\ sealed' = TRUE /\ ~sealed /\ UNCHANGED <<queue, task, promise, wpc>>
          /\ spc' = [spc EXCEPT ![w] = "send"]
      BY <2>8 DEF Pool!flush, Pool!pool, Pool!worker
    <3>2. \A v \in Workers : spc[v] # "send"
      BY <1>t, <3>1 DEF PlacesInv
    <3>3. \A r \in Pool!Submitters : spc'[r] = "send" <=> (r = w \/ spc[r] = "send")
      BY <1>t, <3>1
    <3>4. \A x \in Pool!Tasks : Submitted(x)' <=> Submitted(x)
      <4> SUFFICES ASSUME NEW x \in Pool!Tasks PROVE Submitted(x)' <=> Submitted(x)
        OBVIOUS
      <4>1. CASE x = Write
        BY <3>1, <3>3, <4>1 DEF Submitted
      <4>2. CASE x # Write
        BY <3>3, <4>2 DEF Submitted, Pool!Tasks
      <4> QED
        BY <4>1, <4>2
    <3>5. \A v, u \in Workers : spc'[v] = "send" /\ spc'[u] = "send" => v = u
      BY <3>2, <3>3
    <3>6. \A x \in Pool!Tasks : ~Submitted(x)' => promise[x] = "empty"
      BY <1>t, <3>4 DEF PlacesInv
    <3>7. \A x \in Pool!Tasks :
            promise[x] = "empty" /\ Submitted(x)' <=>
              (\E i \in 1..Len(queue) : queue[i] = x) \/ (\E v \in Workers : task[v] = x)
      BY <1>t, <3>4 DEF PlacesInv
    <3> QED
      BY SMTT(30), <1>t, <3>1, <3>5, <3>6, <3>7 DEF PlacesInv
  <2> QED
    BY <1>2, <2>1, <2>3, <2>4, <2>5, <2>6, <2>7, <2>8 DEF Pool!WorkerNext
<1> QED
  BY <1>1, <1>2 DEF Pool!Next

\* The queue, the promises and the threads keep their types.
LEMMA PoolTypesNext == ASSUME PoolConstants, PoolInv, Pool!Next PROVE PoolTypes'
<1> USE DEF PoolConstants, PoolInv, PoolTypes, Pool!Submitters, Pool!Goto, Pool!At
<1>1. ASSUME NEW s \in Pool!Submitters, Pool!SubmitterNext(s) PROVE PoolTypes'
  <2>1. CASE Pool!send(s)
    <3>1. queue' \in Seq(Pool!Tasks)
      BY SMTT(30), <2>1 DEF Pool!send, Pool!Tasks
    <3> QED
      BY <2>1, <3>1 DEF Pool!send, Pool!worker
  <2>2. CASE Pool!load_total(s) \/ Pool!load_waiting(s)
    BY <2>2 DEF Pool!load_total, Pool!load_waiting, Pool!worker, Pool!pool
  <2>3. CASE Pool!cas_spawning(s)
    BY <2>3 DEF Pool!cas_spawning, Pool!worker
  <2>4. CASE Pool!start(s)
    BY <2>4 DEF Pool!start, Pool!worker
  <2> QED
    BY <1>1, <2>1, <2>2, <2>3, <2>4 DEF Pool!SubmitterNext
<1>2. ASSUME NEW w \in Workers, Pool!WorkerNext(w) PROVE PoolTypes'
  <2>t. queue # <<>> /\ Pool!take(w) => queue' \in Seq(Pool!Tasks) /\ Head(queue) \in Pool!Tasks
    BY SMTT(30) DEF Pool!take
  <2>r. wpc[w] = "run" => task[w] \in Pool!Tasks
    BY SMTT(30) DEF PlacesInv
  <2>1. CASE Pool!born(w)
    BY <2>1 DEF Pool!born, Pool!submitter
  <2>2. CASE Pool!recv(w)
    BY SMTT(30), <2>2, <2>t DEF Pool!recv, Pool!take, Pool!submitter
  <2>3. CASE Pool!wake(w)
    BY <2>3, <2>t DEF Pool!wake, Pool!take, Pool!submitter
  <2>4. CASE Pool!finish(w)
    BY <2>4, <2>r DEF Pool!finish, Pool!submitter
  <2>5. CASE Pool!flush(w)
    BY <2>5 DEF Pool!flush, Pool!pool, Pool!worker
  <2>6. CASE Pool!panic(w)
    BY <2>6, <2>r DEF Pool!panic, Pool!drop, Pool!submitter
  <2>7. CASE Pool!try_recv(w)
    BY <2>7, <2>t DEF Pool!try_recv, Pool!take, Pool!submitter
  <2> QED
    BY <1>2, <2>1, <2>2, <2>3, <2>4, <2>5, <2>6, <2>7 DEF Pool!WorkerNext
<1> QED
  BY <1>1, <1>2 DEF Pool!Next

\* The invariant is kept by every step.
LEMMA PoolNext == ASSUME PoolConstants PROVE PoolInv /\ [Pool!Next]_(Pool!vars) => PoolInv'
<1> SUFFICES ASSUME PoolInv, [Pool!Next]_(Pool!vars) PROVE PoolInv'
  OBVIOUS
<1>1. CASE Pool!Next
  BY <1>1, PoolTypesNext, PlacesNext, StartsNext DEF PoolInv
<1>2. CASE UNCHANGED Pool!vars
  <2>1. UNCHANGED <<queue, task, promise, sealed, wpc, spc, spawning>>
    BY <1>2 DEF Pool!vars, Pool!pool, Pool!worker, Pool!submitter
  <2>2. PlacesInv'
    BY <2>1, PlacesFrame DEF PoolInv
  <2> QED
    BY <2>1, <2>2 DEF PoolInv, PoolTypes, StartsInv
<1> QED
  BY <1>1, <1>2

LOCAL INSTANCE FiniteSetTheorems

\* Counting in the pool is counting.
LEMMA PoolCounts == \A S : Pool!Cardinality(S) = Cardinality(S)
  BY DEF Pool!Cardinality, Cardinality, Pool!IsFiniteSet, IsFiniteSet

\* A submitted task is in exactly one place until its promise is resolved, in the
\* queue or on a thread: none is lost between them and none is taken twice,
\* however many threads are started, woken by the same notification, or end.
THEOREM TasksInOnePlace == ASSUME PoolConstants PROVE Pool!Spec => []Pool!TaskIsInOnePlace
<1>1. PoolInv => Pool!TaskIsInOnePlace
  <2> SUFFICES ASSUME PoolInv, NEW x \in Pool!Tasks
               PROVE  IF promise[x] = "empty" /\ Submitted(x)
                      THEN Cardinality(Pool!Queued(x)) + Cardinality(Pool!Running(x)) = 1
                      ELSE Cardinality(Pool!Queued(x)) + Cardinality(Pool!Running(x)) = 0
    BY PoolCounts DEF Pool!TaskIsInOnePlace, Submitted
  <2>1. Cardinality({}) = 0 /\ \A y : Cardinality({y}) = 1
    BY FS_EmptySet, FS_Singleton
  <2>2. DOMAIN queue = 1..Len(queue) /\ x # None
    BY SMTT(30) DEF PoolInv, PoolTypes, PoolConstants
  <2>3. CASE \E i \in 1..Len(queue) : queue[i] = x
    <3>1. PICK i \in 1..Len(queue) : queue[i] = x
      BY <2>3
    <3>0. /\ \A j \in 1..Len(queue) : queue[j] = x => j = i
          /\ \A v \in Workers : task[v] # x
      BY <2>2, <3>1 DEF PoolInv, PlacesInv
    <3>2. Pool!Queued(x) = {i} /\ Pool!Running(x) = {}
      BY <2>2, <3>0, <3>1 DEF Pool!Queued, Pool!Running
    <3>3. promise[x] = "empty" /\ Submitted(x)
      BY <3>1 DEF PoolInv, PlacesInv
    <3>4. Cardinality(Pool!Queued(x)) = 1 /\ Cardinality(Pool!Running(x)) = 0
      BY <2>1, <3>2
    <3> QED
      BY SMTT(30), <3>3, <3>4
  <2>4. CASE \E w \in Workers : task[w] = x
    <3>1. PICK w \in Workers : task[w] = x
      BY <2>4
    <3>0. /\ \A i \in 1..Len(queue) : queue[i] # x
          /\ \A v \in Workers : task[v] = x => v = w
      BY <2>2, <3>1 DEF PoolInv, PlacesInv
    <3>2. Pool!Queued(x) = {} /\ Pool!Running(x) = {w}
      BY <2>2, <3>0, <3>1 DEF Pool!Queued, Pool!Running
    <3>3. promise[x] = "empty" /\ Submitted(x)
      BY <3>1 DEF PoolInv, PlacesInv
    <3>4. Cardinality(Pool!Queued(x)) = 0 /\ Cardinality(Pool!Running(x)) = 1
      BY <2>1, <3>2
    <3> QED
      BY SMTT(30), <3>3, <3>4
  <2>5. CASE ~(\E i \in 1..Len(queue) : queue[i] = x) /\ ~(\E w \in Workers : task[w] = x)
    <3>1. Pool!Queued(x) = {} /\ Pool!Running(x) = {}
      BY <2>2, <2>5 DEF Pool!Queued, Pool!Running
    <3>2. ~(promise[x] = "empty" /\ Submitted(x))
      BY <2>5 DEF PoolInv, PlacesInv
    <3> QED
      BY SMTT(30), <2>1, <3>1, <3>2
  <2> QED
    BY <2>3, <2>4, <2>5
<1>2. (Pool!Init => PoolInv) /\ (PoolInv /\ [Pool!Next]_(Pool!vars) => PoolInv')
  BY PoolInit, PoolNext
<1> QED
  BY <1>1, <1>2, PTL DEF Pool!Spec

\* At most one dynamic thread is on its way at any time, whoever asks for it.
THEOREM OneAtATime == ASSUME PoolConstants PROVE Pool!Spec => []Pool!OneThreadIsStarting
<1>1. PoolInv => Pool!OneThreadIsStarting
  <2> SUFFICES ASSUME PoolInv PROVE Pool!OneThreadIsStarting
    OBVIOUS
  <2> DEFINE S == {w \in Workers : wpc[w] = "born"} \cup {s \in Pool!Submitters : spc[s] = "start"}
  <2>1. \A r, s \in S : r = s
    BY DEF PoolInv, StartsInv, Pool!Submitters
  <2>2. S = {} \/ \E s : S = {s}
    BY <2>1
  <2>3. Cardinality({}) = 0 /\ \A y : Cardinality({y}) = 1
    BY FS_EmptySet, FS_Singleton
  <2>4. Pool!Cardinality(S) <= 1
    <3> HIDE DEF S
    <3>1. Cardinality(S) = 0 \/ Cardinality(S) = 1
      BY <2>2, <2>3
    <3>2. Pool!Cardinality(S) = Cardinality(S)
      BY PoolCounts
    <3> QED
      BY SMTT(30), <3>1, <3>2
  <2> QED
    BY <2>4 DEF Pool!OneThreadIsStarting
<1>2. (Pool!Init => PoolInv) /\ (PoolInv /\ [Pool!Next]_(Pool!vars) => PoolInv')
  BY PoolInit, PoolNext
<1> QED
  BY <1>1, <1>2, PTL DEF Pool!Spec
=============================================================================
