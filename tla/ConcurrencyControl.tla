------------------------- MODULE ConcurrencyControl -------------------------
(***************************************************************************)
(* src/src/concurrency_control.rs: ordinary operations take the shared     *)
(* side of a lock, batches and transactions the exclusive side.  As long   *)
(* as no batch has ever run, the shared side is only a counter; the first  *)
(* batch sets RW_REQUIRED_BIT, waits for the counted operations to drain,  *)
(* and from then on everyone uses the reader-writer lock.                  *)
(***************************************************************************)
EXTENDS Naturals

CONSTANTS Threads, None

ASSUME NoneAssumption == None \notin Threads

VARIABLES
    counted,           \* the threads counted in the low bits of `active`
    required,          \* RW_REQUIRED_BIT of `active`
    upgrade_complete,
    readers, writer,   \* who holds `rw`, the reader-writer lock
    pc

vars == <<counted, required, upgrade_complete, readers, writer, pc>>

Init ==
    /\ counted = {} /\ required = FALSE /\ upgrade_complete = FALSE
    /\ readers = {} /\ writer = None
    /\ pc = [t \in Threads |-> "idle"]

Goto(t, label) == pc' = [pc EXCEPT ![t] = label]
----------------------------------------------------------------------------
\* read(): fetch_add on `active`.  Unless the bit was set, that is all.
read(t) ==
    /\ pc[t] = "idle"
    /\ counted' = counted \cup {t}
    /\ Goto(t, IF required THEN "uncount" ELSE "counting")
    /\ UNCHANGED <<required, upgrade_complete, readers, writer>>

\* The bit was set: take the count back.
read_uncount(t) ==
    /\ pc[t] = "uncount"
    /\ counted' = counted \ {t}
    /\ Goto(t, "want_read")
    /\ UNCHANGED <<required, upgrade_complete, readers, writer>>

read_lock(t) ==
    /\ pc[t] = "want_read" /\ writer = None
    /\ readers' = readers \cup {t}
    /\ Goto(t, "reading")
    /\ UNCHANGED <<counted, required, upgrade_complete, writer>>

\* write() calls enable(): fetch_or of the bit.  The first one to set it waits
\* for the drain; the others wait for the first one.
enable(t) ==
    /\ pc[t] = "idle"
    /\ required' = TRUE
    /\ Goto(t, IF required THEN "want_upgrade" ELSE "draining")
    /\ UNCHANGED <<counted, upgrade_complete, readers, writer>>

\* Mutant: the first one does not wait.
enable_drainedAtOnce(t) ==
    /\ pc[t] = "draining"
    /\ Goto(t, "drained")
    /\ UNCHANGED <<counted, required, upgrade_complete, readers, writer>>

enable_drained(t) ==
    /\ pc[t] = "draining" /\ counted = {}
    /\ Goto(t, "drained")
    /\ UNCHANGED <<counted, required, upgrade_complete, readers, writer>>

enable_complete(t) ==
    /\ pc[t] = "drained"
    /\ upgrade_complete' = TRUE
    /\ Goto(t, "want_upgrade")
    /\ UNCHANGED <<counted, required, readers, writer>>

write_upgraded(t) ==
    /\ pc[t] = "want_upgrade" /\ upgrade_complete
    /\ Goto(t, "want_write")
    /\ UNCHANGED <<counted, required, upgrade_complete, readers, writer>>

write_lock(t) ==
    /\ pc[t] = "want_write" /\ writer = None /\ readers = {}
    /\ writer' = t
    /\ Goto(t, "writing")
    /\ UNCHANGED <<counted, required, upgrade_complete, readers>>

\* Drop for Protector: the counter is decremented, or the lock guard dropped.
drop_counted(t) ==
    /\ pc[t] = "counting"
    /\ counted' = counted \ {t}
    /\ Goto(t, "idle")
    /\ UNCHANGED <<required, upgrade_complete, readers, writer>>

drop_read(t) ==
    /\ pc[t] = "reading"
    /\ readers' = readers \ {t}
    /\ Goto(t, "idle")
    /\ UNCHANGED <<counted, required, upgrade_complete, writer>>

drop_write(t) ==
    /\ pc[t] = "writing"
    /\ writer' = None
    /\ Goto(t, "idle")
    /\ UNCHANGED <<counted, required, upgrade_complete, readers>>

Acquire(t) ==
    \/ read_uncount(t) \/ read_lock(t)
    \/ enable_drained(t) \/ enable_complete(t) \/ write_upgraded(t) \/ write_lock(t)

Drop(t) == drop_counted(t) \/ drop_read(t) \/ drop_write(t)

Next == \E t \in Threads : read(t) \/ enable(t) \/ Acquire(t) \/ Drop(t)

Spec == Init /\ [][Next]_vars

\* A protected operation ends.  A thread that spins or queues gets through if it
\* could infinitely often (parking_lot is eventually fair).
Fairness == \A t \in Threads : WF_vars(Drop(t)) /\ SF_vars(Acquire(t))

FairSpec == Spec /\ Fairness
----------------------------------------------------------------------------
Labels == {"idle", "counting", "uncount", "want_read", "reading", "draining",
           "drained", "want_upgrade", "want_write", "writing"}

\* Type invariant of the counter, the lock and the threads' positions; the count
\* is that of the threads that added to it and have not subtracted yet.
TypeOK ==
    /\ counted = {t \in Threads : pc[t] \in {"counting", "uncount"}}
    /\ readers \subseteq Threads
    /\ writer \in Threads \cup {None}
    /\ required \in BOOLEAN /\ upgrade_complete \in BOOLEAN
    /\ pc \in [Threads -> Labels]

Shared(t) == pc[t] \in {"counting", "reading"}

\* A batch excludes every other batch and every operation under the shared
\* side, also operations that began before the lock was required and hold only
\* a count.
Exclusion ==
    \A t, u \in Threads : t # u /\ pc[t] = "writing" => pc[u] # "writing" /\ ~Shared(u)

\* Once the upgrade is complete nobody enters or remains inside on a mere count.
UpgradeIsFinal ==
    upgrade_complete => \A t \in Threads : pc[t] # "counting"

Quiet == counted = {} /\ readers = {} /\ writer = None

\* Every read() and write() gets its protector, provided that the counter and
\* the lock are free again and again: the first writer sees the drain end, and
\* nobody waits for an upgrade that no thread is performing.  (Without the
\* proviso, readers that overlap for ever keep the counter from reaching zero.)
EveryoneEnters ==
    []<>Quiet =>
        \A t \in Threads : pc[t] # "idle" ~> pc[t] \in {"counting", "reading", "writing"}
============================================================================
