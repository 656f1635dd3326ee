------------------------------- MODULE IdGen --------------------------------
(***************************************************************************)
(* Generation of unique IDs, across crashes: generate_id_inner and the ID  *)
(* part of PageCache::start in src/src/pagecache/mod.rs.                   *)
(*                                                                         *)
(* IDs come from the atomic `idgen`.  Every Interval IDs, the counter page *)
(* is replaced by one that holds the bound reached, and the *previous*     *)
(* counter page is awaited.  A restart skips two intervals.                *)
(*                                                                         *)
(* The log is reduced to the messages that matter: counter pages and       *)
(* others.  A message is durable on its own (make_durable accepts that);   *)
(* a restart recovers the messages below the first one that is not.        *)
(***************************************************************************)
EXTENDS Naturals, FiniteSets, Sequences

CONSTANTS
    Threads,
    Interval,     \* config.idgen_persist_interval
    InOrder,      \* are buffers written in the order of their LSNs?
    MaxId,        \* bound on the IDs drawn
    MaxMessages,  \* bound on the messages in the log
    None

ASSUME IdAssumption ==
    /\ Interval \in Nat \ {0} /\ InOrder \in BOOLEAN
    /\ MaxId \in Nat /\ MaxMessages \in Nat
    /\ None \notin Threads /\ None \notin Nat

VARIABLES
    idgen, idgen_persists,
    idgen_persist_mu,  \* the thread that holds the mutex, or None
    page,              \* the counter page: its timestamp and its message
    log,               \* the value of each counter page written, or None
    durable,           \* the messages that are on disk
    up,                \* is the database open?
    given,             \* history: was each ID returned never, once or more often (2)?
    pc, ret, key

memory == <<idgen, idgen_persists, idgen_persist_mu, page>>
locals == <<pc, ret, key>>
vars == <<memory, log, durable, up, given, locals>>

Goto(t, label) == pc' = [pc EXCEPT ![t] = label]

Floor(id) == (id \div Interval) * Interval

\* The counter that the page holds.
Counter(p) == log[p.lsn]

\* What a restart finds: the messages below the first one that was lost.
Recovered == {i \in DOMAIN log : 1..i \subseteq durable}
----------------------------------------------------------------------------
(* PageCache::start.                                                       *)

NoLocals ==
    /\ pc = [t \in Threads |-> "idle"] /\ ret = [t \in Threads |-> 0]
    /\ key = [t \in Threads |-> None]

\* Nothing was recovered: a counter page is allocated and flushed.
Init ==
    /\ log = <<0>> /\ durable = {1}
    /\ page = [ts |-> 1, lsn |-> 1]
    /\ idgen = 0 /\ idgen_persists = 0 /\ idgen_persist_mu = None
    /\ up = TRUE /\ given = [id \in 0..MaxId |-> 0]
    /\ NoLocals

\* A crash keeps what was on disk below the first gap.
Crash ==
    /\ up
    /\ log' = SubSeq(log, 1, Cardinality(Recovered)) /\ durable' = 1..Cardinality(Recovered)
    /\ up' = FALSE
    /\ pc' = [t \in Threads |-> "idle"] /\ ret' = [t \in Threads |-> 0]
    /\ key' = [t \in Threads |-> None]
    /\ idgen' = 0 /\ idgen_persists' = 0 /\ idgen_persist_mu' = None
    /\ page' = [ts |-> 0, lsn |-> 1]
    /\ UNCHANGED given

LastCounter == CHOOSE i \in DOMAIN log :
    log[i] # None /\ \A j \in DOMAIN log : log[j] # None => j <= i

\* A counter was recovered: skip two intervals, and advance the page by one so
\* that the first ID generated waits for this update.
Start ==
    LET counter == log[LastCounter]
        necessary == Floor(counter) + Interval
    IN /\ ~up /\ Len(log) < MaxMessages /\ counter + 2 * Interval <= MaxId
       /\ up' = TRUE
       /\ idgen' = counter + 2 * Interval
       /\ idgen_persists' = necessary
       /\ log' = Append(log, necessary)
       /\ page' = [ts |-> 1, lsn |-> Len(log) + 1]
       /\ UNCHANGED <<idgen_persist_mu, durable, given, locals>>
----------------------------------------------------------------------------
(* generate_id_inner.                                                      *)

\* fetch_add, and the first load of idgen_persists: necessary or not to persist.
fetch_add(t) ==
    /\ up /\ pc[t] = "idle" /\ idgen <= MaxId
    /\ idgen' = idgen + 1
    /\ ret' = [ret EXCEPT ![t] = idgen]
    /\ Goto(t, "load")
    /\ UNCHANGED <<idgen_persists, idgen_persist_mu, page, log, durable, up, given, key>>

Return(t) ==
    /\ given' = [given EXCEPT ![ret[t]] = IF @ = 0 THEN 1 ELSE 2]
    /\ Goto(t, "idle")
    /\ UNCHANGED <<memory, log, durable, up, ret, key>>

load(t) ==
    /\ pc[t] = "load"
    /\ IF idgen_persists < Floor(ret[t])
       THEN /\ Goto(t, "lock")
            /\ UNCHANGED <<memory, log, durable, up, given, ret, key>>
       ELSE Return(t)

\* Mutant: the check under the mutex is left out.
lockTrusts(t) ==
    /\ pc[t] = "lock" /\ idgen_persist_mu = None
    /\ idgen_persist_mu' = t
    /\ key' = [key EXCEPT ![t] = page]
    /\ Goto(t, "swap")
    /\ UNCHANGED <<idgen, idgen_persists, page, log, durable, up, given, ret>>

\* The loop's body under the mutex: someone else may have persisted meanwhile.
lock(t) ==
    /\ pc[t] = "lock" /\ idgen_persist_mu = None
    /\ IF idgen_persists < Floor(ret[t])
       THEN /\ idgen_persist_mu' = t
            /\ key' = [key EXCEPT ![t] = page]
            /\ Goto(t, "swap")
            /\ UNCHANGED <<idgen, idgen_persists, page, log, durable, up, given, ret>>
       ELSE Return(t)

swap(t) ==
    /\ pc[t] = "swap"
    /\ idgen_persists' = Floor(ret[t])
    /\ Goto(t, "cas")
    /\ UNCHANGED <<idgen, idgen_persist_mu, page, log, durable, up, given, ret, key>>

\* cas_page retries while the page was merely moved (same timestamp) and gives
\* up, to `continue` the loop, when it was updated.
cas(t) ==
    /\ pc[t] = "cas" /\ Len(log) < MaxMessages
    /\ IF page.ts = key[t].ts
       THEN /\ log' = Append(log, Floor(ret[t]))
            /\ page' = [ts |-> page.ts + 1, lsn |-> Len(log) + 1]
            /\ Goto(t, "wait")
            /\ UNCHANGED idgen_persist_mu
       ELSE /\ idgen_persist_mu' = None
            /\ Goto(t, "lock")
            /\ UNCHANGED <<log, page>>
    /\ UNCHANGED <<idgen, idgen_persists, durable, up, given, ret, key>>

\* Mutant: the previous counter page is not awaited.
waitNot(t) ==
    /\ pc[t] = "wait"
    /\ idgen_persist_mu' = None
    /\ key' = [key EXCEPT ![t] = None]
    /\ Goto(t, "lock")
    /\ UNCHANGED <<idgen, idgen_persists, page, log, durable, up, given, ret>>

\* make_durable of the previous counter page; then the loop is tried again.
wait(t) ==
    /\ pc[t] = "wait" /\ key[t].lsn \in durable
    /\ idgen_persist_mu' = None
    /\ key' = [key EXCEPT ![t] = None]
    /\ Goto(t, "lock")
    /\ UNCHANGED <<idgen, idgen_persists, page, log, durable, up, given, ret>>
----------------------------------------------------------------------------
(* The rest of the database.                                               *)

\* The segment cleaner moves the counter page: the same value and timestamp in
\* a new message (rewrite_page).
Rewrite ==
    /\ up /\ Len(log) < MaxMessages
    /\ log' = Append(log, Counter(page))
    /\ page' = [page EXCEPT !.lsn = Len(log) + 1]
    /\ UNCHANGED <<idgen, idgen_persists, idgen_persist_mu, durable, up, given, locals>>

\* Some other message is written.
Write ==
    /\ up /\ Len(log) < MaxMessages
    /\ log' = Append(log, None)
    /\ UNCHANGED <<memory, durable, up, given, locals>>

\* A buffer reaches the disk.
Sync ==
    /\ up
    /\ \E i \in DOMAIN log \ durable :
          /\ InOrder => 1..(i - 1) \subseteq durable
          /\ durable' = durable \cup {i}
    /\ UNCHANGED <<memory, log, up, given, locals>>

Next ==
    \/ Crash \/ Start \/ Rewrite \/ Write \/ Sync
    \/ \E t \in Threads :
          fetch_add(t) \/ load(t) \/ lock(t) \/ swap(t) \/ cas(t) \/ wait(t)

Spec == Init /\ [][Next]_vars
----------------------------------------------------------------------------
\* Type invariant of the generator, the counter page, the log and the threads.
TypeOK ==
    /\ idgen \in Nat /\ idgen_persists \in Nat
    /\ idgen_persist_mu \in Threads \cup {None}
    /\ log \in Seq(Nat \cup {None}) /\ durable \subseteq DOMAIN log
    /\ page \in [ts : Nat, lsn : DOMAIN log]
    /\ up \in BOOLEAN /\ given \in [0..MaxId -> 0..2]
    /\ pc \in [Threads -> {"idle", "load", "lock", "swap", "cas", "wait"}]
    /\ ret \in [Threads -> 0..MaxId]
    /\ key \in [Threads -> [ts : Nat, lsn : Nat] \cup {None}]

\* No ID is ever returned twice, whatever threads interleave and wherever
\* crashes fall ("ensuring that we will never give out the same counter twice").
IdsAreUnique == \A id \in 0..MaxId : given[id] <= 1

\* The assertions of generate_id_inner: whoever holds the mutex and is about to
\* swap finds in the page exactly what idgen_persists says, although the page
\* may have been moved and others have just persisted.
CounterMatchesPersists ==
    \A t \in Threads : pc[t] = "swap" =>
        /\ Counter(page) = idgen_persists
        /\ Counter(key[t]) = idgen_persists
        /\ idgen_persists < Floor(ret[t])
============================================================================
