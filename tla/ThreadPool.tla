----------------------------- MODULE ThreadPool -----------------------------
(***************************************************************************)
(* The adaptive thread pool: src/src/threadpool.rs.                        *)
(*                                                                         *)
(* A fixed number of immortal threads serve a queue.  A submitter that     *)
(* finds the queue deep starts a dynamic thread, unless enough threads are *)
(* waiting; a dynamic thread ends when it has been superfluous for some    *)
(* rounds.  A task either runs on its own or, like a flush, submits the    *)
(* write of the sealed buffer to the same pool and waits for it.           *)
(***************************************************************************)
EXTENDS Naturals, FiniteSets, Sequences

CONSTANTS
    Workers, Immortal,    \* all the threads there can be; DESIRED_WAITING_THREADS of them
    Clients,              \* each submits one task, named after it
    Flushes,              \* the clients whose task is a flush
    Write,                \* the task that writes the buffer
    Panics,               \* the clients whose task may panic
    MaxThreads,           \* MAX_THREADS
    MinPerformed, MinOvershoots,  \* the `5` and `3` of perform_work
    Wrap,                 \* usize: 2^64 in the code
    None

\* The constants are meant to satisfy
\*   /\ Immortal \subseteq Workers /\ Flushes \cup Panics \subseteq Clients
\*   /\ Write \notin Clients /\ Immortal # {}
\*   /\ MaxThreads \in Nat /\ MinPerformed \in Nat /\ MinOvershoots \in Nat
\*   /\ Wrap \in Nat /\ Wrap > Cardinality(Workers)

Tasks == Clients \cup {Write}
Submitters == Clients \cup Workers
Desired == Cardinality(Immortal)

VARIABLES
    queue,        \* QUEUE
    waiting_threads, total_workers, spawning, broken,  \* the atomics
    promise,      \* of each task: "empty", "filled" or "dropped"
    sealed,       \* was the buffer sealed by some flush?
    wpc, task, performed, overshoots,   \* the workers
    spc, seen     \* the submitters in `spawn`

pool == <<queue, waiting_threads, total_workers, spawning, broken>>
worker == <<wpc, task, performed, overshoots>>
submitter == <<spc, seen>>
vars == <<pool, promise, sealed, worker, submitter>>

At(w, label) == wpc' = [wpc EXCEPT ![w] = label]
Goto(s, label) == spc' = [spc EXCEPT ![s] = label]

\* init_queue starts the immortal threads.
Init ==
    /\ queue = <<>> /\ waiting_threads = 0 /\ total_workers = Desired
    /\ spawning = FALSE /\ broken = FALSE
    /\ promise = [x \in Tasks |-> "empty"] /\ sealed = FALSE
    /\ wpc = [w \in Workers |-> IF w \in Immortal THEN "recv" ELSE "unborn"]
    /\ task = [w \in Workers |-> None]
    /\ performed = [w \in Workers |-> 0] /\ overshoots = [w \in Workers |-> 0]
    /\ spc = [s \in Submitters |-> IF s \in Clients THEN "send" ELSE "idle"]
    /\ seen = [s \in Submitters |-> 0]
----------------------------------------------------------------------------
(* spawn, maybe_spawn_new_thread and spawn_new_thread.                     *)

\* Queue::send.
send(s) ==
    /\ spc[s] = "send"
    /\ queue' = Append(queue, IF s \in Clients THEN s ELSE Write)
    /\ Goto(s, IF Len(queue) + 1 > Desired THEN "total" ELSE "idle")
    /\ UNCHANGED <<waiting_threads, total_workers, spawning, broken, promise, sealed, worker, seen>>

load_total(s) ==
    /\ spc[s] = "total"
    /\ seen' = [seen EXCEPT ![s] = total_workers]
    /\ Goto(s, "waiting")
    /\ UNCHANGED <<pool, promise, sealed, worker>>

load_waiting(s) ==
    /\ spc[s] = "waiting"
    /\ Goto(s, IF waiting_threads >= Desired \/ seen[s] >= MaxThreads
               THEN "idle" ELSE "spawning")
    /\ UNCHANGED <<pool, promise, sealed, worker, seen>>

cas_spawning(s) ==
    /\ spc[s] = "spawning"
    /\ IF spawning THEN Goto(s, "idle") /\ UNCHANGED spawning
       ELSE spawning' = TRUE /\ Goto(s, "start")
    /\ UNCHANGED <<queue, waiting_threads, total_workers, broken, promise, sealed, worker, seen>>

\* spawn_new_thread(false).  The system may refuse to create a thread.
start(s) ==
    /\ spc[s] = "start"
    /\ Goto(s, "idle")
    /\ \/ /\ broken
          /\ UNCHANGED <<spawning, total_workers, worker>>
       \/ /\ ~broken /\ total_workers' = total_workers + 1
          /\ \/ /\ \E w \in Workers :
                     /\ wpc[w] = "unborn"
                     /\ At(w, "born")
                /\ UNCHANGED <<spawning, task, performed, overshoots>>
             \/ spawning' = FALSE /\ UNCHANGED worker
    /\ UNCHANGED <<queue, waiting_threads, broken, promise, sealed, seen>>
----------------------------------------------------------------------------
(* perform_work and Queue::recv_timeout.                                   *)

born(w) ==
    /\ wpc[w] = "born"
    /\ spawning' = FALSE
    /\ At(w, "recv")
    /\ performed' = [performed EXCEPT ![w] = 0]
    /\ overshoots' = [overshoots EXCEPT ![w] = 0]
    /\ UNCHANGED <<queue, waiting_threads, total_workers, broken, promise, sealed, task, submitter>>

\* Mutant: the head of the queue is read and not removed.
takeKeeps(w) ==
    /\ task' = [task EXCEPT ![w] = Head(queue)]
    /\ queue' = queue
    /\ At(w, "run")

\* pop_front.
take(w) ==
    /\ task' = [task EXCEPT ![w] = Head(queue)]
    /\ queue' = Tail(queue)
    /\ At(w, "run")

\* recv_timeout: a task is there, or wait.  A thread that runs a task is counted
\* as one less that waits, although it was not counted before.
recv(w) ==
    /\ wpc[w] = "recv"
    /\ IF queue # <<>>
       THEN take(w) /\ waiting_threads' = (waiting_threads + Wrap - 1) % Wrap
       ELSE /\ At(w, "wait")
            /\ waiting_threads' = (waiting_threads + 1) % Wrap
            /\ UNCHANGED <<task, queue>>
    /\ UNCHANGED <<total_workers, spawning, broken, promise, sealed, performed, overshoots, submitter>>

\* Woken: by a notification, which leaves the task to the first to come, or by the
\* timeout.
wake(w) ==
    /\ wpc[w] = "wait"
    /\ IF queue # <<>>
       THEN take(w) /\ waiting_threads' = (waiting_threads + Wrap - 2) % Wrap
       ELSE /\ At(w, "try")
            /\ waiting_threads' = (waiting_threads + Wrap - 1) % Wrap
            /\ UNCHANGED <<task, queue>>
    /\ UNCHANGED <<total_workers, spawning, broken, promise, sealed, performed, overshoots, submitter>>

\* The task returns, and its promise is filled.  A flush returns when the write
\* is done; the first one seals the buffer and submits the write.
finish(w) ==
    /\ wpc[w] = "run" /\ spc[w] = "idle"
    /\ task[w] \in Flushes => promise[Write] # "empty"
    /\ promise' = [promise EXCEPT ![task[w]] = "filled"]
    /\ waiting_threads' = (waiting_threads + 1) % Wrap
    /\ task' = [task EXCEPT ![w] = None]
    /\ performed' = [performed EXCEPT ![w] = IF @ < MinPerformed THEN @ + 1 ELSE @]
    /\ At(w, "try")
    /\ UNCHANGED <<queue, total_workers, spawning, broken, sealed, overshoots, submitter>>

flush(w) ==
    /\ wpc[w] = "run" /\ spc[w] = "idle" /\ task[w] \in Flushes /\ ~sealed
    /\ sealed' = TRUE
    /\ Goto(w, "send")
    /\ UNCHANGED <<pool, promise, worker, seen>>

\* OneShotFiller::drop, when a task unwinds.
drop(w) == promise' = [promise EXCEPT ![task[w]] = "dropped"]

\* A task panics: its promise is dropped and the thread is lost.
panic(w) ==
    /\ wpc[w] = "run" /\ task[w] \in Panics
    /\ drop(w)
    /\ task' = [task EXCEPT ![w] = None]
    /\ total_workers' = total_workers - 1
    /\ broken' = (broken \/ w \in Immortal)
    /\ At(w, "unborn")
    /\ UNCHANGED <<queue, waiting_threads, spawning, sealed, performed, overshoots, submitter>>

\* try_recv until the queue is empty; then see whether this thread is needed.
try_recv(w) ==
    /\ wpc[w] = "try"
    /\ IF queue # <<>>
       THEN /\ take(w) /\ waiting_threads' = (waiting_threads + Wrap - 1) % Wrap
            /\ UNCHANGED <<overshoots, total_workers>>
       ELSE LET n == IF waiting_threads > Desired
                     THEN (IF overshoots[w] < MinOvershoots THEN overshoots[w] + 1 ELSE overshoots[w])
                     ELSE 0
                stay == w \in Immortal \/ performed[w] < MinPerformed \/ n < MinOvershoots
            IN /\ overshoots' = [overshoots EXCEPT ![w] = n]
               /\ At(w, IF stay THEN "recv" ELSE "unborn")
               /\ total_workers' = IF stay THEN total_workers ELSE total_workers - 1
               /\ UNCHANGED <<task, queue, waiting_threads>>
    /\ UNCHANGED <<spawning, broken, promise, sealed, performed, submitter>>

SubmitterNext(s) ==
    send(s) \/ load_total(s) \/ load_waiting(s) \/ cas_spawning(s) \/ start(s)

WorkerNext(w) ==
    born(w) \/ recv(w) \/ wake(w) \/ finish(w) \/ flush(w) \/ panic(w) \/ try_recv(w)

Next ==
    \/ \E s \in Submitters : SubmitterNext(s)
    \/ \E w \in Workers : WorkerNext(w)

\* Every thread keeps running; wait_until has a timeout, so `wake` comes.
Fairness ==
    /\ \A s \in Submitters : WF_vars(SubmitterNext(s))
    /\ \A w \in Workers : WF_vars(WorkerNext(w))

Spec == Init /\ [][Next]_vars
FairSpec == Spec /\ Fairness
----------------------------------------------------------------------------
\* Type invariant of the pool.
TypeOK ==
    /\ queue \in Seq(Tasks) /\ waiting_threads \in 0..(Wrap - 1)
    /\ total_workers \in Nat /\ {spawning, broken, sealed} \subseteq BOOLEAN
    /\ promise \in [Tasks -> {"empty", "filled", "dropped"}]
    /\ wpc \in [Workers -> {"unborn", "born", "recv", "wait", "run", "try"}]
    /\ task \in [Workers -> Tasks \cup {None}]
    /\ spc \in [Submitters -> {"send", "idle", "total", "waiting", "spawning", "start"}]

Queued(x) == {i \in DOMAIN queue : queue[i] = x}
Running(x) == {w \in Workers : task[w] = x}

\* A submitted task is in exactly one place until its promise is resolved: in the
\* queue or on a thread, never lost between them and never taken twice, whatever
\* threads are started, woken by the same notification, or end.
TaskIsInOnePlace ==
    \A x \in Tasks :
        LET places == Cardinality(Queued(x)) + Cardinality(Running(x))
            submitted == IF x = Write THEN sealed /\ \A w \in Workers : spc[w] # "send"
                         ELSE spc[x] # "send"
        IN IF promise[x] = "empty" /\ submitted THEN places = 1 ELSE places = 0

\* At most one dynamic thread is on its way at any time: the flag that is taken by
\* the submitter is released by the thread it starts.
OneThreadIsStarting ==
    Cardinality({w \in Workers : wpc[w] = "born"} \cup {s \in Submitters : spc[s] = "start"}) <= 1

\* Every task that is submitted is run to its end, or its promise is dropped: the
\* caller is not left waiting.
EveryPromiseResolves == \A x \in Clients : <>(promise[x] # "empty")

\* A submitter that finds the queue deep gives up only when enough threads wait for
\* work, or there are as many as allowed ("Create up to MAX_THREADS dynamic
\* blocking task worker threads").
GrowsWhenBusy ==
    [][\A s \in Submitters :
          (spc[s] = "waiting" /\ spc'[s] = "idle") =>
              \/ seen[s] >= MaxThreads
              \/ Cardinality({w \in Workers : wpc[w] = "wait"}) >= Desired]_vars

\* "Dynamic threads will terminate themselves if they don't receive any work":
\* when all the tasks are done, only the immortal threads remain.
DynamicThreadsEnd == <>[](\A w \in Workers \ Immortal : wpc[w] = "unborn")
============================================================================
