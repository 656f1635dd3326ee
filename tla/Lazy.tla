-------------------------------- MODULE Lazy --------------------------------
(* The lazily initialized value of src/lazy.rs, behind which the metrics   *)
(* and the concurrency control stand: a pointer that is checked,           *)
(* a spin lock, and a second check.  One action per atomic access.         *)
EXTENDS Naturals, FiniteSets

CONSTANTS
  Threads,
  MaxDerefs  \* bound: calls of deref by each thread

Null == 0

VARIABLES
  value,    \* the pointer; the k-th value made is k
  init_mu,  \* the spin lock
  pc, seen, \* of each thread: where it is, and the pointer that it holds
  made,     \* values made
  calls,    \* calls of deref so far, by thread
  failed    \* one of the assertions failed

vars == <<value, init_mu, pc, seen, made, calls, failed>>

Init ==
  /\ value = Null /\ init_mu = FALSE /\ made = 0 /\ failed = FALSE
  /\ pc = [t \in Threads |-> "idle"] /\ seen = [t \in Threads |-> Null]
  /\ calls = [t \in Threads |-> 0]

at(t, from) == pc[t] = from
go(t, to) == pc' = [pc EXCEPT ![t] = to]

deref(t) ==
  /\ at(t, "idle") /\ calls[t] < MaxDerefs
  /\ calls' = [calls EXCEPT ![t] = @ + 1]
  /\ seen' = [seen EXCEPT ![t] = value]
  /\ go(t, IF value # Null THEN "return" ELSE "lock")
  /\ UNCHANGED <<value, init_mu, made, failed>>

\* compare_exchange fails, and is tried again, while the lock is taken.
lock(t) ==
  /\ at(t, "lock") /\ ~init_mu
  /\ init_mu' = TRUE
  /\ go(t, "check")
  /\ UNCHANGED <<value, seen, made, calls, failed>>

\* Another thread may have completed the initialization meanwhile.
check(t) ==
  /\ at(t, "check")
  /\ seen' = [seen EXCEPT ![t] = value]
  /\ go(t, IF value # Null THEN "unlock" ELSE "init")
  /\ UNCHANGED <<value, init_mu, made, calls, failed>>

init(t) ==
  /\ at(t, "init")
  /\ made' = made + 1
  /\ seen' = [seen EXCEPT ![t] = made + 1]
  /\ go(t, "swap")
  /\ UNCHANGED <<value, init_mu, calls, failed>>

swap(t) ==
  /\ at(t, "swap")
  /\ failed' = (failed \/ value # Null)
  /\ value' = seen[t]
  /\ go(t, "unlock")
  /\ UNCHANGED <<init_mu, seen, made, calls>>

unlock(t) ==
  /\ at(t, "unlock")
  /\ failed' = (failed \/ ~init_mu)
  /\ init_mu' = FALSE
  /\ go(t, "return")
  /\ UNCHANGED <<value, seen, made, calls>>

return(t) ==
  /\ at(t, "return")
  /\ seen' = [seen EXCEPT ![t] = Null]
  /\ go(t, "idle")
  /\ UNCHANGED <<value, init_mu, made, calls, failed>>

Step(t) == check(t) \/ init(t) \/ swap(t) \/ unlock(t) \/ return(t)
Next == \E t \in Threads : deref(t) \/ lock(t) \/ Step(t)

Spec == Init /\ [][Next]_vars

\* The initializer returns, threads run on, and no thread loses the race for
\* the lock for ever: after the first initialization nobody new waits for it.
FairSpec == Spec /\ \A t \in Threads : WF_vars(Step(t)) /\ SF_vars(lock(t))

-----------------------------------------------------------------------------
(* Properties                                                              *)

\* The value is made at most once, everyone who returns has that value, and
\* the assertions on the old pointer and on the lock hold.
MadeOnce ==
  /\ made <= 1 /\ ~failed
  /\ \A t \in Threads : pc[t] = "return" => seen[t] = 1

\* Every call returns, whoever came first.
CallsReturn == \A t \in Threads : pc[t] # "idle" ~> pc[t] = "idle"
====
