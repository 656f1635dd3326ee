---------------------------- MODULE SerialStore ----------------------------
(***************************************************************************)
(* What transactions promise (README.md: "serializable (ACID) transactions *)
(* for atomically reading and writing to multiple keys in multiple         *)
(* keyspaces"): every call takes effect at one instant, at which all of    *)
(* its reads are right; a crash keeps the effects of an initial part of    *)
(* the calls, among them all those that were flushed.                      *)
(***************************************************************************)
EXTENDS Naturals, Sequences, SequencesExt

CONSTANTS Threads, Cells, Values, Absent, MaxOps

VARIABLES
    versions,     \* the contents of the store after each change
    flushed,      \* a crash keeps at least this many of them
    ops,          \* what each thread's call did: its reads with their answers and its writes
    outcome,
    at            \* the version at which a call took effect

vars == <<versions, flushed, ops, outcome, at>>


\* One operation: the cells it read with what it found, the cells it wrote, and
\* whether it asks for a flush.
IsOp(op) ==
    /\ op = [reads |-> op.reads, writes |-> op.writes, flush |-> op.flush]
    /\ \A f \in {op.reads, op.writes} :
          DOMAIN f \subseteq Cells /\ \A c \in DOMAIN f : f[c] \in Values \cup {Absent}
    /\ op.flush \in BOOLEAN

Init ==
    /\ versions = <<[c \in Cells |-> Absent]>> /\ flushed = 1
    /\ ops = [t \in Threads |-> <<>>] /\ outcome = [t \in Threads |-> "idle"]
    /\ at = [t \in Threads |-> 1]

Now == Last(versions)

\* The contents after one operation, and whether the operation saw them right.
After(contents, op) ==
    [c \in Cells |-> IF c \in DOMAIN op.writes THEN op.writes[c] ELSE contents[c]]
Right(contents, op) == \A c \in DOMAIN op.reads : op.reads[c] = contents[c]

Effect(contents, done) ==
    LET after[i \in 0..Len(done)] ==
          IF i = 0 THEN contents ELSE After(after[i - 1], done[i])
    IN after[Len(done)]
Legal(contents, done) ==
    \A i \in 1..Len(done) : Right(Effect(contents, SubSeq(done, 1, i - 1)), done[i])
----------------------------------------------------------------------------
Begin(t) ==
    /\ outcome[t] = "idle"
    /\ outcome' = [outcome EXCEPT ![t] = "running"]
    /\ ops' = [ops EXCEPT ![t] = <<>>]
    /\ UNCHANGED <<versions, flushed, at>>

\* One more operation of a call, whatever its answer
More(t) ==
    /\ Len(ops'[t]) = Len(ops[t]) + 1 /\ Len(ops'[t]) <= MaxOps
    /\ ops[t] = SubSeq(ops'[t], 1, Len(ops[t])) /\ IsOp(ops'[t][Len(ops'[t])])
    /\ ops' = [ops EXCEPT ![t] = ops'[t]]

\* While a call runs nothing is said of its answers, and it may start over.
Perform(t) ==
    /\ outcome[t] = "running" /\ outcome' = outcome
    /\ More(t) \/ ops' = [ops EXCEPT ![t] = <<>>]
    /\ UNCHANGED <<versions, flushed, at>>

\* The call takes effect, with its last operation or after it: what it saw is
\* what there was.
Commit(t) ==
    /\ outcome[t] = "running" /\ outcome' = [outcome EXCEPT ![t] = "committed"]
    /\ More(t) \/ ops' = ops
    /\ Legal(Now, ops'[t])
    /\ versions' = IF Effect(Now, ops'[t]) = Now THEN versions
                   ELSE Append(versions, Effect(Now, ops'[t]))
    /\ at' = [at EXCEPT ![t] = Len(versions')]
    /\ UNCHANGED flushed

\* An aborted call has no effect, and yet what it saw is what there was.
Abort(t) ==
    /\ outcome[t] = "running" /\ outcome' = [outcome EXCEPT ![t] = "aborted"]
    /\ Legal(Now, ops[t])
    /\ UNCHANGED <<versions, flushed, ops, at>>

Return(t) ==
    /\ outcome[t] \in {"committed", "aborted"} /\ outcome' = [outcome EXCEPT ![t] = "idle"]
    /\ outcome[t] = "committed" /\ (\E i \in 1..Len(ops[t]) : ops[t][i].flush) => at[t] <= flushed
    /\ ops' = [ops EXCEPT ![t] = <<>>] /\ at' = [at EXCEPT ![t] = 1]
    /\ UNCHANGED <<versions, flushed>>

Flush ==
    /\ flushed' \in flushed..Len(versions)
    /\ UNCHANGED <<versions, ops, outcome, at>>

Crash ==
    /\ flushed' \in flushed..Len(versions) /\ versions' = SubSeq(versions, 1, flushed')
    /\ ops' = [t \in Threads |-> <<>>] /\ outcome' = [t \in Threads |-> "idle"]
    /\ at' = [t \in Threads |-> 1]

Next ==
    \/ \E t \in Threads : Begin(t) \/ Perform(t) \/ Commit(t) \/ Abort(t) \/ Return(t)
    \/ Flush \/ Crash

Spec == Init /\ [][Next]_vars
=============================================================================
