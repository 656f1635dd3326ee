----------------------------- MODULE AtomicMap -----------------------------
(* What a Tree promises to the threads that share it: a map whose          *)
(* operations each take effect at one instant between the call and the     *)
(* return.  A call that changes nothing may answer with any value its key  *)
(* had while the call was open.  A crash forgets the calls, never the map. *)
EXTENDS Naturals

CONSTANTS Threads, Keys, MaxVal

NoValue == 0   \* the absent value

VARIABLES
  map,   \* key -> value or NoValue
  call,  \* thread -> its open operation, or Nothing
  ret,   \* thread -> <<the value the operation found>>, or << >>
  seen   \* thread -> the values its key had since the call

vars == <<map, call, ret, seen>>

Nothing == [kind |-> "none", key |-> 0, old |-> NoValue, new |-> NoValue]

\* The value an operation puts in place of v.
Apply(op, v) ==
  CASE op.kind = "get" -> v
    [] op.kind \in {"set", "del"} -> op.new
    [] op.kind = "cas" -> IF v = op.old THEN op.new ELSE v
    [] op.kind \in {"update", "merge"} -> (v + 1) % (MaxVal + 1)

Init ==
  /\ map \in [Keys -> 0..MaxVal]
  /\ call = [t \in Threads |-> Nothing]
  /\ ret = [t \in Threads |-> << >>]
  /\ seen = [t \in Threads |-> {}]

Begin(t) ==
  /\ call[t] = Nothing
  /\ \E op \in [kind: {"get", "set", "del", "cas", "update", "merge"},
                key: Keys, old: 0..MaxVal, new: 0..MaxVal] :
       /\ call' = [call EXCEPT ![t] = op]
       /\ seen' = [seen EXCEPT ![t] = {map[op.key]}]
  /\ UNCHANGED <<map, ret>>

\* The operation replaces the value of its key and has found the old one.
Effect(t) ==
  LET op == call[t]
      new == Apply(op, map[op.key]) IN
  /\ op # Nothing /\ ret[t] = << >>
  /\ new # map[op.key]
  /\ map' = [map EXCEPT ![op.key] = new]
  /\ ret' = [ret EXCEPT ![t] = <<map[op.key]>>]
  /\ seen' = [u \in Threads |->
                IF call[u].key = op.key /\ call[u] # Nothing
                THEN seen[u] \cup {new} ELSE seen[u]]
  /\ UNCHANGED call

\* The operation found a value that it leaves as it is.
NoEffect(t) ==
  /\ call[t] # Nothing /\ ret[t] = << >>
  /\ \E v \in seen[t] :
       /\ Apply(call[t], v) = v
       /\ ret' = [ret EXCEPT ![t] = <<v>>]
  /\ UNCHANGED <<map, call, seen>>

Return(t) ==
  /\ ret[t] # << >>
  /\ call' = [call EXCEPT ![t] = Nothing]
  /\ ret' = [ret EXCEPT ![t] = << >>]
  /\ seen' = [seen EXCEPT ![t] = {}]
  /\ UNCHANGED map

Crash ==
  /\ call' = [t \in Threads |-> Nothing]
  /\ ret' = [t \in Threads |-> << >>]
  /\ seen' = [t \in Threads |-> {}]
  /\ UNCHANGED map

Next ==
  \/ \E t \in Threads : Begin(t) \/ Effect(t) \/ NoEffect(t) \/ Return(t)
  \/ Crash

Spec == Init /\ [][Next]_vars
=============================================================================
