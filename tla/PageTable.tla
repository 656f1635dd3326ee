----------------------------- MODULE PageTable -----------------------------
(* The two-level table from page IDs to pages of src/pagecache/pagetable.rs: *)
(* second-level nodes are made on the way, by whoever comes first, and     *)
(* never go until the table is dropped.                                    *)
EXTENDS Naturals, FiniteSets

CONSTANTS
  Threads,
  FanOut,    \* NODE2_FAN_OUT
  MaxPid,    \* bound: pages 0..MaxPid are allocated, in this order
  MaxNodes   \* bound: second-level nodes made, the ones that lose included

ASSUME FanAssumption ==
  FanOut \in Nat \ {0} /\ MaxPid \in Nat /\ MaxNodes \in Nat

Null == 0
Pids == 0..MaxPid
L1 == 0..(MaxPid \div FanOut)

VARIABLES
  l1,        \* the children of the first level: a node or Null
  l2,        \* node -> its children: whether there is a page
  made,      \* nodes that exist
  next_pid,  \* the next page ID that allocate hands out
  th,        \* thread -> operation and registers
  found,     \* history: pages whose insertion has returned
  gone,      \* the table has been dropped
  failed     \* an assertion failed, or memory was used after it was freed

vars == <<l1, l2, made, next_pid, th, found, gone, failed>>

Idle == [pc |-> "idle", op |-> "get", pid |-> 0, node |-> Null, must |-> FALSE,
         res |-> FALSE]

Init ==
  /\ l1 = [i \in L1 |-> Null]
  /\ l2 = [n \in 1..MaxNodes |-> [j \in 0..(FanOut - 1) |-> FALSE]]
  /\ made = {} /\ next_pid = 0 /\ th = [t \in Threads |-> Idle]
  /\ found = {} /\ gone = FALSE /\ failed = FALSE

split_fanout(pid) == <<pid \div FanOut, pid % FanOut>>

\* The page cache inserts each page ID once, as allocate hands it out.
insert(t) ==
  /\ th[t].pc = "idle" /\ ~gone /\ next_pid <= MaxPid
  /\ next_pid' = next_pid + 1
  /\ th' = [th EXCEPT ![t] = [Idle EXCEPT !.pc = "load", !.op = "insert",
                                          !.pid = next_pid]]
  /\ UNCHANGED <<l1, l2, made, found, gone, failed>>

\* Pages that have been handed out are looked up, there or not.
get(t) ==
  /\ th[t].pc = "idle" /\ ~gone
  /\ \E pid \in Pids :
       /\ pid < next_pid
       /\ th' = [th EXCEPT ![t] = [Idle EXCEPT !.pc = "load", !.pid = pid,
                                               !.must = pid \in found]]
  /\ UNCHANGED <<l1, l2, made, next_pid, found, gone, failed>>

\* traverse: the child of the first level, or a new one to put there.
load(t) ==
  LET n == l1[split_fanout(th[t].pid)[1]] IN
  /\ th[t].pc = "load"
  /\ IF n # Null
     THEN th' = [th EXCEPT ![t].pc = "tip", ![t].node = n] /\ UNCHANGED made
     ELSE \E new \in (1..MaxNodes) \ made :
            /\ made' = made \cup {new}
            /\ th' = [th EXCEPT ![t].pc = "cas", ![t].node = new]
  /\ UNCHANGED <<l1, l2, next_pid, found, gone, failed>>

\* Mutant: who is too late puts its own node there.
casSwap(t) ==
  LET i == split_fanout(th[t].pid)[1] IN
  /\ th[t].pc = "cas"
  /\ l1' = [l1 EXCEPT ![i] = th[t].node]
  /\ th' = [th EXCEPT ![t].pc = "tip"]
  /\ UNCHANGED <<made, l2, next_pid, found, gone, failed>>

\* Who is too late drops its node and takes the one it finds.
cas(t) ==
  LET i == split_fanout(th[t].pid)[1] IN
  /\ th[t].pc = "cas"
  /\ IF l1[i] = Null
     THEN /\ l1' = [l1 EXCEPT ![i] = th[t].node]
          /\ th' = [th EXCEPT ![t].pc = "tip"]
          /\ UNCHANGED made
     ELSE /\ made' = made \ {th[t].node}
          /\ th' = [th EXCEPT ![t].pc = "tip", ![t].node = l1[i]]
          /\ UNCHANGED l1
  /\ UNCHANGED <<l2, next_pid, found, gone, failed>>

\* insert swaps its page in, where nothing may be; get loads what is there.
tip(t) ==
  LET n == th[t].node
      j == split_fanout(th[t].pid)[2] IN
  /\ th[t].pc = "tip"
  /\ IF th[t].op = "insert"
     THEN /\ l2' = [l2 EXCEPT ![n][j] = TRUE]
          /\ failed' = (failed \/ n \notin made \/ l2[n][j])
          /\ found' = found \cup {th[t].pid}
     ELSE failed' = (failed \/ n \notin made) /\ UNCHANGED <<l2, found>>
  /\ th' = [th EXCEPT ![t].pc = "return", ![t].res = l2[n][j]]
  /\ UNCHANGED <<l1, made, next_pid, gone>>

return(t) ==
  /\ th[t].pc = "return"
  /\ th' = [th EXCEPT ![t] = Idle]
  /\ UNCHANGED <<l1, l2, made, next_pid, found, gone, failed>>

\* drop_iter stops at the first child that is not there.
dropped(there, S) == {i \in S : \A j \in S : j <= i => j \in there}

\* The table is dropped when nothing runs in it.
drop ==
  LET up == dropped({i \in L1 : l1[i] # Null}, L1)
      freed(n) == dropped({j \in 0..(FanOut - 1) : l2[n][j]}, 0..(FanOut - 1)) IN
  /\ ~gone /\ \A t \in Threads : th[t].pc = "idle"
  /\ gone' = TRUE
  /\ made' = made \ {l1[i] : i \in up}
  /\ l2' = [n \in 1..MaxNodes |->
              [j \in 0..(FanOut - 1) |->
                 l2[n][j] /\ ~(n \in {l1[i] : i \in up} /\ j \in freed(n))]]
  /\ UNCHANGED <<l1, next_pid, th, found, failed>>

Next ==
  \/ drop
  \/ \E t \in Threads :
       insert(t) \/ get(t) \/ load(t) \/ cas(t) \/ tip(t) \/ return(t)

Spec == Init /\ [][Next]_vars

-----------------------------------------------------------------------------
(* Properties                                                              *)

\* The first level links to nodes that exist, and pages found were handed out.
TypeOK ==
  /\ \A i \in L1 : l1[i] \in made \cup {Null} \/ gone
  /\ next_pid \in 0..(MaxPid + 1) /\ found \subseteq 0..(next_pid - 1)

\* A page whose insertion has returned is found from then on, also by a thread
\* that made a second-level node of its own and lost the race.
FoundFromThenOn == \A t \in Threads : th[t].pc = "return" /\ th[t].must => th[t].res

\* No place is filled twice, and no node is used that its maker has dropped.
NoFailure == ~failed

\* Nothing is left of a table that was dropped, nodes that lost a race
\* included: drop_iter relies on the pages being dense.
NoLeak == gone => made = {} /\ \A n \in DOMAIN l2 : \A j \in DOMAIN l2[n] : ~l2[n][j]
====
