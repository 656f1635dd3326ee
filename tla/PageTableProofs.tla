-------------------------- MODULE PageTableProofs ---------------------------
(* What PageTable promises while it lives, for every fan-out, number of     *)
(* pages and nodes, and set of threads.                                     *)
EXTENDS PageTable, TLAPS
USE ZenonT(30)
Hi(p) == p \div FanOut
Lo(p) == p % FanOut
Slots == 0..(FanOut - 1)
Nodes == 1..MaxNodes

\* The two halves of a page ID are within the two levels.
LEMMA SplitRange == \A p \in Pids : Hi(p) \in L1 /\ Lo(p) \in Slots
<1> SUFFICES ASSUME NEW p \in Pids PROVE Hi(p) \in L1 /\ Lo(p) \in Slots
  OBVIOUS
<1>1. FanOut \in Nat /\ FanOut > 0 /\ p \in Nat /\ MaxPid \in Nat /\ p <= MaxPid
  BY SMTT(30), FanAssumption DEF Pids
<1>2. Lo(p) \in Slots
  BY SMTT(30), <1>1 DEF Lo, Slots
<1> DEFINE q == p \div FanOut
           m == MaxPid \div FanOut
<1>3. /\ q \in Nat /\ m \in Nat /\ FanOut * q <= p /\ MaxPid < FanOut * (m + 1)
  BY SMTT(30), <1>1
<1>4. q <= m
  <2> HIDE DEF q, m
  <2> SUFFICES ASSUME q >= m + 1 PROVE FALSE
    BY SMTT(30), <1>3
  <2>1. FanOut * (m + 1) <= FanOut * q
    BY SMTT(30), <1>1, <1>3
  <2> QED
    BY SMTT(30), <1>1, <1>3, <2>1
<1> QED
  BY SMTT(30), <1>2, <1>3, <1>4 DEF Hi, L1

\* No two page IDs share both halves.
LEMMA SplitInjective ==
  \A p, r \in Pids : Hi(p) = Hi(r) /\ Lo(p) = Lo(r) => p = r
<1> SUFFICES ASSUME NEW p \in Pids, NEW r \in Pids, Hi(p) = Hi(r), Lo(p) = Lo(r)
             PROVE p = r
  OBVIOUS
<1>1. FanOut \in Nat /\ FanOut > 0 /\ p \in Nat /\ r \in Nat
  BY SMTT(30), FanAssumption DEF Pids
<1>2. p = FanOut * Hi(p) + Lo(p) /\ r = FanOut * Hi(r) + Lo(r)
  BY SMTT(30), <1>1 DEF Hi, Lo
<1> QED
  BY <1>2
-----------------------------------------------------------------------------
(* The inductive invariant.                                                *)

ThreadRecord ==
  [pc : {"idle", "load", "cas", "tip", "return"}, op : {"get", "insert"},
   pid : Pids, node : Nodes \cup {Null}, must : BOOLEAN, res : BOOLEAN]

Typed ==
  /\ l1 \in [L1 -> Nodes \cup {Null}]
  /\ l2 \in [Nodes -> [Slots -> BOOLEAN]]
  /\ made \subseteq Nodes
  /\ next_pid \in 0..(MaxPid + 1)
  /\ th \in [Threads -> ThreadRecord]
  /\ found \subseteq 0..(next_pid - 1)
  /\ gone \in BOOLEAN /\ failed = FALSE

\* The nodes of the first level exist and each is in one place.
Linked ==
  /\ \A i \in L1 : l1[i] # Null => l1[i] \in made
  /\ \A i, k \in L1 : l1[i] = l1[k] /\ l1[i] # Null => i = k

\* A node about to be linked is its maker's alone.
Private ==
  \A t \in Threads : th[t].pc = "cas" =>
    /\ th[t].node \in made
    /\ \A i \in L1 : l1[i] # th[t].node
    /\ \A u \in Threads : th[u].pc = "cas" /\ th[u].node = th[t].node => u = t

\* A thread that has traversed is at the node of its page.
Traversed ==
  \A t \in Threads : th[t].pc = "tip" =>
    th[t].node \in Nodes /\ l1[Hi(th[t].pid)] = th[t].node

\* What is filled is what was found, in its place.
Filled ==
  /\ \A p \in found : l1[Hi(p)] \in Nodes /\ l2[l1[Hi(p)]][Lo(p)] = TRUE
  /\ \A n \in Nodes, j \in Slots : l2[n][j] = TRUE =>
       \E p \in found : l1[Hi(p)] = n /\ Lo(p) = j

Inserting(t) == th[t].pc \in {"load", "cas", "tip"} /\ th[t].op = "insert"

\* Every page is inserted by one thread.
InsertedOnce ==
  \A t \in Threads : Inserting(t) =>
    /\ th[t].pid < next_pid /\ th[t].pid \notin found
    /\ \A u \in Threads : Inserting(u) /\ th[u].pid = th[t].pid => u = t

\* Who must find its page does.
MustFind ==
  \A t \in Threads : th[t].must = TRUE =>
    /\ th[t].pc # "idle" => th[t].pid \in found
    /\ th[t].pc = "return" => th[t].res = TRUE

IInv ==
  /\ Typed
  /\ gone = TRUE => \A t \in Threads : th[t].pc = "idle"
  /\ gone = FALSE => Linked /\ Private /\ Traversed /\ Filled /\ InsertedOnce /\ MustFind

LEMMA Initial == Init => IInv
<1> SUFFICES ASSUME Init PROVE IInv
  OBVIOUS
<1>1. Idle \in ThreadRecord
  BY SMTT(30), FanAssumption DEF Idle, ThreadRecord, Pids, Null
<1>2. Typed
  <2>1. l2 \in [Nodes -> [Slots -> BOOLEAN]]
    BY DEF Init, Nodes, Slots
  <2>2. l1 \in [L1 -> Nodes \cup {Null}] /\ th \in [Threads -> ThreadRecord]
    BY <1>1 DEF Init
  <2>3. next_pid \in 0..(MaxPid + 1) /\ made \subseteq Nodes /\ found \subseteq 0..(next_pid - 1)
    BY SMTT(30), FanAssumption DEF Init
  <2>4. gone \in BOOLEAN /\ failed = FALSE
    BY DEF Init
  <2> QED
    BY <2>1, <2>2, <2>3, <2>4 DEF Typed
<1>3. \A t \in Threads : th[t].pc = "idle" /\ th[t].must = FALSE
  BY DEF Init, Idle
<1>4. Filled
  BY DEF Init, Filled, Nodes, Slots
<1>5. Linked
  BY DEF Init, Linked
<1> QED
  BY <1>2, <1>3, <1>4, <1>5
  DEF IInv, Private, Traversed, InsertedOnce, Inserting, MustFind

-----------------------------------------------------------------------------
(* A step of one thread changes its record only.                           *)

Moves(t, r) ==
  /\ r \in ThreadRecord /\ th' \in [Threads -> ThreadRecord] /\ th'[t] = r
  /\ \A u \in Threads : u # t => th'[u] = th[u]

Same(r, s) == r.op = s.op /\ r.pid = s.pid /\ r.must = s.must

LEMMA MovesTo ==
  ASSUME Typed, NEW t \in Threads, NEW r \in ThreadRecord, th' = [th EXCEPT ![t] = r]
  PROVE Moves(t, r)
  BY DEF Typed, Moves

LEMMA MovesNode ==
  ASSUME Typed, NEW t \in Threads, NEW l \in {"cas", "tip"}, NEW n \in Nodes,
         th' = [th EXCEPT ![t].pc = l, ![t].node = n]
  PROVE \E r \in ThreadRecord :
          Moves(t, r) /\ Same(r, th[t]) /\ r.pc = l /\ r.node = n
<1> DEFINE r == [th[t] EXCEPT !.pc = l, !.node = n]
<1>1. r \in ThreadRecord /\ Same(r, th[t]) /\ r.pc = l /\ r.node = n
  BY DEF Typed, ThreadRecord, Same
<1>2. th' = [th EXCEPT ![t] = r]
  BY DEF Typed
<1> HIDE DEF r
<1> QED
  BY <1>1, <1>2, MovesTo

-----------------------------------------------------------------------------
(* One lemma per action.                                                   *)

\* A page ID is handed out that no thread inserts and none has found.
LEMMA InsertStep == ASSUME IInv, NEW t \in Threads, insert(t) PROVE IInv'
<1> DEFINE pid == th[t].pid
<1>1. /\ gone = FALSE /\ gone' = FALSE /\ Typed /\ Linked /\ Private /\ Traversed
      /\ Filled /\ InsertedOnce /\ MustFind
  BY DEF IInv, Typed, insert
<1>2. /\ pid \in Pids /\ Hi(pid) \in L1 /\ Lo(pid) \in Slots
      /\ th[t] \in ThreadRecord
  BY <1>1, SplitRange DEF Typed, ThreadRecord
<1> DEFINE r == [Idle EXCEPT !.pc = "load", !.op = "insert", !.pid = next_pid]
<1>3. /\ next_pid \in Pids /\ next_pid' = next_pid + 1
      /\ UNCHANGED <<l1, l2, made, found, gone, failed>>
  BY SMTT(30), <1>1, FanAssumption DEF insert, Typed, Pids
<1>4. r \in ThreadRecord
  BY <1>3 DEF Idle, ThreadRecord
<1>5. r.pc = "load" /\ r.op = "insert" /\ r.pid = next_pid /\ r.must = FALSE
  BY DEF Idle
<1>6. th' = [th EXCEPT ![t] = r]
  BY DEF insert
<1> HIDE DEF r
<1>7. Moves(t, r)
  BY <1>1, <1>4, <1>6, MovesTo
<1>10. Typed'
  <2>1. next_pid' \in 0..(MaxPid + 1) /\ found' \subseteq 0..(next_pid' - 1)
    BY SMTT(30), <1>1, <1>3, FanAssumption DEF Typed, Pids
  <2> QED
    BY <1>1, <1>3, <1>7, <2>1 DEF Typed, Moves
<1>11. Linked'
  BY <1>1, <1>2, <1>3, <1>5, <1>7 DEF Linked, Typed, ThreadRecord, Null, Inserting, Moves, Same, Pids
<1>12. Private'
  BY SMTT(30), <1>1, <1>2, <1>3, <1>5, <1>7 DEF Private, Typed, ThreadRecord, Null, Inserting, Moves, Same, Pids
<1>13. Traversed'
  BY <1>1, <1>2, <1>3, <1>5, <1>7 DEF Traversed, Typed, ThreadRecord, Null, Inserting, Moves, Same, Pids
<1>14. Filled'
  BY SMTT(30), <1>1, <1>2, <1>3, <1>5, <1>7 DEF Filled, Typed, ThreadRecord, Null, Inserting, Moves, Same, Pids
<1>15. InsertedOnce'
  BY SMTT(30), <1>1, <1>2, <1>3, <1>5, <1>7 DEF InsertedOnce, Typed, ThreadRecord, Null, Inserting, Moves, Same, Pids
<1>16. MustFind'
  BY <1>1, <1>2, <1>3, <1>5, <1>7 DEF MustFind, Typed, ThreadRecord, Null, Inserting, Moves, Same, Pids
<1> QED
  BY <1>1, <1>10, <1>11, <1>12, <1>13, <1>14, <1>15, <1>16 DEF IInv

\* A thread that must find its page looks for one that was found.
LEMMA GetStep == ASSUME IInv, NEW t \in Threads, get(t) PROVE IInv'
<1> DEFINE pid == th[t].pid
<1>1. /\ gone = FALSE /\ gone' = FALSE /\ Typed /\ Linked /\ Private /\ Traversed
      /\ Filled /\ InsertedOnce /\ MustFind
  BY DEF IInv, Typed, get
<1>2. /\ pid \in Pids /\ Hi(pid) \in L1 /\ Lo(pid) \in Slots
      /\ th[t] \in ThreadRecord
  BY <1>1, SplitRange DEF Typed, ThreadRecord
<1>3. PICK p \in Pids :
        th' = [th EXCEPT ![t] = [Idle EXCEPT !.pc = "load", !.pid = p,
                                             !.must = p \in found]]
  BY DEF get
<1> DEFINE b == p \in found
           r == [Idle EXCEPT !.pc = "load", !.pid = p, !.must = b]
<1>4. b \in BOOLEAN /\ (b = TRUE => p \in found)
  BY SMTT(30)
<1>5. th' = [th EXCEPT ![t] = r] /\ UNCHANGED <<l1, l2, made, next_pid, found, gone, failed>>
  BY <1>3 DEF get
<1> HIDE DEF b
<1>6. r \in ThreadRecord
  BY <1>4 DEF Idle, ThreadRecord
<1>7. r.pc = "load" /\ r.op = "get" /\ r.pid = p /\ (r.must = TRUE => p \in found)
  BY <1>4 DEF Idle
<1> HIDE DEF r
<1>8. Moves(t, r)
  BY <1>1, <1>5, <1>6, MovesTo
<1>10. Typed'
  BY <1>1, <1>2, <1>5, <1>7, <1>8 DEF Typed, ThreadRecord, Null, Inserting, Moves, Same
<1>11. Linked'
  BY SMTT(30), <1>1, <1>2, <1>5, <1>7, <1>8 DEF Linked, Typed, ThreadRecord, Null, Inserting, Moves, Same
<1>12. Private'
  BY SMTT(30), <1>1, <1>2, <1>5, <1>7, <1>8 DEF Private, Typed, ThreadRecord, Null, Inserting, Moves, Same
<1>13. Traversed'
  BY <1>1, <1>2, <1>5, <1>7, <1>8 DEF Traversed, Typed, ThreadRecord, Null, Inserting, Moves, Same
<1>14. Filled'
  BY SMTT(30), <1>1, <1>2, <1>5, <1>7, <1>8 DEF Filled, Typed, ThreadRecord, Null, Inserting, Moves, Same
<1>15. InsertedOnce'
  BY SMTT(30), <1>1, <1>2, <1>5, <1>7, <1>8 DEF InsertedOnce, Typed, ThreadRecord, Null, Inserting, Moves, Same
<1>16. MustFind'
  BY <1>1, <1>2, <1>5, <1>7, <1>8 DEF MustFind, Typed, ThreadRecord, Null, Inserting, Moves, Same
<1> QED
  BY <1>1, <1>10, <1>11, <1>12, <1>13, <1>14, <1>15, <1>16 DEF IInv

\* The node found is linked; a new one is in no other place.
LEMMA LoadStep == ASSUME IInv, NEW t \in Threads, load(t) PROVE IInv'
<1> DEFINE pid == th[t].pid
<1>1. /\ gone = FALSE /\ gone' = FALSE /\ Typed /\ Linked /\ Private /\ Traversed
      /\ Filled /\ InsertedOnce /\ MustFind
  BY DEF IInv, Typed, load
<1>2. /\ pid \in Pids /\ Hi(pid) \in L1 /\ Lo(pid) \in Slots
      /\ th[t] \in ThreadRecord
  BY <1>1, SplitRange DEF Typed, ThreadRecord
<1>3. th[t].pc = "load" /\ UNCHANGED <<l1, l2, next_pid, found, gone, failed>>
  BY DEF load
<1>4. \/ /\ l1[Hi(pid)] # Null /\ made' = made
         /\ th' = [th EXCEPT ![t].pc = "tip", ![t].node = l1[Hi(pid)]]
      \/ \E n \in Nodes \ made :
            /\ made' = made \cup {n}
            /\ th' = [th EXCEPT ![t].pc = "cas", ![t].node = n]
  BY DEF load, split_fanout, Hi, Nodes
<1>5. l1[Hi(pid)] # Null => l1[Hi(pid)] \in Nodes
  BY <1>1, <1>2 DEF Typed
<1>6. PICK r \in ThreadRecord :
        /\ Moves(t, r) /\ Same(r, th[t])
        /\ \/ /\ r.pc = "tip" /\ r.node = l1[Hi(pid)] /\ r.node \in Nodes
              /\ made' = made
           \/ r.pc = "cas" /\ r.node \in Nodes \ made /\ made' = made \cup {r.node}
  <2>1. CASE l1[Hi(pid)] # Null /\ made' = made
             /\ th' = [th EXCEPT ![t].pc = "tip", ![t].node = l1[Hi(pid)]]
    <3>1. PICK n \in Nodes : n = l1[Hi(pid)]
      BY <1>5, <2>1
    <3>2. th' = [th EXCEPT ![t].pc = "tip", ![t].node = n]
      BY <2>1, <3>1
    <3>3. PICK r \in ThreadRecord :
            Moves(t, r) /\ Same(r, th[t]) /\ r.pc = "tip" /\ r.node = n
      BY <1>1, <3>2, MovesNode
    <3> QED
      BY <2>1, <3>1, <3>3
  <2>2. ASSUME NEW n \in Nodes \ made, made' = made \cup {n},
               th' = [th EXCEPT ![t].pc = "cas", ![t].node = n]
        PROVE \E r \in ThreadRecord : /\ Moves(t, r) /\ Same(r, th[t])
                /\ r.pc = "cas" /\ r.node \in Nodes \ made /\ made' = made \cup {r.node}
    <3>1. n \in Nodes /\ Typed
      BY <1>1, <2>2
    <3>2. PICK r \in ThreadRecord :
            Moves(t, r) /\ Same(r, th[t]) /\ r.pc = "cas" /\ r.node = n
      BY <2>2, <3>1, MovesNode
    <3> QED
      BY <2>2, <3>2
  <2> QED
    BY <1>4, <2>1, <2>2
<1>10. Typed'
  BY <1>1, <1>2, <1>3, <1>6 DEF Typed, ThreadRecord, Null, Inserting, Moves, Same, Linked
<1>11. Linked'
  BY <1>1, <1>2, <1>3, <1>6 DEF Linked, Typed, ThreadRecord, Null, Inserting, Moves, Same
<1>12. Private'
  <2>1. CASE r.pc = "tip" /\ made' = made
    BY <1>1, <1>3, <1>6, <2>1 DEF Private, Moves
  <2>2. CASE r.pc = "cas" /\ r.node \in Nodes \ made /\ made' = made \cup {r.node}
    <3>1. \A i \in L1 : l1[i] # r.node
      BY SMTT(30), <1>1, <2>2, FanAssumption DEF Linked, Nodes, Null
    <3>2. \A u \in Threads : u # t /\ th'[u].pc = "cas" =>
            /\ th[u].pc = "cas" /\ th'[u].node = th[u].node
            /\ th[u].node \in made /\ th[u].node # r.node
      BY <1>1, <1>6, <2>2 DEF Private, Moves
    <3> QED
      BY SMTT(30), <1>1, <1>3, <1>6, <2>2, <3>1, <3>2 DEF Private, Moves
  <2> QED
    BY <1>6, <2>1, <2>2
<1>13. Traversed'
  BY <1>1, <1>2, <1>3, <1>6 DEF Traversed, Typed, ThreadRecord, Null, Inserting, Moves, Same, Linked
<1>14. Filled'
  BY SMTT(30), <1>1, <1>2, <1>3, <1>6 DEF Filled, Typed, ThreadRecord, Null, Inserting, Moves, Same, Linked
<1>15. InsertedOnce'
  BY SMTT(30), <1>1, <1>2, <1>3, <1>6 DEF InsertedOnce, Typed, ThreadRecord, Null, Inserting, Moves, Same, Linked
<1>16. MustFind'
  BY <1>1, <1>2, <1>3, <1>6 DEF MustFind, Typed, ThreadRecord, Null, Inserting, Moves, Same, Linked
<1> QED
  BY <1>1, <1>10, <1>11, <1>12, <1>13, <1>14, <1>15, <1>16 DEF IInv

\* A place is filled once, and who is too late drops what nobody else has.
LEMMA CasStep == ASSUME IInv, NEW t \in Threads, cas(t) PROVE IInv'
<1> DEFINE pid == th[t].pid
<1>1. /\ gone = FALSE /\ gone' = FALSE /\ Typed /\ Linked /\ Private /\ Traversed
      /\ Filled /\ InsertedOnce /\ MustFind
  BY DEF IInv, Typed, cas
<1>2. /\ pid \in Pids /\ Hi(pid) \in L1 /\ Lo(pid) \in Slots
      /\ th[t] \in ThreadRecord
  BY <1>1, SplitRange DEF Typed, ThreadRecord
<1> DEFINE i == Hi(pid)
<1>3. th[t].pc = "cas" /\ UNCHANGED <<l2, next_pid, found, gone, failed>>
  BY DEF cas
<1>4. \/ /\ l1[i] = Null /\ l1' = [l1 EXCEPT ![i] = th[t].node]
         /\ th' = [th EXCEPT ![t].pc = "tip"] /\ made' = made
      \/ /\ l1[i] # Null /\ made' = made \ {th[t].node} /\ l1' = l1
         /\ th' = [th EXCEPT ![t].pc = "tip", ![t].node = l1[i]]
  BY DEF cas, split_fanout, Hi
<1>5. /\ th[t].node \in made /\ th[t].node \in Nodes
      /\ l1[i] # Null => l1[i] \in Nodes
  BY <1>1, <1>2, <1>3 DEF Private, Typed
<1>6. PICK r \in ThreadRecord :
        /\ Moves(t, r) /\ Same(r, th[t]) /\ r.pc = "tip" /\ r.node \in Nodes
        /\ \/ /\ l1[i] = Null /\ l1' = [l1 EXCEPT ![i] = th[t].node]
              /\ r.node = th[t].node /\ made' = made
           \/ /\ l1[i] # Null /\ made' = made \ {th[t].node} /\ l1' = l1
              /\ r.node = l1[i]
  <2>1. CASE /\ l1[i] = Null /\ l1' = [l1 EXCEPT ![i] = th[t].node]
             /\ th' = [th EXCEPT ![t].pc = "tip"] /\ made' = made
    <3>1. PICK n \in Nodes : n = th[t].node
      BY <1>5
    <3>2. th' = [th EXCEPT ![t].pc = "tip", ![t].node = n]
      BY <1>1, <2>1, <3>1 DEF Typed, ThreadRecord
    <3>3. PICK r \in ThreadRecord :
            Moves(t, r) /\ Same(r, th[t]) /\ r.pc = "tip" /\ r.node = n
      BY <1>1, <3>2, MovesNode
    <3> QED
      BY <2>1, <3>1, <3>3
  <2>2. CASE /\ l1[i] # Null /\ made' = made \ {th[t].node} /\ l1' = l1
             /\ th' = [th EXCEPT ![t].pc = "tip", ![t].node = l1[i]]
    <3>1. PICK n \in Nodes : n = l1[i]
      BY <1>5, <2>2
    <3>2. th' = [th EXCEPT ![t].pc = "tip", ![t].node = n]
      BY <2>2, <3>1
    <3>3. PICK r \in ThreadRecord :
            Moves(t, r) /\ Same(r, th[t]) /\ r.pc = "tip" /\ r.node = n
      BY <1>1, <3>2, MovesNode
    <3> QED
      BY <2>2, <3>1, <3>3
  <2> QED
    BY <1>4, <2>1, <2>2
<1>7. /\ \A k \in L1 : k # i => l1'[k] = l1[k]
      /\ l1[i] # Null => l1'[i] = l1[i]
      /\ l1'[i] = r.node
  BY <1>1, <1>2, <1>6 DEF Typed
<1>8. \A p \in Pids : Hi(p) \in L1 /\ Lo(p) \in Slots
  BY SplitRange
<1>9. found \subseteq Pids /\ \A u \in Threads : th[u].pid \in Pids
  BY SMTT(30), <1>1, FanAssumption DEF Typed, ThreadRecord, Pids
<1> HIDE DEF i
<1>10. Typed'
  BY <1>1, <1>2, <1>3, <1>5, <1>6 DEF Typed, ThreadRecord, Null, Inserting, Moves, Same, Linked, Private
<1>11. Linked'
  BY SMTT(30), <1>1, <1>2, <1>3, <1>5, <1>6, <1>7 DEF Linked, Private
<1>12. Private'
  BY SMTT(30), <1>1, <1>2, <1>3, <1>5, <1>6 DEF Private, Typed, ThreadRecord, Null, Inserting, Moves, Same, Linked
<1>13. Traversed'
  <2>1. th'[t].node \in Nodes /\ l1'[Hi(th'[t].pid)] = th'[t].node
    BY <1>6, <1>7 DEF i, Moves, Same
  <2>2. ASSUME NEW u \in Threads, u # t, th'[u].pc = "tip"
        PROVE th'[u].node \in Nodes /\ l1'[Hi(th'[u].pid)] = th'[u].node
    <3>1. th'[u] = th[u] /\ th[u].node \in Nodes /\ l1[Hi(th[u].pid)] = th[u].node
      BY <1>1, <1>6, <2>2 DEF Traversed, Moves
    <3> QED
      BY SMTT(30), <1>7, <1>8, <1>9, <3>1, FanAssumption DEF Nodes, Null
  <2> QED
    BY <2>1, <2>2 DEF Traversed
<1>14. Filled'
  <2>1. \A p \in found : l1'[Hi(p)] = l1[Hi(p)]
    BY SMTT(30), <1>1, <1>7, <1>8, <1>9, FanAssumption DEF Filled, Nodes, Null
  <2> QED
    BY <1>1, <1>3, <2>1 DEF Filled
<1>15. InsertedOnce'
  BY SMTT(30), <1>1, <1>3, <1>6 DEF InsertedOnce, Inserting, Moves, Same
<1>16. MustFind'
  BY <1>1, <1>3, <1>6 DEF MustFind, Moves, Same
<1> QED
  BY <1>1, <1>10, <1>11, <1>12, <1>13, <1>14, <1>15, <1>16 DEF IInv

\* A page goes where nothing is, and who must find its page does.
LEMMA TipStep == ASSUME IInv, NEW t \in Threads, tip(t) PROVE IInv'
<1> DEFINE pid == th[t].pid
<1>1. /\ gone = FALSE /\ gone' = FALSE /\ Typed /\ Linked /\ Private /\ Traversed
      /\ Filled /\ InsertedOnce /\ MustFind
  BY DEF IInv, Typed, tip
<1>2. /\ pid \in Pids /\ Hi(pid) \in L1 /\ Lo(pid) \in Slots
      /\ th[t] \in ThreadRecord
  BY <1>1, SplitRange DEF Typed, ThreadRecord
<1> DEFINE n == th[t].node
           j == Lo(pid)
<1>3. /\ th[t].pc = "tip" /\ UNCHANGED <<l1, made, next_pid, gone>>
      /\ th' = [th EXCEPT ![t].pc = "return", ![t].res = l2[n][j]]
  BY DEF tip, split_fanout, Lo
<1>4. n \in Nodes /\ l1[Hi(pid)] = n /\ n \in made
  BY SMTT(30), <1>1, <1>2, <1>3, FanAssumption DEF Traversed, Linked, Nodes, Null
<1>5. PICK b \in BOOLEAN : b = l2[n][j]
  BY <1>1, <1>2, <1>4 DEF Typed
<1> DEFINE r == [th[t] EXCEPT !.pc = "return", !.res = b]
<1>6. r \in ThreadRecord /\ Same(r, th[t]) /\ r.pc = "return" /\ r.res = b
  BY <1>2 DEF ThreadRecord, Same
<1>7. th' = [th EXCEPT ![t] = r]
  BY <1>1, <1>3, <1>5 DEF Typed
<1> HIDE DEF r
<1>8. Moves(t, r)
  BY <1>1, <1>6, <1>7, MovesTo
\* insert swaps its page into a place that is free: what is filled there would
\* be the same page, found already.
<1>9. \/ /\ th[t].op = "insert" /\ pid \notin found /\ pid < next_pid
         /\ l2' = [l2 EXCEPT ![n][j] = TRUE] /\ found' = found \cup {pid}
         /\ failed' = FALSE
      \/ /\ th[t].op = "get" /\ UNCHANGED <<l2, found>> /\ failed' = FALSE
  <2>1. CASE th[t].op = "insert"
    <3>1. pid \notin found /\ pid < next_pid
      BY <1>1, <1>3, <2>1 DEF InsertedOnce, Inserting
    <3>2. found \subseteq Pids
      BY SMTT(30), <1>1, FanAssumption DEF Typed, Pids
    <3>3. l2[n][j] = FALSE
      <4>1. ASSUME l2[n][j] = TRUE PROVE FALSE
        <5>1. PICK p \in found : l1[Hi(p)] = n /\ Lo(p) = j
          BY <1>1, <1>2, <1>4, <4>1 DEF Filled
        <5>2. Hi(p) \in L1 /\ p \in Pids
          BY <3>2, SplitRange
        <5>3. Hi(p) = Hi(pid)
          BY SMTT(30), <1>1, <1>2, <1>4, <5>1, <5>2, FanAssumption DEF Linked, Nodes, Null
        <5> QED
          BY <1>2, <3>1, <5>1, <5>2, <5>3, SplitInjective
      <4> QED
        BY <1>5, <4>1
    <3>4. /\ l2' = [l2 EXCEPT ![n][j] = TRUE] /\ found' = found \cup {pid}
          /\ failed' = (failed \/ n \notin made \/ l2[n][j])
      BY <2>1 DEF tip, split_fanout, Lo
    <3>5. failed' = FALSE
      BY <1>1, <1>4, <3>3, <3>4 DEF Typed
    <3> QED
      BY <2>1, <3>1, <3>4, <3>5
  <2>2. CASE th[t].op = "get"
    <3>1. UNCHANGED <<l2, found>> /\ failed' = (failed \/ n \notin made)
      BY <2>2 DEF tip
    <3>2. failed' = FALSE
      BY <1>1, <1>4, <3>1 DEF Typed
    <3> QED
      BY <2>2, <3>1, <3>2
  <2> QED
    BY <1>2, <2>1, <2>2 DEF ThreadRecord
<1>10. Typed'
  <2>1. l2' \in [Nodes -> [Slots -> BOOLEAN]]
    <3>1. l2 \in [Nodes -> [Slots -> BOOLEAN]] /\ l2[n] \in [Slots -> BOOLEAN]
      BY <1>1, <1>4 DEF Typed
    <3>2. CASE l2' = [l2 EXCEPT ![n][j] = TRUE]
      <4>1. [l2[n] EXCEPT ![j] = TRUE] \in [Slots -> BOOLEAN]
        BY <3>1
      <4>2. l2' = [l2 EXCEPT ![n] = [l2[n] EXCEPT ![j] = TRUE]]
        BY <3>1, <3>2
      <4> QED
        BY <3>1, <4>1, <4>2
    <3> QED
      BY <1>9, <3>1, <3>2
  <2>2. found' \subseteq 0..(next_pid' - 1)
    BY SMTT(30), <1>1, <1>2, <1>3, <1>9, FanAssumption DEF Typed, Pids
  <2> QED
    BY <1>1, <1>3, <1>8, <1>9, <2>1, <2>2 DEF Typed, Moves
<1>11. Linked'
  BY <1>1, <1>2, <1>3, <1>4, <1>6, <1>8 DEF Linked, Moves, Same
<1>12. Private'
  BY <1>1, <1>2, <1>3, <1>4, <1>6, <1>8 DEF Private, Moves, Same
<1>13. Traversed'
  BY <1>1, <1>2, <1>3, <1>4, <1>6, <1>8 DEF Traversed, Moves, Same
<1>14. Filled'
  <2>1. CASE UNCHANGED <<l2, found>>
    BY <1>1, <1>3, <2>1 DEF Filled
  <2>2. CASE /\ pid \notin found /\ l2' = [l2 EXCEPT ![n][j] = TRUE]
             /\ found' = found \cup {pid}
    <3>1. /\ l2'[n][j] = TRUE
          /\ \A m \in Nodes, k \in Slots : m # n \/ k # j => l2'[m][k] = l2[m][k]
      BY <1>1, <1>2, <1>4, <2>2 DEF Typed
    <3>2. \A p \in found' : l1'[Hi(p)] \in Nodes /\ l2'[l1'[Hi(p)]][Lo(p)] = TRUE
      <4>1. \A p \in found : Lo(p) \in Slots
        BY SMTT(30), <1>1, SplitRange, FanAssumption DEF Typed, Pids
      <4> QED
        BY SMTT(30), <1>1, <1>3, <1>4, <2>2, <3>1, <4>1 DEF Filled
    <3>3. \A m \in Nodes, k \in Slots : l2'[m][k] = TRUE =>
            \E p \in found' : l1'[Hi(p)] = m /\ Lo(p) = k
      BY SMTT(30), <1>1, <1>3, <1>4, <2>2, <3>1 DEF Filled
    <3> QED
      BY <3>2, <3>3 DEF Filled
  <2> QED
    BY <1>9, <2>1, <2>2
<1>15. InsertedOnce'
  <2>1. \A u \in Threads : Inserting(u)' => u # t /\ Inserting(u) /\ th'[u] = th[u]
    BY <1>6, <1>8 DEF Inserting, Moves
  <2>2. \A p : p \in found' /\ p \notin found => th[t].op = "insert" /\ p = pid
    BY <1>9
  <2>3. th[t].op = "insert" => Inserting(t)
    BY <1>3 DEF Inserting
  <2> QED
    BY <1>1, <1>3, <2>1, <2>2, <2>3 DEF InsertedOnce
<1>16. MustFind'
  <2>1. found \subseteq found'
    BY <1>9
  <2>2. b = TRUE \/ pid \notin found
    BY <1>1, <1>4, <1>5 DEF Filled
  <2>3. r.must = TRUE => pid \in found
    BY <1>1, <1>3, <1>6 DEF MustFind, Same
  <2> QED
    BY <1>1, <1>6, <1>8, <2>1, <2>2, <2>3 DEF MustFind, Moves, Same
<1> QED
  BY <1>1, <1>10, <1>11, <1>12, <1>13, <1>14, <1>15, <1>16 DEF IInv

\* The thread is at rest again.
LEMMA ReturnStep == ASSUME IInv, NEW t \in Threads, return(t) PROVE IInv'
<1> DEFINE pid == th[t].pid
<1>1. /\ gone = FALSE /\ gone' = FALSE /\ Typed /\ Linked /\ Private /\ Traversed
      /\ Filled /\ InsertedOnce /\ MustFind
  BY DEF IInv, Typed, return
<1>2. /\ pid \in Pids /\ Hi(pid) \in L1 /\ Lo(pid) \in Slots
      /\ th[t] \in ThreadRecord
  BY <1>1, SplitRange DEF Typed, ThreadRecord
<1>3. Idle \in ThreadRecord /\ Idle.pc = "idle" /\ Idle.must = FALSE
  BY SMTT(30), FanAssumption DEF Idle, ThreadRecord, Pids
<1>4. /\ th' = [th EXCEPT ![t] = Idle]
      /\ UNCHANGED <<l1, l2, made, next_pid, found, gone, failed>>
  BY DEF return
<1>5. Moves(t, Idle)
  BY <1>1, <1>3, <1>4, MovesTo
<1>10. Typed'
  BY <1>1, <1>3, <1>4, <1>5 DEF Typed, Moves, Inserting
<1>11. Linked'
  BY <1>1, <1>3, <1>4, <1>5 DEF Linked, Typed, Moves, Inserting
<1>12. Private'
  BY <1>1, <1>3, <1>4, <1>5 DEF Private, Typed, Moves, Inserting
<1>13. Traversed'
  BY <1>1, <1>3, <1>4, <1>5 DEF Traversed, Typed, Moves, Inserting
<1>14. Filled'
  BY SMTT(30), <1>1, <1>3, <1>4, <1>5 DEF Filled, Typed, Moves, Inserting
<1>15. InsertedOnce'
  BY <1>1, <1>3, <1>4, <1>5 DEF InsertedOnce, Typed, Moves, Inserting
<1>16. MustFind'
  BY <1>1, <1>3, <1>4, <1>5 DEF MustFind, Typed, Moves, Inserting
<1> QED
  BY <1>1, <1>10, <1>11, <1>12, <1>13, <1>14, <1>15, <1>16 DEF IInv

\* The table goes when no thread is inside.
LEMMA DropStep == ASSUME IInv, drop PROVE IInv'
<1>1. /\ gone' = TRUE /\ (\A t \in Threads : th[t].pc = "idle") /\ made' \subseteq made
      /\ UNCHANGED <<l1, next_pid, th, found, failed>>
  BY DEF drop
<1>2. l2' \in [Nodes -> [Slots -> BOOLEAN]]
  BY DEF drop, dropped, Nodes, Slots
<1>3. Typed'
  BY <1>1, <1>2 DEF IInv, Typed
<1> QED
  BY <1>1, <1>3 DEF IInv

LEMMA Inductive == IInv /\ [Next]_vars => IInv'
<1> SUFFICES ASSUME IInv, [Next]_vars PROVE IInv'
  OBVIOUS
<1>1. CASE UNCHANGED vars
  BY SMTT(30), <1>1 DEF vars, IInv, Typed, Linked, Private, Traversed, Filled, InsertedOnce,
              Inserting, MustFind
<1> QED
  BY <1>1, DropStep, InsertStep, GetStep, LoadStep, CasStep, TipStep, ReturnStep DEF Next

LEMMA Always == Spec => []IInv
  BY Initial, Inductive, PTL DEF Spec

-----------------------------------------------------------------------------
(* The theorems.                                                           *)

\* The first level refers to nodes that exist and pages found were handed out,
\* whatever the fan-out.
THEOREM TypeCorrect == Spec => []TypeOK
<1>1. IInv => TypeOK
  BY DEF IInv, Typed, Linked, TypeOK
<1> QED
  BY <1>1, Always, PTL

\* A page whose insertion has returned is found by every get that begins later,
\* although second-level nodes are made and thrown away in races.
THEOREM Found == Spec => []FoundFromThenOn
<1>1. IInv => FoundFromThenOn
  BY DEF IInv, Typed, ThreadRecord, MustFind, FoundFromThenOn
<1> QED
  BY <1>1, Always, PTL

\* The assertion of insert that nothing was there holds, and no node is used
\* after its maker has dropped it.
THEOREM Safe == Spec => []NoFailure
<1>1. IInv => NoFailure
  BY DEF IInv, Typed, NoFailure
<1> QED
  BY <1>1, Always, PTL
=============================================================================
