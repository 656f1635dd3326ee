------------------------------- MODULE Stack -------------------------------
(* The lock-free stack of src/stack.rs, which holds the deferred operations *)
(* of the segment accountant and the event log.  One action per atomic     *)
(* access.  Nodes live at addresses that are used again once the epoch     *)
(* collector has destroyed them; destroying a node destroys all that it    *)
(* links to.  `content` is the stack that the operations are to implement. *)
EXTENDS Naturals, Sequences, FiniteSets, SequencesExt

CONSTANTS
  Threads,
  Addrs,     \* addresses of nodes
  MaxPushes  \* bound: values are 1..MaxPushes, each pushed once

Null == 0
\* The constants are meant to satisfy
\*   Addrs \subseteq Nat \ {Null}

VARIABLES
  head,      \* address of the first node
  mem,       \* address -> [use, inner, next]; use is free, live or garbage
  pins,      \* threads with a guard
  waits,     \* address of a garbage node -> threads pinned when it was retired
  th,        \* thread -> its operation and registers
  content,   \* history: what the stack holds
  pushes,    \* values pushed so far
  fault,     \* memory was used after it was freed, or freed twice
  dropped,   \* history: the items that were dropped
  twice      \* an item was dropped again

drops == <<dropped, twice>>
vars == <<head, mem, pins, waits, th, content, pushes, fault, drops>>

Free == [use |-> "free", inner |-> 0, next |-> Null]
Idle == [pc |-> "idle", head |-> Null, next |-> Null, node |-> Null,
         want |-> << >>, got |-> << >>, owned |-> FALSE]

Init ==
  /\ head = Null /\ mem = [a \in Addrs |-> Free] /\ pins = {}
  /\ waits = [a \in Addrs |-> {}] /\ th = [t \in Threads |-> Idle]
  /\ content = << >> /\ pushes = 0 /\ fault = FALSE
  /\ dropped = {} /\ twice = FALSE

go(t, at) == th' = [th EXCEPT ![t].pc = at]

drop(items) ==
  dropped' = dropped \cup items /\ twice' = (twice \/ items \cap dropped # {})

\* A thread reads or writes a node: it must not have been freed.
touch(a) == fault' = (fault \/ mem[a].use = "free")

-----------------------------------------------------------------------------
(* crossbeam_epoch                                                         *)

pin(t) == pins' = pins \cup {t}

unpin(t) ==
  /\ pins' = pins \ {t}
  /\ waits' = [a \in Addrs |-> waits[a] \ {t}]

retired(m, a) == [m EXCEPT ![a].use = "garbage"]

\* The nodes linked behind a, in at most as many steps as there are nodes.
chain(m, a) ==
  LET walk[n \in 0..Cardinality(Addrs)] ==
        IF n = 0 THEN <<a>>
        ELSE LET last == walk[n - 1][n] IN
             Append(walk[n - 1], IF last = Null THEN Null ELSE m[last].next) IN
  SelectSeq(walk[Cardinality(Addrs)], LAMBDA x : x # Null)

destroyable(a) == mem[a].use = "garbage" /\ waits[a] = {}

\* Node::drop: the node goes, and every node that it links to.
destroy(a) ==
  /\ destroyable(a)
  /\ LET gone == ToSet(chain(mem, a)) IN
     /\ fault' = (fault \/ \E x \in gone : mem[x].use = "free"
                                           \/ x \in ToSet(chain(mem, head)))
     /\ mem' = [x \in Addrs |-> IF x \in gone THEN Free ELSE mem[x]]
     /\ drop({mem[x].inner : x \in gone})
  /\ UNCHANGED <<head, pins, waits, th, content, pushes>>

-----------------------------------------------------------------------------
(* push                                                                    *)

push(t) ==
  /\ th[t].pc = "idle" /\ pushes < MaxPushes
  /\ pin(t) /\ pushes' = pushes + 1
  /\ \E a \in Addrs :
       /\ mem[a].use = "free"
       /\ mem' = [mem EXCEPT ![a] = [use |-> "live", inner |-> pushes + 1,
                                     next |-> Null]]
       /\ th' = [th EXCEPT ![t].pc = "push_load", ![t].node = a]
  /\ UNCHANGED <<head, waits, content, fault, drops>>

push_load(t) ==
  /\ th[t].pc = "push_load"
  /\ th' = [th EXCEPT ![t].pc = "push_cas", ![t].head = head]
  /\ mem' = [mem EXCEPT ![th[t].node].next = head]
  /\ UNCHANGED <<head, pins, waits, content, pushes, fault, drops>>

push_cas(t) ==
  /\ th[t].pc = "push_cas"
  /\ IF head = th[t].head
     THEN /\ head' = th[t].node
          /\ content' = <<mem[th[t].node].inner>> \o content
          /\ th' = [th EXCEPT ![t] = Idle]
          /\ unpin(t)
     ELSE go(t, "push_load") /\ UNCHANGED <<head, content, pins, waits>>
  /\ UNCHANGED <<mem, pushes, fault, drops>>

-----------------------------------------------------------------------------
(* pop                                                                     *)

pop(t) ==
  /\ th[t].pc = "idle"
  /\ pin(t)
  /\ th' = [th EXCEPT ![t].pc = "pop_next", ![t].head = head]
  /\ UNCHANGED <<head, mem, waits, content, pushes, fault, drops>>

\* The next pointer of what was the head, or nothing is there.
pop_next(t) ==
  /\ th[t].pc = "pop_next"
  /\ IF th[t].head = Null
     THEN /\ th' = [th EXCEPT ![t] = Idle] /\ unpin(t)
          /\ UNCHANGED fault
     ELSE /\ th' = [th EXCEPT ![t].pc = "pop_cas",
                              ![t].next = mem[th[t].head].next]
          /\ touch(th[t].head) /\ UNCHANGED <<pins, waits>>
  /\ UNCHANGED <<head, mem, content, pushes, drops>>

\* A lost race goes on with the head that was found.
pop_cas(t) ==
  /\ th[t].pc = "pop_cas"
  /\ IF head = th[t].head
     THEN /\ head' = th[t].next
          /\ content' = SubSeq(content, 2, Len(content))
          /\ th' = [th EXCEPT ![t].pc = "pop_unset",
                              ![t].want = SubSeq(content, 1, 1)]
     ELSE /\ th' = [th EXCEPT ![t].pc = "pop_next", ![t].head = head]
          /\ UNCHANGED <<head, content>>
  /\ UNCHANGED <<mem, pins, waits, pushes, fault, drops>>

\* Mutant: the node that was popped keeps its link.
pop_unsetNot(t) ==
  LET a == th[t].head IN
  /\ th[t].pc = "pop_unset"
  /\ mem' = retired(mem, a)
  /\ waits' = [waits EXCEPT ![a] = pins]
  /\ th' = [th EXCEPT ![t].pc = "return", ![t].got = <<mem[a].inner>>,
                      ![t].owned = TRUE]
  /\ touch(a)
  /\ UNCHANGED <<head, pins, content, pushes, drops>>

\* The link is unset, the node retired and its item read.
pop_unset(t) ==
  LET a == th[t].head IN
  /\ th[t].pc = "pop_unset"
  /\ mem' = retired([mem EXCEPT ![a].next = Null], a)
  /\ waits' = [waits EXCEPT ![a] = pins]
  /\ th' = [th EXCEPT ![t].pc = "return", ![t].got = <<mem[a].inner>>,
                      ![t].owned = TRUE]
  /\ touch(a)
  /\ UNCHANGED <<head, pins, content, pushes, drops>>

-----------------------------------------------------------------------------
(* take_iter, and the iterator that it returns                             *)

take_iter(t) ==
  /\ th[t].pc = "idle"
  /\ head' = Null /\ content' = << >>
  /\ pins' = pins \cup {t}
  /\ th' = [th EXCEPT ![t].pc = "iter", ![t].node = head, ![t].want = content]
  /\ IF head = Null THEN UNCHANGED <<mem, waits>>
     ELSE /\ mem' = retired(mem, head)
          /\ waits' = [waits EXCEPT ![head] = pins \cup {t}]
  /\ UNCHANGED <<pushes, fault, drops>>

iter_next(t) ==
  LET a == th[t].node IN
  /\ th[t].pc = "iter"
  /\ IF a = Null THEN go(t, "return") /\ UNCHANGED fault
     ELSE /\ th' = [th EXCEPT ![t].node = mem[a].next,
                              ![t].got = Append(@, mem[a].inner)]
          /\ touch(a)
  /\ UNCHANGED <<head, mem, pins, waits, content, pushes, drops>>

\* The caller drops the item that pop gave it; the iterator gave references.
return(t) ==
  /\ th[t].pc = "return"
  /\ th' = [th EXCEPT ![t] = Idle]
  /\ unpin(t)
  /\ drop(IF th[t].owned THEN ToSet(th[t].got) ELSE {})
  /\ UNCHANGED <<head, mem, content, pushes, fault>>

-----------------------------------------------------------------------------
Next ==
  \/ \E a \in Addrs : destroy(a)
  \/ \E t \in Threads :
       push(t) \/ push_load(t) \/ push_cas(t) \/ pop(t) \/ pop_next(t)
         \/ pop_cas(t) \/ pop_unset(t) \/ take_iter(t) \/ iter_next(t) \/ return(t)

Spec == Init /\ [][Next]_vars

-----------------------------------------------------------------------------
(* Properties                                                              *)

\* Only garbage waits for threads, and only for such as are still pinned.
TypeOK ==
  /\ head \in Addrs \cup {Null} /\ pins \subseteq Threads
  /\ \A a \in Addrs : /\ mem[a].use \in {"free", "live", "garbage"}
                      /\ mem[a].next \in Addrs \cup {Null}
                      /\ waits[a] \subseteq pins
                      /\ waits[a] # {} => mem[a].use = "garbage"

\* No thread reads a node that has been freed, and no node is freed twice or
\* while the stack holds it: neither a race for the head, an address used again
\* (the ABA case of pop) nor the recursive drop of a node breaks this.
MemoryIsSafe == ~fault

\* The nodes from the head on are the items pushed and not yet taken, last in
\* first out: what pop and take_iter remove in one compare-and-swap is what
\* they remove from the stack.
HoldsContent ==
  [i \in 1..Len(chain(mem, head)) |-> mem[chain(mem, head)[i]].inner] = content

\* What pop and take_iter return, read after they changed the head, is what the
\* stack held when they did.
ReturnsWhatItTook ==
  \A t \in Threads : th[t].pc = "return" => th[t].got = th[t].want

\* What the comment in pop wants of unsetting the link, no double free: an item
\* is dropped once, by whoever owns it.
DroppedOnce == ~twice
====
