----------------------------- MODULE Subscribers ----------------------------
(***************************************************************************)
(* Subscribers to the updates of a tree and the one-shot promises they are *)
(* told through (src/src/subscriber.rs, src/src/oneshot.rs), with the      *)
(* operations of src/src/tree.rs that announce updates: an operation reads *)
(* the page, reserves a place in the channel of every subscriber, links    *)
(* its update if the page has not changed, and fills the places; if the    *)
(* page has changed it lets go of them and starts again.                   *)
(*                                                                         *)
(* All updates are of one page and match every prefix; an update is known  *)
(* by its number, the page's version after it.  An item of a channel is    *)
(* the reader's side of a promise.  Read locks are held by the writers     *)
(* that are sending, so they are read off the writers' program counters.   *)
(***************************************************************************)
EXTENDS Naturals, Sequences, FiniteSets

CONSTANTS
    Writers,     \* threads that update the tree
    Iters,       \* subscribers used as iterators
    Polls,       \* subscribers used as futures
    Timeouts,    \* subscribers used through next_timeout
    Prefixes,    \* a sequence: the watched prefixes in their order
    PrefixOf(_), \* the prefix of a subscriber
    Leavers,     \* subscribers that may be dropped
    Capacity,    \* of a channel (1024)
    MaxOps       \* bound: operations of each writer

Subs == Iters \cup Polls \cup Timeouts

\* OneShotState: not filled yet; filled with an event (its number), or by
\* the drop of the filler (no event).
NoEvent == 0
Pending(item) == ~item.filled
HasEvent(item) == item.filled /\ item.event # NoEvent

VARIABLES
    page,        \* the page's version: the number of updates linked
    writer,      \* per writer: pc, view, prefix, todo, reserved, ops, batch, event
    watched,     \* the prefixes in Subscribers::watched
    senders,     \* per prefix, the subscribers registered with it
    waker,       \* per subscriber, its entry of Senders holds a waker
    shot,        \* per writer and subscriber, the promise holds a waker
    chan,        \* per subscriber, its channel
    sub,         \* per subscriber: pc, hand (the promise taken), got, woken
    open         \* the tree still exists

vars == <<page, writer, watched, senders, waker, shot, chan, sub, open>>

NoItem == [by |-> "none", filled |-> TRUE, event |-> NoEvent]

Init ==
    /\ page = 0
    /\ writer = [w \in Writers |->
                    [pc |-> "idle", view |-> 0, prefix |-> 0, todo |-> <<>>,
                     reserved |-> <<>>, ops |-> 0, batch |-> FALSE, event |-> 0]]
    /\ watched = {}
    /\ senders = [p \in {Prefixes[i] : i \in 1..Len(Prefixes)} |-> {}]
    /\ waker = [s \in Subs |-> FALSE]
    /\ shot = [w \in Writers |-> [s \in Subs |-> FALSE]]
    /\ chan = [s \in Subs |-> <<>>]
    /\ sub = [s \in Subs |-> [pc |-> "new", hand |-> NoItem, got |-> <<>>,
                              woken |-> FALSE]]
    /\ open = TRUE

-----------------------------------------------------------------------------
(* Registration and dropping of a subscriber.                              *)

\* A writer that is sending holds Subscribers::watched for reading, and the
\* senders of the prefix it is at.
Reserving(w) == writer[w].pc = "send"
WatchedIsRead == \E w \in Writers : Reserving(w)
SendersAreRead(p) ==
    \E w \in Writers : Reserving(w) /\ Prefixes[writer[w].prefix] = p

\* The first subscriber of a prefix adds it, under the write lock.
watch(s) ==
    /\ open /\ sub[s].pc = "new"
    /\ PrefixOf(s) \notin watched
    /\ ~WatchedIsRead
    /\ watched' = watched \cup {PrefixOf(s)}
    /\ UNCHANGED <<page, writer, senders, waker, shot, chan, sub, open>>

register(s) ==
    /\ open /\ sub[s].pc = "new"
    /\ PrefixOf(s) \in watched
    /\ ~SendersAreRead(PrefixOf(s))
    /\ senders' = [senders EXCEPT ![PrefixOf(s)] = @ \cup {s}]
    /\ sub' = [sub EXCEPT ![s].pc = "ready"]
    /\ UNCHANGED <<page, writer, watched, waker, shot, chan, open>>

\* Subscriber::drop begins; from now on nothing takes from the channel.
leave(s) ==
    /\ s \in Leavers /\ sub[s].pc = "ready"
    /\ sub' = [sub EXCEPT ![s].pc = "leaving"]
    /\ UNCHANGED <<page, writer, watched, senders, waker, shot, chan, open>>

\* It waits for the senders of its prefix; the receiver goes after that.
drop(s) ==
    /\ sub[s].pc = "leaving"
    /\ ~SendersAreRead(PrefixOf(s))
    /\ senders' = [senders EXCEPT ![PrefixOf(s)] = @ \ {s}]
    /\ sub' = [sub EXCEPT ![s].pc = "gone"]
    /\ chan' = [chan EXCEPT ![s] = <<>>]
    /\ UNCHANGED <<page, writer, watched, waker, shot, open>>

-----------------------------------------------------------------------------
(* The operations of writers.                                              *)

\* concurrency_control: a transaction runs alone.
MayStart(w, batch) ==
    \A v \in Writers \ {w} :
        writer[v].pc # "idle" => ~batch /\ ~writer[v].batch

\* view_for_key
view(w, batch) ==
    /\ open
    /\ \/ /\ writer[w].pc = "idle" /\ writer[w].ops < MaxOps
          /\ MayStart(w, batch)
       \/ writer[w].pc = "retry" /\ batch = writer[w].batch
    /\ writer' = [writer EXCEPT ![w].pc = "reserve", ![w].view = page,
                                ![w].batch = batch]
    /\ UNCHANGED <<page, watched, senders, waker, shot, chan, sub, open>>

Orders(S) == {q \in [1..Cardinality(S) -> S] : \A x \in S : \E i \in DOMAIN q : q[i] = x}

\* The watched prefixes after the i-th, and the end of the reservation when
\* there is none.
Advance(w, i) ==
    LET later == {j \in 1..Len(Prefixes) : j > i /\ Prefixes[j] \in watched}
        next == CHOOSE j \in later : \A k \in later : j <= k
    IN IF later = {}
       THEN writer' = [writer EXCEPT ![w].pc = "link", ![w].prefix = 0]
       ELSE \E q \in Orders(senders[Prefixes[next]]) :
               writer' = [writer EXCEPT ![w].pc = "send", ![w].prefix = next,
                                        ![w].todo = q]

\* Subscribers::reserve, and reserve_batch for a transaction: every prefix
\* once.  No prefix is watched if none ever was (ever_used).
reserve(w) ==
    /\ writer[w].pc = "reserve"
    /\ Advance(w, 0)
    /\ UNCHANGED <<page, watched, senders, waker, shot, chan, sub, open>>

\* SyncSender::send blocks while the channel is full, with both locks held.
send(w) ==
    /\ writer[w].pc = "send"
    /\ IF writer[w].todo = <<>>
       THEN Advance(w, writer[w].prefix) /\ UNCHANGED <<shot, chan>>
       ELSE LET s == Head(writer[w].todo)
            IN /\ Len(chan[s]) < Capacity
               /\ chan' = [chan EXCEPT ![s] = Append(@, 
                                    [by |-> w, filled |-> FALSE, event |-> NoEvent])]
               /\ shot' = [shot EXCEPT ![w][s] = FALSE]
               /\ writer' = [writer EXCEPT
                    ![w].todo = Tail(@),
                    ![w].reserved = Append(@, [to |-> s, wake |-> waker[s]])]
    /\ UNCHANGED <<page, watched, senders, waker, sub, open>>

\* Mutant: an update whose page has changed is applied all the same, to the
\* page as it is now.
linkAnyway(w) ==
    /\ writer[w].pc = "link"
    /\ page' = page + 1
    /\ writer' = [writer EXCEPT ![w].pc = "complete", ![w].event = page + 1]
    /\ UNCHANGED <<watched, senders, waker, shot, chan, sub, open>>

\* PageCache::link.  A set to the value that is there already links nothing.
link(w) ==
    /\ writer[w].pc = "link"
    /\ IF page = writer[w].view
       THEN \/ /\ page' = page + 1
               /\ writer' = [writer EXCEPT ![w].pc = "complete", ![w].event = page + 1]
            \/ /\ writer' = [writer EXCEPT ![w].pc = "complete", ![w].event = NoEvent]
               /\ UNCHANGED page
       ELSE /\ writer' = [writer EXCEPT ![w].pc = "conflict", ![w].event = NoEvent]
            /\ UNCHANGED page
    /\ UNCHANGED <<watched, senders, waker, shot, chan, sub, open>>

\* OneShotFiller::fill, or its drop: the promise wherever it is, its waker,
\* and the waker taken along from the subscriber's entry.
Resolve(w, s, event) ==
    LET Set(item) == IF item.by = w /\ Pending(item)
                     THEN [item EXCEPT !.filled = TRUE, !.event = event] ELSE item
    IN /\ chan' = [chan EXCEPT ![s] = [i \in DOMAIN chan[s] |-> Set(chan[s][i])]]
       /\ sub' = [sub EXCEPT
            ![s].hand = Set(@),
            ![s].woken = @ \/ shot[w][s]
                           \/ (event # NoEvent /\ Head(writer[w].reserved).wake)]

\* ReservedBroadcast::complete, or the drop of the reservation, one promise
\* at a time; then the operation returns or starts again.
complete(w) ==
    /\ writer[w].pc \in {"complete", "conflict"}
    /\ IF writer[w].reserved # <<>>
       THEN /\ Resolve(w, Head(writer[w].reserved).to, writer[w].event)
            /\ writer' = [writer EXCEPT ![w].reserved = Tail(@)]
       ELSE /\ writer' = [writer EXCEPT
                 ![w].pc = IF writer[w].pc = "complete" THEN "idle" ELSE "retry",
                 ![w].batch = (@ /\ writer[w].pc # "complete"),
                 ![w].ops = IF writer[w].pc = "complete" THEN @ + 1 ELSE @]
            /\ UNCHANGED <<chan, sub>>
    /\ UNCHANGED <<page, watched, senders, waker, shot, open>>

-----------------------------------------------------------------------------
(* Subscribers taking events.                                              *)

\* The call returns the event, or passes over a promise without one.
Take(s, item) ==
    [sub EXCEPT ![s].hand = NoItem, ![s].pc = "ready",
                ![s].got = IF HasEvent(item) THEN Append(@, item.event) ELSE @]

\* Receiver::recv, of Iterator::next and of next_timeout.
recv(s) ==
    /\ s \in Iters \cup Timeouts
    /\ sub[s].pc = "ready"
    /\ IF chan[s] # <<>>
       THEN /\ sub' = [sub EXCEPT ![s].hand = Head(chan[s]), ![s].pc = "wait"]
            /\ chan' = [chan EXCEPT ![s] = Tail(@)]
       ELSE /\ ~open
            /\ sub' = [sub EXCEPT ![s].pc = "end"]
            /\ UNCHANGED chan
    /\ UNCHANGED <<page, writer, watched, senders, waker, shot, open>>

\* OneShot::wait; a promise that was dropped is passed over.
wait(s) ==
    /\ s \in Iters
    /\ sub[s].pc = "wait" /\ ~Pending(sub[s].hand)
    /\ sub' = Take(s, sub[s].hand)
    /\ UNCHANGED <<page, writer, watched, senders, waker, shot, chan, open>>

\* OneShot::wait_timeout: an error when the time is up, the promise gone;
\* also an error for a promise that was dropped.  The caller tries again.
wait_timeout(s) ==
    /\ s \in Timeouts
    /\ sub[s].pc = "wait"
    /\ sub' = Take(s, sub[s].hand)
    /\ UNCHANGED <<page, writer, watched, senders, waker, shot, chan, open>>

\* Subscriber::poll up to the end of its loop.  The first poll is made
\* unasked, the others when the task is woken.
poll(s) ==
    /\ s \in Polls
    /\ \/ sub[s].pc = "ready"
       \/ sub[s].pc = "asleep" /\ sub[s].woken
    /\ IF chan[s] = <<>>
       THEN /\ sub' = [sub EXCEPT ![s].pc = IF open THEN "store" ELSE "end",
                                  ![s].woken = FALSE]
            /\ UNCHANGED <<chan, shot>>
       ELSE LET item == Head(chan[s])
            IN /\ chan' = [chan EXCEPT ![s] = Tail(@)]
               /\ IF Pending(item)
                  THEN /\ shot' = [shot EXCEPT ![item.by][s] = TRUE]
                       /\ sub' = [sub EXCEPT ![s].pc = "asleep", ![s].woken = FALSE]
                  ELSE /\ sub' = Take(s, item)
                       /\ UNCHANGED shot
    /\ UNCHANGED <<page, writer, watched, senders, waker, open>>

\* ... and its end: the waker goes into the entry, under the write lock.
store_waker(s) ==
    /\ sub[s].pc = "store"
    /\ ~SendersAreRead(PrefixOf(s))
    /\ waker' = [waker EXCEPT ![s] = TRUE]
    /\ sub' = [sub EXCEPT ![s].pc = "asleep"]
    /\ UNCHANGED <<page, writer, watched, senders, shot, chan, open>>

\* Subscribers::drop, when the last handle of the tree is gone: no operation
\* is running, and no event (which has a handle of its own) is in a channel.
drop_tree ==
    /\ open
    /\ \A w \in Writers : writer[w].pc = "idle" /\ writer[w].ops = MaxOps
    /\ \A s \in Subs : /\ sub[s].pc # "new"
                       /\ ~HasEvent(sub[s].hand)
                       /\ \A i \in DOMAIN chan[s] : ~HasEvent(chan[s][i])
    /\ open' = FALSE
    /\ senders' = [p \in DOMAIN senders |-> {}]
    /\ sub' = [s \in Subs |-> [sub[s] EXCEPT !.woken = @ \/ waker[s]]]
    /\ UNCHANGED <<page, writer, watched, waker, shot, chan>>

WriterStep(w) ==
    \/ reserve(w)
    \/ send(w)
    \/ link(w)
    \/ complete(w)
    \/ writer[w].pc = "retry" /\ view(w, writer[w].batch)

SubscriberStep(s) ==
    \/ recv(s)
    \/ wait(s)
    \/ wait_timeout(s)
    \/ poll(s)
    \/ store_waker(s)
    \/ drop(s)

Next ==
    \/ \E w \in Writers : \/ \E batch \in BOOLEAN : view(w, batch)
                          \/ reserve(w)
                          \/ send(w)
                          \/ link(w)
                          \/ complete(w)
    \/ \E s \in Subs : \/ watch(s) \/ register(s) \/ leave(s) \/ drop(s)
                       \/ recv(s) \/ wait(s) \/ wait_timeout(s)
                       \/ poll(s) \/ store_waker(s)
    \/ drop_tree

Spec == Init /\ [][Next]_vars

(* An operation that was begun goes on, a subscriber that was registered   *)
(* keeps taking events until it is dropped, and the tree's handles go away *)
(* when all is done.                                                       *)
FairSpec ==
    /\ Spec
    /\ \A w \in Writers : WF_vars(WriterStep(w))
    /\ \A s \in Subs : WF_vars(SubscriberStep(s))
    /\ WF_vars(drop_tree)

-----------------------------------------------------------------------------

\* TypeOK: the registry, the channels and the writers hold what the fields of
\* Subscribers, Subscriber and ReservedBroadcast can hold.
TypeOK ==
    /\ page \in 0..(MaxOps * Cardinality(Writers))
    /\ \A w \in Writers :
        /\ writer[w].pc \in {"idle", "reserve", "send", "link", "complete",
                             "conflict", "retry"}
        /\ \A i \in DOMAIN writer[w].reserved : writer[w].reserved[i].to \in Subs
    /\ \A s \in Subs :
        /\ Len(chan[s]) <= Capacity
        /\ sub[s].pc \in {"new", "ready", "wait", "store", "asleep", "leaving",
                          "gone", "end"}
        /\ \A i \in DOMAIN sub[s].got : sub[s].got[i] \in 1..page

\* Every subscriber is told of consecutive updates, in the order in which
\* they were made: no event is left out, repeated or overtaken, although the
\* places are reserved before the update is made and filled after it
\* (Tree::watch_prefix; insert_inner reads the page before it reserves).
NoGaps ==
    \A s \in Subs : \A i \in 1..(Len(sub[s].got) - 1) :
        sub[s].got[i + 1] = sub[s].got[i] + 1

\* No subscriber, however it waits, sees updates repeated or out of order.
InOrder ==
    \A s \in Subs : \A i \in 1..(Len(sub[s].got) - 1) :
        sub[s].got[i] < sub[s].got[i + 1]

EventAtHead(s) == chan[s] # <<>> /\ HasEvent(Head(chan[s]))

\* An event that was announced is taken by its subscriber: the subscriber
\* does not sleep on a channel with an event at its head
\* (Subscriber::poll, Iterator::next).
EventsAreTaken ==
    \A s \in Subs :
        [](EventAtHead(s) => <>(~EventAtHead(s)
                  \/ sub[s].pc \in {"leaving", "gone"}))

\* Every operation that was begun returns (full channels are drained, and
\* failed attempts are made again).
OperationsReturn ==
    \A w \in Writers : (writer[w].pc # "idle") ~> (writer[w].pc = "idle")

\* Once the tree is gone every subscriber still waiting learns of it
\* (Subscribers::drop).
SubscriptionsEnd ==
    \A s \in Subs : ~open ~> sub[s].pc \in {"end", "gone"}
=============================================================================
