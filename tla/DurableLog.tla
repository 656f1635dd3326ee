----------------------------- MODULE DurableLog -----------------------------
(***************************************************************************)
(* What the log promises to the rest of sled: LSNs are given out once and  *)
(* in order, bytes become durable in any order, and the stable LSN that    *)
(* readers, the segment accountant and recovery rely on only moves forward *)
(* over durable bytes, and over a batch in one piece.                      *)
(***************************************************************************)
EXTENDS Integers

VARIABLES
    tip,      \* the first LSN that has not been given out
    durable,  \* the LSNs on disk since the log was started
    stable,   \* the published stable LSN
    batches   \* the batches that must become stable as one

logVars == <<tip, durable, stable, batches>>

Init ==
    /\ tip \in Nat
    /\ stable \in -1 .. tip - 1
    /\ durable = {} /\ batches = {}

Extend ==
    /\ tip' > tip
    /\ UNCHANGED <<durable, stable, batches>>

Persist ==
    /\ durable \subseteq durable' /\ durable' # durable
    /\ \A lsn \in durable' : lsn < tip
    /\ UNCHANGED <<tip, stable, batches>>

\* A batch may still be declared atomic as long as none of it is stable.
Declare ==
    /\ \E b \in batches' : /\ b.low > stable /\ b.low < b.high /\ b.high < tip
                           /\ batches' = batches \cup {b}
    /\ UNCHANGED <<tip, durable, stable>>

\* Stability advances over durable bytes; it enters a batch only to cover it.
Publish ==
    /\ stable' > stable
    /\ (stable + 1)..stable' \subseteq durable
    /\ \A b \in batches : stable' < b.low \/ stable' >= b.high
    /\ batches' = {b \in batches : b.high > stable'}
    /\ UNCHANGED <<tip, durable>>

Next == Extend \/ Persist \/ Declare \/ Publish

Spec == Init /\ [][Next]_logVars
============================================================================
