----------------------------- MODULE Intervals ------------------------------
(***************************************************************************)
(* The bookkeeping of StabilityIntervals as operators on sets: `synced` is *)
(* the set of LSNs written beyond the contiguous prefix that ends at       *)
(* `stable`, `batches` the sealed batches not yet stable as a whole.       *)
(* Module StabilityIntervals has the data structure of the source, and is  *)
(* checked to agree with these definitions step by step.                   *)
(***************************************************************************)
EXTENDS Integers

\* Mutant: gaps are skipped.
ContiguousOrNot(stable, S) == CHOOSE s \in {stable} \cup S : \A x \in {stable} \cup S : x <= s

\* The end of the contiguous prefix once the LSNs in S are written too.
Contiguous(stable, S) ==
    CHOOSE s \in {stable} \cup S :
        s >= stable /\ (stable + 1)..s \subseteq S /\ s + 1 \notin S

\* Mutant: batches are ignored.
PublishedAnyway(stable, batches, old) == stable

\* How far stability may be published when the prefix ends at `stable`: up to
\* the first batch that is not completely within it.  Nothing is published, and
\* the old value stays, while that batch lies beyond the prefix.
Published(stable, batches, old) ==
    LET whole == {b \in batches : b.high <= stable}
        open  == batches \ whole
        torn  == {b \in open : b.low <= stable}
    IN  IF open = {} THEN stable
        ELSE IF torn # {} THEN (CHOOSE b \in torn : TRUE).low - 1
        ELSE IF whole # {}
             THEN (CHOOSE b \in whole : \A c \in whole : c.high <= b.high).high
        ELSE old

MarkBatch(iv, low, high) ==
    [iv EXCEPT !.batches = @ \cup {[low |-> low, high |-> high]}]

MarkFsync(iv, S) ==
    LET synced == iv.synced \cup S
        stable == Contiguous(iv.stable, synced)
    IN  [stable  |-> stable,
         synced  |-> {x \in synced : x > stable},
         batches |-> {b \in iv.batches : b.high > stable}]
============================================================================
