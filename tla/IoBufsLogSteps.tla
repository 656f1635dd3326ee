-------------------------- MODULE IoBufsLogSteps ---------------------------
(***************************************************************************)
(* What the operators of Intervals compute; and the steps of IoBufs that   *)
(* leave the headers of buffers alone preserve the second invariant, and   *)
(* are steps of DurableLog.                                                *)
(***************************************************************************)
EXTENDS IoBufsFrames, FiniteSetTheorems
USE ZenonT(30)

(* The operators of Intervals.                                             *)
(* The CHOOSEs in them need witnesses; both come from the                  *)
(* well-foundedness of strict inclusion among finite sets, applied to      *)
(* intervals.                                                              *)

\* A nonempty family of finite sets of integers has a member that includes no
\* other one.
LEMMA SmallestMember ==
  ASSUME NEW F, F # {}, \A X \in F : X \subseteq Int /\ IsFiniteSet(X)
  PROVE  \E X \in F : \A Y \in F : Y \subseteq X => Y = X
<1>1. F \subseteq FiniteSubsetsOf(Int)
  BY DEF FiniteSubsetsOf
<1>2. PICK X \in F : \A Y \in F : <<Y, X>> \notin StrictSubsetOrdering(Int)
  BY <1>1, FS_StrictSubsetOrderingWellFounded, WFMin
<1>3. ASSUME NEW Y \in F, Y \subseteq X, Y # X PROVE FALSE
  BY <1>2, <1>3 DEF StrictSubsetOrdering
<1> QED
  BY <1>3

\* From any point on, a finite set leaves an integer out.
LEMMA FiniteSetHasGap ==
  ASSUME NEW S, IsFiniteSet(S), NEW a \in Int
  PROVE  \E n \in Int : a <= n /\ n \notin S
<1> DEFINE k == Cardinality(S)
<1>1. k \in Nat
  BY FS_CardinalityType
<1>2. SUFFICES ASSUME a .. a + k \subseteq S PROVE FALSE
  BY SMTT(30), <1>1
<1>3. Cardinality(a .. a + k) <= k
  BY <1>2, FS_Subset
<1>4. Cardinality(a .. a + k) = k + 1
  BY SMTT(30), <1>1, FS_Interval
<1> QED
  BY SMTT(30), <1>1, <1>3, <1>4

\* The first integer that a set leaves out.
LEMMA LeastGap ==
  ASSUME NEW a \in Int, NEW S, NEW n \in Int, a <= n, n \notin S
  PROVE  \E m \in Int : a <= m /\ m \notin S /\ a..(m - 1) \subseteq S
<1> DEFINE Gaps == {k \in Int : a <= k /\ k \notin S}
           F == {a..k : k \in Gaps}
<1>1. F # {} /\ \A X \in F : X \subseteq Int /\ IsFiniteSet(X)
  BY SMTT(30), FS_Interval
<1>2. PICK X \in F : \A Y \in F : Y \subseteq X => Y = X
  <2> HIDE DEF F
  <2> QED
    BY SMTT(30), <1>1, SmallestMember
<1>3. PICK m \in Gaps : X = a..m
  BY <1>2
<1>4. ASSUME NEW k \in a..(m - 1), k \notin S PROVE FALSE
  <2>1. a..k \in F /\ a..k \subseteq X
    BY SMTT(30), <1>3, <1>4
  <2>2. m \in X /\ m \notin a..k
    BY SMTT(30), <1>3
  <2> QED
    BY <1>2, <2>1, <2>2
<1> QED
  BY <1>3, <1>4

\* A nonempty set of integers that is bounded above has a greatest element.
LEMMA GreatestExists ==
  ASSUME NEW S \in SUBSET Int, S # {}, NEW n \in Int, \A x \in S : x <= n
  PROVE  \E m \in S : \A x \in S : x <= m
<1> DEFINE F == {k..n : k \in S}
<1>1. F # {} /\ \A X \in F : X \subseteq Int /\ IsFiniteSet(X)
  <2>1. ASSUME NEW k \in S PROVE k..n \subseteq Int /\ IsFiniteSet(k..n)
    BY SMTT(30), FS_Interval
  <2> QED
    BY <2>1
<1>2. PICK X \in F : \A Y \in F : Y \subseteq X => Y = X
  <2> HIDE DEF F
  <2> QED
    BY SMTT(30), <1>1, SmallestMember
<1>3. PICK m \in S : X = m..n
  BY <1>2
<1>4. ASSUME NEW x \in S, m < x PROVE FALSE
  <2>1. x..n \in F /\ x..n \subseteq X
    BY SMTT(30), <1>3, <1>4
  <2>2. m \in X /\ m \notin x..n
    BY SMTT(30), <1>3, <1>4
  <2> QED
    BY <1>2, <2>1, <2>2
<1> QED
  BY SMTT(30), <1>3, <1>4

\* The pop loop of mark_fsync stops at the end of the contiguous prefix.
LEMMA ContiguousIs ==
  ASSUME NEW stable \in Int, NEW S \in SUBSET Int, IsFiniteSet(S)
  PROVE  LET s == Contiguous(stable, S) IN
         /\ s \in {stable} \cup S /\ s >= stable
         /\ (stable + 1)..s \subseteq S /\ s + 1 \notin S
<1> DEFINE a == stable + 1
<1>1. PICK n \in Int : a <= n /\ n \notin S
  BY SMTT(30), FiniteSetHasGap
<1>2. PICK m \in Int : a <= m /\ m \notin S /\ a..(m - 1) \subseteq S
  <2>1. a \in Int
    BY SMTT(30)
  <2> HIDE DEF a
  <2> QED
    BY <1>1, <2>1, LeastGap
<1>3. m - 1 \in {stable} \cup S
  BY SMTT(30), <1>2
<1>4. \E s \in {stable} \cup S : s >= stable /\ (stable + 1)..s \subseteq S /\ s + 1 \notin S
  BY SMTT(30), <1>2, <1>3
<1> QED
  BY <1>4 DEF Contiguous

\* mark_fsync publishes nothing beyond the contiguous prefix.
LEMMA PublishedIs ==
  ASSUME NEW stable \in Int, NEW old \in Int, old <= stable,
         NEW batches \in SUBSET [low : Int, high : Int]
  PROVE  LET s == Published(stable, batches, old) IN
         /\ s <= stable
         /\ s \in {stable, old} \cup {b.low - 1 : b \in batches} \cup {b.high : b \in batches}
<1> DEFINE whole == {b \in batches : b.high <= stable}
           open  == batches \ whole
           torn  == {b \in open : b.low <= stable}
           p == Published(stable, batches, old)
<1>1. CASE open = {}
  BY SMTT(30), <1>1 DEF Published
<1>2. CASE open # {} /\ torn # {}
  <2>1. PICK b \in torn : p = b.low - 1
    BY <1>2 DEF Published
  <2> QED
    BY SMTT(30), <2>1
<1>3. CASE open # {} /\ torn = {} /\ whole # {}
  <2> DEFINE H == {b.high : b \in whole}
  <2>1. H \in SUBSET Int /\ H # {} /\ \A x \in H : x <= stable
    BY <1>3
  <2>2. \E m \in H : \A x \in H : x <= m
    BY <2>1, GreatestExists
  <2>3. \E b \in whole : \A c \in whole : c.high <= b.high
    BY <2>2
  <2>4. PICK b \in whole : p = b.high
    BY <1>3, <2>3 DEF Published
  <2> QED
    BY <2>4
<1>4. CASE open # {} /\ torn = {} /\ whole = {}
  BY <1>4 DEF Published
<1> QED
  BY <1>1, <1>2, <1>3, <1>4

\* What mark_fsync publishes is not less than before, and lies in no batch: batches
\* within the prefix are covered as a whole, and the others not at all.
LEMMA PublishedKeeps ==
  ASSUME NEW stable \in Int, NEW old \in Int, old <= stable,
         NEW batches \in SUBSET [low : Int, high : Int],
         \A b \in batches : b.low < b.high /\ old < b.low,
         \A b, c \in batches : b # c => b.high < c.low \/ c.high < b.low
  PROVE  LET s == Published(stable, batches, old) IN
         /\ s \in Int /\ old <= s /\ s <= stable
         /\ \A b \in batches : \/ s < b.low /\ stable < b.high
                               \/ b.high <= s /\ b.high <= stable
<1> DEFINE whole == {b \in batches : b.high <= stable}
           open  == batches \ whole
           torn  == {b \in open : b.low <= stable}
           p == Published(stable, batches, old)
<1>1. \A b \in batches : b.low \in Int /\ b.high \in Int
  OBVIOUS
<1>2. CASE open = {}
  BY SMTT(30), <1>1, <1>2 DEF Published
<1>3. CASE open # {} /\ torn # {}
  <2>1. PICK b \in torn : p = b.low - 1
    BY <1>3 DEF Published
  <2>2. ASSUME NEW c \in batches, c # b
        PROVE  \/ p < c.low /\ stable < c.high
               \/ c.high <= p /\ c.high <= stable
    <3>1. b.high < c.low \/ c.high < b.low
      BY <2>1, <2>2
    <3> QED
      BY SMTT(30), <1>1, <2>1, <2>2, <3>1
  <2> QED
    BY SMTT(30), <1>1, <2>1, <2>2
<1>4. CASE open # {} /\ torn = {} /\ whole # {}
  <2> DEFINE H == {b.high : b \in whole}
  <2>1. H \in SUBSET Int /\ H # {} /\ \A x \in H : x <= stable
    BY <1>4
  <2>2. \E m \in H : \A x \in H : x <= m
    BY <2>1, GreatestExists
  <2>3. \E b \in whole : \A c \in whole : c.high <= b.high
    BY <2>2
  <2>4. PICK b \in whole : p = b.high /\ \A c \in whole : c.high <= b.high
    BY <1>4, <2>3 DEF Published
  <2> QED
    BY SMTT(30), <1>1, <1>4, <2>4
<1>5. CASE open # {} /\ torn = {} /\ whole = {}
  BY SMTT(30), <1>1, <1>5 DEF Published
<1> QED
  BY <1>2, <1>3, <1>4, <1>5

\* A buffer accounts for finitely many LSNs.
LEMMA ExtentType ==
  ASSUME NEW b \in BufType
  PROVE  Extent(b) \subseteq Nat /\ IsFiniteSet(Extent(b))
<1>1. b.lsn \in Nat /\ End(b) \in Nat
  BY SMTT(30), NextSegmentType DEF BufType, End
<1> DEFINE last == End(b) - 1
<1>2. b.lsn \in Int /\ last \in Int /\ Extent(b) = b.lsn .. last
  BY SMTT(30), <1>1 DEF Extent
<1> HIDE DEF last
<1>3. IsFiniteSet(b.lsn .. last)
  BY <1>2, FS_Interval
<1> QED
  BY SMTT(30), <1>1, <1>2, <1>3
----------------------------------------------------------------------------
(* Steps that leave the shared state alone.                                *)

\* A thread that goes on within its operation, or returns, holding what it held.
LEMMA ReturnQuiet ==
  ASSUME IInv, IInv', LogInv, NEW t \in Threads, NEW p, Wakes(p),
         ReturnOk(t, p) \/ ReturnErr(t, p), UNCHANGED <<bufs, tasks, disk, intervals, stable_lsn>>,
         max_reserved' = max_reserved, error => error',
         \A u \in Threads \ {t} : Bystander(u),
         pc[t] \notin {"bump", "exit"}, Duty(t) = 0 \/ error'
  PROVE  LogInv'
<1>1. SealerOK(t) /\ BatchOK(t) /\ max_reserved \in Int /\ max_reserved < Tip
  BY IntervalTypes DEF LogInv, BatchesOK
<1>2. /\ HeldBy(t)' = Pegged(t) /\ (\A r \in Claimed(t)', s \in Pegged(t)' : Apart(r, s))
      /\ Duty(t)' = 0 /\ SealerOK(t)' /\ BatchOK(t)'
      /\ pc'[t] \in {"idle", "batch", "exit"} /\ op'[t] \in {op[t], "none"}
  BY SMTT(30), <1>1, ReturnOwn
<1>3. HeldBy(t) = Pegged(t)
  BY DEF HeldBy, Claimed
<1>4. op'[t] = "batch" => \A u \in Threads \ {t} : op[u] # "batch"
  BY <1>2 DEF LogInv, AloneOK
<1> QED
  BY SMTT(30), <1>1, <1>2, <1>3, <1>4, QuietStep

\* Starting an operation.  A batch starts only when there is no other.
LEMMA StartLog ==
  ASSUME IInv, IInv', LogInv, NEW t \in Threads, Start(t)
  PROVE  LogInv'
<1> USE DEF IInv, LocalsOK
<1>1. PICK o \in OpNames, label \in {"reserve", "stable_check", "roll_iobuf"} :
        Begin(t, o, label)
  BY DEF Start, StartWrite, StartFlush, StartRead, StartRoll, pin_log, OpNames
<1>2. /\ pc[t] = "idle" /\ pc'[t] = label /\ op'[t] = o /\ peg'[t] = peg[t]
      /\ UNCHANGED <<bufs, tasks, disk, intervals, stable_lsn, max_reserved, error>>
      /\ o = "batch" => \A u \in Threads : op[u] # "batch"
  <2>1. Begin(t, o, label) /\ Admitted(t, o)
    BY <1>1 DEF Begin
  <2>2. pc' = [pc EXCEPT ![t] = label] /\ op' = [op EXCEPT ![t] = o] /\ peg' = peg /\ pc[t] = "idle"
    BY <2>1 DEF Begin, Admitted
  <2>3. UNCHANGED <<bufs, tasks, disk, intervals, stable_lsn, max_reserved, error>>
    BY <2>1 DEF Begin, shared
  <2>4. o = "batch" => \A u \in Threads : op[u] # "batch"
    BY <2>1 DEF Admitted
  <2> QED
    BY <2>2, <2>3, <2>4
<1>3. SealerOK(t) /\ BatchOK(t) /\ max_reserved \in Int /\ max_reserved < Tip
  BY SMTT(30) DEF LogInv, BatchesOK, SharedOK, Lsn
<1>4. peg[t] = None
  BY <1>2, <1>3 DEF BatchOK
<1>5. res'[t] # None => res'[t].len > 1
  <2>1. res'[t] = res[t] \/ \E len \in MsgLens \cup {ManifestLen} : res'[t] = Wanted(len)
    BY DEF Start, StartWrite, StartFlush, StartRead, StartRoll, pin_log
  <2>2. CASE res'[t] = res[t]
    BY <1>3, <2>2 DEF SealerOK
  <2>3. ASSUME NEW len \in MsgLens \cup {ManifestLen}, res'[t] = Wanted(len)
        PROVE  res'[t].len > 1
    <3>1. len > 1
      BY SizeAssumption
    <3>2. Wanted(len).len = len
      BY DEF Wanted
    <3> QED
      BY <2>3, <3>1, <3>2
  <2> QED
    BY <2>1, <2>2, <2>3
<1>6. HeldBy(t)' = HeldBy(t) /\ Claimed(t)' = {} /\ Duty(t)' = Duty(t)
  BY <1>2, <1>4 DEF HeldBy, Claimed, Pegged, Duty
<1>7. SealerOK(t)' /\ BatchOK(t)' /\ pc'[t] # "seal_swap"
  BY <1>2, <1>4, <1>5 DEF SealerOK, BatchOK
<1>8. \A u \in Threads \ {t} : Bystander(u)
  BY OthersStandBy
<1> QED
  BY SMTT(30), <1>2, <1>3, <1>6, <1>7, <1>8, QuietStep

\* Loading the current buffer: a claim is made only outside of the red zone.
LEMMA ReserveLoadLog ==
  ASSUME IInv, IInv', LogInv, NEW t \in Threads, ReserveLoad(t)
  PROVE  LogInv'
<1>1. Cur \in 1..Cur /\ bufs[Cur] \in BufType
  BY SMTT(30), CurType DEF IInv
<1>2. /\ pc[t] = "reserve" /\ pc'[t] \in {"seal_cas", "claim"}
      /\ UNCHANGED <<bufs, tasks, disk, intervals, stable_lsn, max_reserved, error>>
      /\ op'[t] = op[t] /\ peg'[t] = peg[t] /\ res'[t] = res[t]
  BY DEF ReserveLoad, shared, IInv, LocalsOK
<1>3. pc'[t] = "claim" =>
        /\ bufs[Cur].capacity - bufs[Cur].offset >= MaxMsgHeaderLen
        /\ seen'[t].buf = Cur /\ seen'[t].header.offset = bufs[Cur].offset
  <2>1. SUFFICES ASSUME pc'[t] = "claim"
                 PROVE  /\ bufs[Cur].capacity - bufs[Cur].offset >= MaxMsgHeaderLen
                        /\ seen'[t].buf = Cur /\ seen'[t].header.offset = bufs[Cur].offset
    OBVIOUS
  <2>2. ~WouldOverflow(bufs[Cur], res[t].len) /\ seen'[t] = Load(Cur, FALSE, "reserve")
    BY <2>1 DEF ReserveLoad, IInv, LocalsOK
  <2>3. bufs[Cur].capacity - bufs[Cur].offset >= MaxMsgHeaderLen
    BY SMTT(30), <1>1, <2>2, SizeAssumption DEF WouldOverflow, BufType
  <2>4. seen'[t].buf = Cur /\ seen'[t].header.offset = bufs[Cur].offset
    BY SMTT(30), <2>2 DEF Load, Header
  <2> QED
    BY <2>3, <2>4
<1>4. res[t] # None => res[t].len > 1
  BY DEF LogInv, SealerOK
<1>5. Duty(t) = 0 /\ \A u \in Threads \ {t} : Bystander(u)
  BY <1>2, OthersStandBy DEF Duty, Step
<1> QED
  BY <1>2, <1>3, <1>4, <1>5, GotoQuiet

\* Leaving reserve_inner with an error, whatever the reason.
LEMMA ReserveErrorLog ==
  ASSUME IInv, IInv', LogInv, NEW t \in Threads, ReserveError(t)
  PROVE  LogInv'
<1>1. Duty(t) = 0 /\ \A u \in Threads \ {t} : Bystander(u)
  BY OthersStandBy DEF Duty, Step, ReserveError
<1> QED
  BY <1>1, WakesPc, ReturnQuiet DEF ReserveError, shared

\* Serializing the message.  A manifest becomes the thread's peg: all it covers is
\* reserved, and lies above every recorded batch.
LEMMA ReserveFillLog ==
  ASSUME IInv, IInv', LogInv, NEW t \in Threads, ReserveFill(t)
  PROVE  LogInv'
<1> DEFINE last == res[t].lsn + res[t].len - 1
<1>1. pc[t] = "bump"
  BY DEF ReserveFill
<1>2. /\ res[t] \in HeldBy(t) /\ res[t].len > 1 /\ last \in Int /\ last < Tip
      /\ res[t] \in ResType
  <2>1. res[t] \in HeldBy(t)
    BY <1>1 DEF HeldBy, Claimed
  <2> QED
    BY SMTT(30), <2>1, HeldLong
<1>3. SealerOK(t) /\ BatchOK(t) /\ max_reserved \in Int /\ max_reserved < Tip
  BY IntervalTypes DEF LogInv, BatchesOK
<1>4. max_reserved' = IF max_reserved < last THEN last ELSE max_reserved
  BY DEF ReserveFill, bump_atomic_lsn
<1>5. /\ max_reserved' \in Int /\ max_reserved <= max_reserved'
      /\ last <= max_reserved' /\ max_reserved' < Tip
  <2> HIDE DEF last
  <2> QED
    BY SMTT(30), <1>2, <1>3, <1>4
<1>6. UNCHANGED <<bufs, tasks, disk, intervals, stable_lsn, error, op>>
  BY DEF ReserveFill
<1>7. \A u \in Threads \ {t} : Bystander(u)
  BY OthersStandBy DEF Step
<1>8. op'[t] = "batch" => \A u \in Threads \ {t} : op[u] # "batch"
  BY <1>6 DEF LogInv, AloneOK
<1>9. CASE IsManifest(t)
  <2>1. /\ pc'[t] = "pin_seal" /\ peg'[t] = res[t] /\ res'[t] = None /\ peg[t] = None
        /\ op[t] = "batch"
    BY <1>9 DEF ReserveFill, IsManifest, IInv, LocalsOK
  <2>2. res[t] # None
    BY <1>2, NoneAssumption
  <2>3. HeldBy(t)' = HeldBy(t) /\ Claimed(t)' = {} /\ Duty(t)' = 0 /\ Duty(t) = 0
    BY <1>1, <2>1, <2>2 DEF HeldBy, Claimed, Pegged, Duty
  <2>4. SealerOK(t)'
    BY <1>2, <2>1 DEF SealerOK
  <2>5. BatchOK(t)'
    BY <1>1, <1>3, <1>5, <1>6, <1>9, <2>1 DEF BatchOK
  <2> QED
    BY <1>3, <1>5, <1>6, <1>7, <1>8, <2>1, <2>3, <2>4, <2>5, QuietStep
<1>10. CASE ~IsManifest(t)
  <2>1. pc'[t] = "exit" /\ peg'[t] = peg[t] /\ res'[t] = res[t]
    BY <1>10 DEF ReserveFill, IInv, LocalsOK
  <2>2. /\ HeldBy(t)' = HeldBy(t) /\ Claimed(t)' = Claimed(t) /\ Pegged(t)' = Pegged(t)
        /\ Duty(t)' = 0 /\ Duty(t) = 0
    BY <1>1, <2>1 DEF HeldBy, Claimed, Pegged, Duty
  <2>3. \A r \in Claimed(t)', s \in Pegged(t)' : Apart(r, s)
    BY <2>2 DEF LogInv, HeldOK
  <2>4. SealerOK(t)'
    BY <1>3, <2>1 DEF SealerOK
  <2>5. BatchOK(t)'
    <3>1. peg[t] # None => peg[t].lsn \in Nat /\ peg[t].len \in Nat
      BY DEF IInv, LocalsOK, ResType
    <3> QED
      BY SMTT(30), <1>3, <1>5, <1>6, <2>1, <3>1 DEF BatchOK
  <2> QED
    BY <1>3, <1>5, <1>6, <1>7, <1>8, <2>1, <2>2, <2>3, <2>4, <2>5, QuietStep
<1> QED
  BY <1>9, <1>10

\* Failing to write a heap item: the reservation is forgotten.
LEMMA ReserveHeapErrorLog ==
  ASSUME IInv, IInv', LogInv, NEW t \in Threads, ReserveHeapError(t)
  PROVE  LogInv'
<1> DEFINE last == res[t].lsn + res[t].len - 1
<1>1. pc[t] = "bump" /\ HeapErrors /\ ReturnErr(t, pc)
  BY DEF ReserveHeapError
<1>2. last \in Int /\ last < Tip
  <2>1. res[t] \in HeldBy(t)
    BY <1>1 DEF HeldBy, Claimed
  <2> QED
    BY SMTT(30), <2>1, HeldLong
<1>3. SealerOK(t) /\ BatchOK(t) /\ max_reserved \in Int /\ max_reserved < Tip
  BY IntervalTypes DEF LogInv, BatchesOK
<1>4. max_reserved' = IF max_reserved < last THEN last ELSE max_reserved
  BY DEF ReserveHeapError, bump_atomic_lsn
<1>5. max_reserved' \in Int /\ max_reserved <= max_reserved' /\ max_reserved' < Tip
  <2> HIDE DEF last
  <2> QED
    BY SMTT(30), <1>2, <1>3, <1>4
<1>6. UNCHANGED <<bufs, tasks, disk, intervals, stable_lsn, error>>
  BY DEF ReserveHeapError
<1>7. \A u \in Threads \ {t} : Bystander(u)
  BY OthersStandBy DEF Step
<1>8. /\ HeldBy(t)' = Pegged(t) /\ (\A r \in Claimed(t)', s \in Pegged(t)' : Apart(r, s))
      /\ Duty(t)' = 0 /\ SealerOK(t)' /\ BatchOK(t)'
      /\ pc'[t] \in {"idle", "batch", "exit"} /\ op'[t] \in {op[t], "none"}
  BY <1>1, <1>3, <1>5, <1>6, WakesPc, ReturnOwn
<1>9. HeldBy(t)' \subseteq HeldBy(t) /\ Duty(t) = 0
  BY <1>1, <1>8 DEF HeldBy, Duty
<1>10. op'[t] = "batch" => \A u \in Threads \ {t} : op[u] # "batch"
  BY <1>8 DEF LogInv, AloneOK
<1> QED
  BY <1>1, <1>3, <1>5, <1>6, <1>7, <1>8, <1>9, <1>10, QuietStep

\* Failing to find a segment: the buffer stays sealed and is not replaced.
LEMMA SealErrorLog ==
  ASSUME IInv, IInv', LogInv, NEW t \in Threads, SealError(t)
  PROVE  LogInv'
<1>1. \A u \in Threads \ {t} : Bystander(u)
  BY OthersStandBy DEF Step
<1> QED
  BY <1>1, WakesPc, ReturnQuiet DEF SealError

\* Rolling the current buffer, and sealing the one a manifest is in.
LEMMA RollLog ==
  ASSUME IInv, IInv', LogInv, NEW t \in Threads, roll_iobuf(t) \/ PinSeal(t)
  PROVE  LogInv'
<1>1. \A u \in Threads \ {t} : Bystander(u)
  BY OthersStandBy DEF Step
<1>2. /\ pc[t] \in {"roll_iobuf", "pin_seal"} /\ Duty(t) = 0
      /\ UNCHANGED <<bufs, tasks, disk, intervals, stable_lsn, max_reserved, error>>
  BY DEF roll_iobuf, PinSeal, shared, Duty
<1>3. \/ ReturnOk(t, pc)
      \/ /\ pc'[t] \in {"reserve", "seal_cas", "batch"}
         /\ op'[t] = op[t] /\ peg'[t] = peg[t] /\ res'[t] = res[t]
  BY DEF roll_iobuf, PinSeal, IInv, LocalsOK
<1>4. res[t] # None => res[t].len > 1
  BY DEF LogInv, SealerOK
<1>5. CASE ReturnOk(t, pc)
  BY <1>1, <1>2, <1>5, WakesPc, ReturnQuiet
<1> QED
  BY <1>1, <1>2, <1>3, <1>4, <1>5, GotoQuiet

\* The body of a batch.  Sealing it covers the manifest and only what is reserved.
LEMMA BatchLog ==
  ASSUME IInv, IInv', LogInv, NEW t \in Threads, BatchWrite(t) \/ BatchRead(t) \/ seal_batch(t)
  PROVE  LogInv'
<1>1. \A u \in Threads \ {t} : Bystander(u)
  BY OthersStandBy
<1>2. /\ pc[t] = "batch" /\ Duty(t) = 0 /\ op'[t] = op[t] /\ peg'[t] = peg[t]
      /\ UNCHANGED <<bufs, tasks, disk, intervals, stable_lsn, max_reserved, error>>
  BY DEF BatchWrite, BatchRead, seal_batch, shared, Duty
<1>3. /\ SealerOK(t) /\ BatchOK(t) /\ max_reserved < Tip
      /\ peg[t] # None
  BY <1>2 DEF LogInv, BatchesOK, IInv, LocalsOK, ThreadOK, Place, Batching
<1>4. CASE BatchWrite(t)
  <2>1. PICK len \in MsgLens : res'[t] = Wanted(len)
    BY <1>4 DEF BatchWrite, IInv, LocalsOK
  <2>2. res'[t].len > 1 /\ pc'[t] = "reserve"
    BY SMTT(30), <1>4, <2>1, SizeAssumption DEF BatchWrite, Wanted, IInv, LocalsOK
  <2> QED
    BY <1>1, <1>2, <2>2, GotoQuiet
<1>5. CASE BatchRead(t)
  <2>1. res'[t] = res[t] /\ pc'[t] = "stable_check"
    BY <1>5 DEF BatchRead, IInv, LocalsOK
  <2> QED
    BY <1>1, <1>2, <1>3, <2>1, GotoQuiet DEF SealerOK
<1>6. CASE seal_batch(t)
  <2>1. res'[t] = res[t] /\ pc'[t] = "mark_writebatch" /\ goal'[t] = max_reserved
    BY <1>6 DEF seal_batch, IInv, LocalsOK
  <2>2. peg[t].lsn + peg[t].len - 1 <= max_reserved
    BY <1>3 DEF BatchOK
  <2> QED
    BY <1>1, <1>2, <1>3, <2>1, <2>2, GotoQuiet DEF SealerOK
<1> QED
  BY <1>4, <1>5, <1>6

\* Waiting for an LSN.
LEMMA MakeStableLog ==
  ASSUME IInv, IInv', LogInv, NEW t \in Threads,
         StableCheck(t) \/ StableBody(t) \/ StableLock(t)
  PROVE  LogInv'
<1>1. \A u \in Threads \ {t} : Bystander(u)
  BY OthersStandBy DEF Step
<1>2. /\ pc[t] \in {"stable_check", "stable_body", "stable_lock"} /\ Duty(t) = 0
      /\ UNCHANGED <<bufs, tasks, disk, intervals, stable_lsn, max_reserved, error>>
  BY DEF StableCheck, StableBody, StableLock, shared, Duty
<1>3. \/ ReturnOk(t, pc) \/ ReturnErr(t, NotifyAll(pc))
      \/ /\ pc'[t] \in {"stable_body", "stable_lock", "seal_cas", "waiting"}
         /\ op'[t] = op[t] /\ peg'[t] = peg[t] /\ res'[t] = res[t]
  BY DEF StableCheck, StableBody, StableLock, IInv, LocalsOK
<1>4. res[t] # None => res[t].len > 1
  BY DEF LogInv, SealerOK
<1>5. CASE ReturnOk(t, pc) \/ ReturnErr(t, NotifyAll(pc))
  BY <1>1, <1>2, <1>5, WakesPc, ReturnQuiet
<1> QED
  BY <1>1, <1>2, <1>3, <1>4, <1>5, GotoQuiet
----------------------------------------------------------------------------
(* Handing a buffer to the threadpool.                                     *)

\* The duty of a thread becomes a task.
LEMMA HandOver ==
  ASSUME IInv, IInv', LogInv, NEW t \in Threads, NEW x \in TaskType, x.stage = "queued",
         Duty(t) = x.buf, x.buf # 0, tasks' = tasks \cup {x}, Duty(t)' = 0,
         \A u \in Threads \ {t} : Bystander(u), UNCHANGED <<bufs, disk, error>>
  PROVE  DutiesOK'
<1>1. /\ bufs[x.buf].sealed /\ bufs[x.buf].writers = {} /\ x.buf \notin disk
      /\ ~Queued(x.buf) /\ \A u \in Threads : Duty(u) = x.buf => u = t
  BY DEF LogInv, DutiesOK
<1>2. \A u \in Threads \ {t} : Duty(u)' = Duty(u)
  BY BystanderKeeps
<1>3. \A i : Queued(i)' <=> Queued(i) \/ i = x.buf
  BY DEF Queued
<1>4. \A y \in tasks : y.buf # x.buf
  BY <1>1 DEF Queued, LogInv, DutiesOK
<1>5. Cur' = Cur
  BY DEF Cur
<1>6. ASSUME NEW u \in Threads, Duty(u)' # 0
      PROVE  /\ bufs'[Duty(u)'].sealed /\ bufs'[Duty(u)'].writers = {}
             /\ Duty(u)' \notin disk' /\ ~Queued(Duty(u))'
             /\ \A v \in Threads : Duty(v)' = Duty(u)' => v = u
  <2>1. u # t /\ Duty(u)' = Duty(u)
    BY <1>2, <1>6
  <2>2. Duty(u) # x.buf
    BY <1>1, <2>1
  <2>3. ~Queued(Duty(u)) /\ ~Queued(Duty(u))'
    BY <1>3, <1>6, <2>1, <2>2 DEF LogInv, DutiesOK
  <2> QED
    BY SMTT(30), <1>2, <1>6, <2>1, <2>3 DEF LogInv, DutiesOK
<1>7. ASSUME NEW i \in 1..Cur, bufs[i].sealed, bufs[i].writers = {}
      PROVE  error \/ i \in disk \/ Queued(i)' \/ \E u \in Threads : Duty(u)' = i
  <2>1. error \/ i \in disk \/ Queued(i) \/ \E u \in Threads : Duty(u) = i
    BY <1>7 DEF LogInv, DutiesOK
  <2> QED
    BY <1>2, <1>3, <2>1
<1> QED
  BY <1>1, <1>4, <1>5, <1>6, <1>7 DEF LogInv, DutiesOK

\* The last writer, or the sealer of an empty buffer, has it written.
LEMMA SpawnLog ==
  ASSUME IInv, IInv', LogInv, NEW t \in Threads, ExitSpawn(t) \/ SealSpawn(t)
  PROVE  LogInv'
<1>1. \A u \in Threads \ {t} : Bystander(u)
  BY OthersStandBy DEF Step
<1>2. /\ pc[t] \in {"exit_spawn", "seal_spawn"}
      /\ UNCHANGED <<bufs, disk, intervals, stable_lsn, max_reserved, error>>
  BY DEF ExitSpawn, SealSpawn
<1>3. CASE error
  <2>1. \/ ReturnErr(t, NotifyAll(pc)) /\ UNCHANGED tasks
        \/ ReturnErr(t, pc) /\ UNCHANGED tasks
    BY <1>3 DEF ExitSpawn, SealSpawn
  <2> QED
    BY <1>1, <1>2, <1>3, <2>1, WakesPc, ReturnQuiet
<1>4. CASE ~error
  <2>1. SealerOK(t) /\ BatchOK(t) /\ max_reserved \in Int /\ max_reserved < Tip
    BY IntervalTypes DEF LogInv, BatchesOK
  <2>2. HeldBy(t) = Pegged(t)
    BY <1>2 DEF HeldBy, Claimed
  <2>3. /\ HeldBy(t)' = HeldBy(t) /\ (\A r \in Claimed(t)', s \in Pegged(t)' : Apart(r, s))
        /\ Duty(t)' = 0 /\ SealerOK(t)' /\ BatchOK(t)'
        /\ pc'[t] # "seal_swap" /\ op'[t] \in {op[t], "none"}
    <3>1. CASE ExitSpawn(t)
      <4>1. ReturnOk(t, pc) /\ UNCHANGED <<intervals, max_reserved>>
        BY <1>4, <3>1 DEF ExitSpawn
      <4>2. max_reserved' \in Int /\ max_reserved <= max_reserved'
        BY SMTT(30), <2>1, <4>1
      <4>3. /\ HeldBy(t)' = Pegged(t) /\ Duty(t)' = 0 /\ SealerOK(t)' /\ BatchOK(t)'
            /\ \A r \in Claimed(t)', s \in Pegged(t)' : Apart(r, s)
            /\ pc'[t] \in {"idle", "batch", "exit"} /\ op'[t] \in {op[t], "none"}
        BY <2>1, <4>1, <4>2, WakesPc, ReturnOwn
      <4> QED
        BY <2>2, <4>3
    <3>2. CASE SealSpawn(t)
      BY <1>2, <1>4, <2>1, <3>2, WakesPc, SealReturnOwn DEF SealSpawn
    <3> QED
      BY <3>1, <3>2
  <2>4. PICK i \in 1..Cur, n \in BOOLEAN : tasks' = tasks \cup {Task(i, n)} /\ Duty(t) = i
    <3>1. LocalsOK /\ ThreadOK(t)
      BY DEF IInv, LocalsOK
    <3>2. CASE ExitSpawn(t)
      <4>1. tasks' = tasks \cup {Task(res[t].buf, FALSE)} /\ pc[t] = "exit_spawn"
        BY <1>4, <3>2 DEF ExitSpawn
      <4>2. Duty(t) = res[t].buf /\ res[t].buf \in 1..Cur
        BY <3>1, <4>1 DEF Duty, ThreadOK
      <4> QED
        BY <4>1, <4>2
    <3>3. CASE SealSpawn(t)
      <4>1. tasks' = tasks \cup {Task(seen[t].buf, TRUE)} /\ pc[t] = "seal_spawn"
        BY <1>4, <3>3 DEF SealSpawn
      <4>2. Duty(t) = seen[t].buf /\ seen[t].buf \in 1..Cur
        BY <2>1, <3>1, <4>1 DEF Duty, ThreadOK, SealerOK
      <4> QED
        BY <4>1, <4>2
    <3> QED
      BY <3>2, <3>3
  <2>5. /\ Task(i, n) \in TaskType /\ Task(i, n).stage = "queued" /\ Task(i, n).buf = i
        /\ i # 0
    BY SMTT(30), <2>4, CurType DEF Task, TaskType, IInv
  <2>6. DutiesOK'
    BY <1>1, <1>2, <2>3, <2>4, <2>5, HandOver
  <2>7. Frozen /\ Cur' = Cur /\ WritersKept /\ Tip' = Tip /\ Chain'
    BY <1>2, SameChain DEF LogInv
  <2>8. HeldOK'
    <3>1. \A u \in Threads \ {t} : /\ Claimed(u)' = Claimed(u) /\ Pegged(u)' = Pegged(u)
                                   /\ HeldBy(u)' = HeldBy(u)
      BY <1>1, BystanderKeeps
    <3>2. \A u \in Threads : \A r \in Claimed(u)', s \in Pegged(u)' : Apart(r, s)
      BY <2>3, <3>1 DEF LogInv, HeldOK
    <3> QED
      BY <2>3, <2>7, <3>1, <3>2, HeldFrame DEF LogInv
  <2>9. \A y \in tasks' : y.stage = "synced" => y \in tasks
    BY <2>4, <2>5
  <2>10. op'[t] = "batch" => \A u \in Threads \ {t} : op[u] # "batch"
    BY <2>3 DEF LogInv, AloneOK
  <2>11. Tip \in Nat
    BY Bounds DEF LogInv
  <2>12. Tip <= Tip' /\ max_reserved <= max_reserved' /\ max_reserved' < Tip'
    BY SMTT(30), <1>2, <2>1, <2>7, <2>11
  <2>13. \A u \in Threads \ {t} : pc[u] = "seal_swap" => Cur' = Cur /\ pc'[t] # "seal_swap"
    BY <2>3, <2>7
  <2>14. UNCHANGED <<disk, intervals, stable_lsn>>
    BY <1>2
  <2> QED
    BY <1>1, <2>3, <2>6, <2>7, <2>8, <2>9, <2>10, <2>12, <2>13, <2>14, LogStep
<1> QED
  BY <1>3, <1>4
----------------------------------------------------------------------------
(* Batches.                                                                *)

\* A batch is recorded above the others and above what is stable; it ends beyond
\* its manifest, so that none is aborted.
LEMMA MarkWritebatchLog ==
  ASSUME IInv, IInv', LogInv, NEW t \in Threads, mark_writebatch(t)
  PROVE  /\ LogInv'
         /\ intervals' = [intervals EXCEPT !.batches =
                            @ \cup {[low |-> peg[t].lsn, high |-> goal[t]]}]
         /\ stable_lsn < peg[t].lsn /\ peg[t].lsn < goal[t] /\ goal[t] < Tip
<1> DEFINE p == peg[t]
           b == [low |-> p.lsn, high |-> goal[t]]
<1>1. pc[t] = "mark_writebatch" /\ p # None /\ goal[t] \in Int
  <2>1. pc[t] = "mark_writebatch"
    BY DEF mark_writebatch
  <2> QED
    BY SMTT(30), <2>1 DEF IInv, LocalsOK, ThreadOK, Place, Batching, Stabilizing, Lsn
<1>2. /\ SealerOK(t) /\ BatchOK(t) /\ max_reserved \in Int /\ max_reserved < Tip
      /\ Tip \in Nat /\ HeldBy(t) = {p}
  BY <1>1, Bounds DEF LogInv, BatchesOK, IInv, SharedOK, Lsn, HeldBy, Claimed, Pegged
<1>3. p.lsn \in Nat /\ p.len \in Nat /\ p.len > 1
  BY <1>2, HeldLong
<1>4. stable_lsn < p.lsn
  BY <1>2, HeldIsNotStable
<1>5. p.lsn < goal[t] /\ goal[t] < Tip
  BY SMTT(30), <1>1, <1>2, <1>3 DEF BatchOK
<1>6. intervals' = [intervals EXCEPT !.batches = @ \cup {b}]
  <2>1. p.lsn # goal[t]
    BY SMTT(30), <1>1, <1>3, <1>5
  <2> QED
    BY <2>1 DEF mark_writebatch, mark_batch, MarkBatch
<1>7. /\ intervals'.batches = intervals.batches \cup {b}
      /\ intervals'.stable = intervals.stable /\ intervals'.synced = intervals.synced
  BY <1>6 DEF IInv, SharedOK, IntervalsType
<1>8. /\ UNCHANGED <<bufs, tasks, disk, stable_lsn, max_reserved, error, op>>
      /\ pc'[t] = "exit" /\ res'[t] = p /\ peg'[t] = None
  BY DEF mark_writebatch, IInv, LocalsOK
<1>9. \A u \in Threads \ {t} : Bystander(u)
  BY OthersStandBy DEF Step
<1>10. Frozen /\ Cur' = Cur /\ WritersKept /\ Tip' = Tip /\ Chain' /\ StartLsn' = StartLsn
  BY <1>8, SameChain DEF LogInv
<1>11. HeldBy(t)' = HeldBy(t) /\ Pegged(t)' = {} /\ Duty(t)' = Duty(t)
  BY <1>1, <1>2, <1>8 DEF HeldBy, Claimed, Pegged, Duty
<1>12. \A u \in Threads \ {t} : HeldBy(u)' = HeldBy(u) /\ Claimed(u)' = Claimed(u)
                                /\ Pegged(u)' = Pegged(u) /\ Duty(u)' = Duty(u)
  BY <1>9, BystanderKeeps
<1> HIDE DEF p
<1>13. HeldOK'
  <2>1. \A u \in Threads : \A r \in Claimed(u)', s \in Pegged(u)' : Apart(r, s)
    BY <1>11, <1>12 DEF LogInv, HeldOK
  <2> QED
    BY <1>10, <1>11, <1>12, <2>1, HeldFrame DEF LogInv
<1>14. DutiesOK'
  BY <1>8, <1>10, <1>11, <1>12, DutiesFrame DEF LogInv
<1>15. MarksOK'
  BY <1>7, <1>8, <1>10, MarksFrame DEF LogInv
<1>16. BatchesOK'
  <2>1. b.low = p.lsn /\ b.high = goal[t]
    OBVIOUS
  <2> HIDE DEF b
  <2>2. \A c \in intervals.batches : c.high < b.low
    BY <1>1, <1>2, <2>1 DEF BatchOK, p
  <2> QED
    BY <1>4, <1>5, <1>7, <1>8, <1>10, <2>1, <2>2 DEF LogInv, BatchesOK
<1>17. ASSUME NEW u \in Threads PROVE SealerOK(u)' /\ BatchOK(u)'
  <2>1. CASE u = t
    BY <1>2, <1>3, <1>8, <2>1 DEF SealerOK, BatchOK
  <2>2. CASE u # t
    <3>1. op[t] = "batch"
      BY <1>1, <1>2 DEF BatchOK, p
    <3>2. op[u] # "batch"
      BY <2>2, <3>1 DEF LogInv, AloneOK
    <3> QED
      <4>1. SealerOK(u) /\ BatchOK(u)
        BY DEF LogInv
      <4> QED
        BY SMTT(30), <1>2, <1>8, <1>9, <1>10, <2>2, <3>2, <4>1, BystanderLog
  <2> QED
    BY <2>1, <2>2
<1>18. AloneOK'
  BY SMTT(30), <1>8, <1>9 DEF LogInv, AloneOK, Bystander
<1> QED
  BY <1>4, <1>5, <1>6, <1>10, <1>13, <1>14, <1>15, <1>16, <1>17, <1>18 DEF LogInv, p
----------------------------------------------------------------------------
(* The tasks of the threadpool.                                            *)

\* A task touches no buffer and no thread, except that it may wake some.
LEMMA TaskLog ==
  ASSUME IInv, IInv', LogInv, bufs' = bufs, max_reserved' = max_reserved,
         Wakes(pc'), UNCHANGED <<op, seen, res, peg, goal>>,
         DutiesOK', MarksOK', BatchesOK', intervals'.batches \subseteq intervals.batches
  PROVE  LogInv'
<1>1. \A u \in Threads : Bystander(u)
  BY WakesType DEF Bystander, IInv, LocalsOK
<1>2. Frozen /\ Cur' = Cur /\ WritersKept /\ Tip' = Tip /\ Chain' /\ Tip \in Nat
  BY SameChain, Bounds DEF LogInv
<1>3. max_reserved \in Int
  BY IntervalTypes
<1>4. \A u \in Threads : HeldBy(u)' = HeldBy(u) /\ Claimed(u)' = Claimed(u)
                         /\ Pegged(u)' = Pegged(u)
  BY <1>1, BystanderKeeps
<1>5. HeldOK'
  <2>1. \A u \in Threads : \A r \in Claimed(u)', s \in Pegged(u)' : Apart(r, s)
    BY <1>4 DEF LogInv, HeldOK
  <2> QED
    BY <1>2, <1>4, <2>1, HeldFrame DEF LogInv
<1>6. ASSUME NEW u \in Threads PROVE SealerOK(u)' /\ BatchOK(u)'
  BY SMTT(30), <1>1, <1>2, <1>3, BystanderLog DEF LogInv
<1>7. AloneOK'
  BY SMTT(30), <1>1 DEF LogInv, AloneOK, Bystander
<1> QED
  BY <1>2, <1>5, <1>6, <1>7 DEF LogInv

\* Nobody's duty changes while a task runs.
LEMMA DutiesStay ==
  ASSUME IInv, Wakes(pc'), UNCHANGED <<op, seen, res, peg, goal>>, NEW u \in Threads
  PROVE  Duty(u)' = Duty(u)
<1>1. Bystander(u)
  BY WakesType DEF Bystander, IInv, LocalsOK
<1> QED
  BY <1>1, BystanderKeeps

\* Writing a buffer.
LEMMA WriteLog ==
  ASSUME IInv, IInv', LogInv, NEW x \in tasks, write_to_log(x)
  PROVE  LogInv'
<1> DEFINE y == [x EXCEPT !.stage = "synced"]
<1>1. /\ Wakes(pc') /\ UNCHANGED <<op, seen, res, peg, goal>>
      /\ UNCHANGED <<bufs, intervals, stable_lsn, max_reserved, error>>
      /\ disk' = disk \cup {x.buf} /\ tasks' = (tasks \ {x}) \cup {y}
      /\ x.stage = "queued"
  BY DEF write_to_log, locals, Wakes
<1>2. y.buf = x.buf /\ y.stage = "synced" /\ x.buf \in 1..Cur
  BY DEF IInv, SharedOK, TaskType, DiskOK
<1> HIDE DEF y
<1>3. DutiesOK
  BY DEF LogInv
<1>4. Frozen /\ Cur' = Cur /\ Tip' = Tip
  BY <1>1, SameChain
<1>5. x.buf \notin disk /\ Queued(x.buf) /\ bufs[x.buf].writers = {}
  BY <1>1, <1>3 DEF DutiesOK, Queued
<1>6. \A i : Queued(i)' <=> Queued(i) /\ i # x.buf
  <2>1. ASSUME NEW i, Queued(i)' PROVE Queued(i) /\ i # x.buf
    <3>1. PICK z \in tasks' : z.buf = i /\ z.stage = "queued"
      BY <2>1 DEF Queued
    <3>2. z \in tasks /\ z # x
      BY <1>1, <1>2, <3>1
    <3> QED
      BY <1>3, <3>1, <3>2 DEF Queued, DutiesOK
  <2>2. ASSUME NEW i, Queued(i), i # x.buf PROVE Queued(i)'
    BY <1>1, <2>2 DEF Queued
  <2> QED
    BY <2>1, <2>2
<1>7. \A u \in Threads : Duty(u)' = Duty(u)
  BY <1>1, DutiesStay
<1>8. DutiesOK'
  <2>1. ASSUME NEW u \in Threads, Duty(u)' # 0
        PROVE  /\ bufs'[Duty(u)'].sealed /\ bufs'[Duty(u)'].writers = {}
               /\ Duty(u)' \notin disk' /\ ~Queued(Duty(u))'
               /\ \A v \in Threads : Duty(v)' = Duty(u)' => v = u
    <3>1. Duty(u)' = Duty(u) /\ Duty(u) # 0
      BY <1>7, <2>1
    <3>2. /\ bufs[Duty(u)].sealed /\ bufs[Duty(u)].writers = {} /\ Duty(u) \notin disk
          /\ ~Queued(Duty(u)) /\ \A v \in Threads : Duty(v) = Duty(u) => v = u
      BY <1>3, <3>1 DEF DutiesOK
    <3>3. ~Queued(Duty(u))' /\ Duty(u) # x.buf
      <4>1. Duty(u) # x.buf
        BY <1>5, <3>2
      <4>2. \A z \in tasks' : z.buf = Duty(u) => z.stage # "queued"
        BY <1>1, <1>2, <3>2 DEF Queued
      <4> QED
        BY <3>1, <4>1, <4>2 DEF Queued
    <3> QED
      BY <1>1, <1>7, <3>1, <3>2, <3>3
  <2>2. ASSUME NEW z \in tasks'
        PROVE  bufs'[z.buf].writers = {} /\ (z.stage = "queued" <=> z.buf \notin disk')
    BY <1>1, <1>2, <1>3, <1>5, <2>2 DEF DutiesOK
  <2>3. \A z, w \in tasks' : z.buf = w.buf => z = w
    BY SMTT(30), <1>1, <1>2, <1>3 DEF DutiesOK
  <2>4. \A i \in disk' : bufs'[i].writers = {}
    BY <1>1, <1>3, <1>5 DEF DutiesOK
  <2>5. ASSUME NEW i \in 1..Cur', bufs'[i].sealed, bufs'[i].writers = {}
        PROVE  error' \/ i \in disk' \/ Queued(i)' \/ \E u \in Threads : Duty(u)' = i
    <3>1. error \/ i \in disk \/ Queued(i) \/ \E u \in Threads : Duty(u) = i
      BY <1>1, <1>3, <1>4, <2>5 DEF DutiesOK
    <3> QED
      BY <1>1, <1>6, <1>7, <3>1
  <2> QED
    BY <2>1, <2>2, <2>3, <2>4, <2>5 DEF DutiesOK
<1>9. MarksOK'
  <2>1. StartLsn' = StartLsn
    BY <1>1 DEF StartLsn
  <2>2. SUFFICES ASSUME NEW lsn \in intervals.synced \cup (StartLsn..intervals.stable)
                 PROVE  \E i \in disk' : lsn \in Extent(bufs'[i]) /\ ~Unmarked(i)'
    BY <1>1, <2>1 DEF MarksOK
  <2>3. PICK i \in disk : lsn \in Extent(bufs[i]) /\ ~Unmarked(i)
    BY DEF LogInv, MarksOK
  <2>4. ~Unmarked(i)'
    BY <1>1, <1>2, <1>5, <2>3 DEF Unmarked
  <2> QED
    BY <1>1, <2>3, <2>4
<1>10. BatchesOK'
  BY <1>1, <1>4, StartStays DEF LogInv, BatchesOK, IInv
<1> QED
  BY <1>1, <1>8, <1>9, <1>10, TaskLog

\* A task that ends, or goes on to fail, is nobody's duty any more.
LEMMA TaskEnds ==
  ASSUME IInv, DutiesOK, NEW x \in tasks, UNCHANGED <<bufs, disk>>, error => error',
         x.stage = "queued" => error',
         \/ tasks' = tasks \ {x}
         \/ x.stage = "synced" /\ tasks' = (tasks \ {x}) \cup {[x EXCEPT !.stage = "failing"]},
         \A u \in Threads : Duty(u)' = Duty(u)
  PROVE  DutiesOK' /\ \A i : Unmarked(i)' => Unmarked(i) /\ (x.stage = "synced" => i # x.buf)
<1>1. x \in TaskType
  BY DEF IInv, SharedOK
<1>2. \A z \in tasks' : \/ z \in tasks /\ z # x
                        \/ x.stage = "synced" /\ z.buf = x.buf /\ z.stage = "failing"
  BY <1>1 DEF TaskType
<1>3. \A z, w \in tasks' : z.buf = w.buf => z = w
  BY SMTT(30), <1>2 DEF DutiesOK
<1>4. \A i : Queued(i)' => Queued(i)
  BY <1>2 DEF Queued
<1>5. \A i : Queued(i) => Queued(i)' \/ error'
  BY DEF Queued
<1>6. Cur' = Cur
  BY DEF Cur
<1>7. ASSUME NEW u \in Threads, Duty(u)' # 0
      PROVE  /\ bufs'[Duty(u)'].sealed /\ bufs'[Duty(u)'].writers = {}
             /\ Duty(u)' \notin disk' /\ ~Queued(Duty(u))'
             /\ \A v \in Threads : Duty(v)' = Duty(u)' => v = u
  <2>1. Duty(u)' = Duty(u) /\ Duty(u) # 0
    BY <1>7
  <2>2. /\ bufs[Duty(u)].sealed /\ bufs[Duty(u)].writers = {} /\ Duty(u) \notin disk
        /\ ~Queued(Duty(u)) /\ \A v \in Threads : Duty(v) = Duty(u) => v = u
    BY <2>1 DEF DutiesOK
  <2>3. ~Queued(Duty(u))'
    BY <1>2, <2>1, <2>2 DEF Queued
  <2> QED
    BY <2>1, <2>2, <2>3
<1>8. ASSUME NEW z \in tasks'
      PROVE  bufs'[z.buf].writers = {} /\ (z.stage = "queued" <=> z.buf \notin disk')
  BY <1>2, <1>8 DEF DutiesOK
<1>9. ASSUME NEW i \in 1..Cur, bufs[i].sealed, bufs[i].writers = {}
      PROVE  error' \/ i \in disk \/ Queued(i)' \/ \E u \in Threads : Duty(u)' = i
  <2>1. error \/ i \in disk \/ Queued(i) \/ \E u \in Threads : Duty(u) = i
    BY <1>9 DEF DutiesOK
  <2> QED
    BY <1>5, <2>1
<1>10. DutiesOK'
  BY <1>3, <1>6, <1>7, <1>8, <1>9 DEF DutiesOK
<1>11. ASSUME NEW i, Unmarked(i)' PROVE Unmarked(i) /\ (x.stage = "synced" => i # x.buf)
  <2>1. PICK z \in tasks' : z.buf = i /\ z.stage = "synced"
    BY <1>11 DEF Unmarked
  <2>2. z \in tasks /\ z # x
    BY <1>2, <2>1
  <2> QED
    BY <2>1, <2>2 DEF Unmarked, DutiesOK
<1> QED
  BY <1>10, <1>11

\* Folding a buffer into the intervals publishes over durable bytes only, and over
\* each batch in one piece.
LEMMA MarkIntervalLog ==
  ASSUME IInv, IInv', LogInv, NEW x \in tasks, mark_interval(x)
  PROVE  /\ LogInv'
         /\ stable_lsn <= stable_lsn' /\ stable_lsn' \in Int
         /\ \A b \in intervals.batches : stable_lsn' < b.low \/ stable_lsn' >= b.high
         /\ intervals'.batches = {b \in intervals.batches : b.high > stable_lsn'}
<1> DEFINE S == intervals.synced \cup Extent(bufs[x.buf])
           s == Contiguous(intervals.stable, S)
<1>1. /\ Wakes(pc') /\ UNCHANGED <<op, seen, res, peg, goal>>
      /\ UNCHANGED <<bufs, disk, max_reserved, error>> /\ x.stage = "synced"
  BY DEF mark_interval, Wakes
<1>2. \A u \in Threads : Duty(u)' = Duty(u)
  BY <1>1, DutiesStay
<1>3. DutiesOK' /\ \A i : Unmarked(i)' => Unmarked(i) /\ i # x.buf
  BY SMTT(30), <1>1, <1>2, TaskEnds DEF LogInv, mark_interval
<1>4. Frozen /\ Cur' = Cur /\ Tip' = Tip /\ StartLsn' = StartLsn /\ Tip \in Nat /\ StartLsn \in Nat
  BY <1>1, SameChain, Bounds DEF LogInv
<1>5. /\ intervals' = [stable |-> s, synced |-> {l \in S : l > s},
                       batches |-> {b \in intervals.batches : b.high > s}]
      /\ stable_lsn' = Published(s, intervals.batches, stable_lsn)
  BY DEF mark_interval, mark_fsync, MarkFsync
<1>6. /\ intervals.stable \in Int /\ intervals.synced \in SUBSET Nat
      /\ IsFiniteSet(intervals.synced) /\ stable_lsn \in Int /\ stable_lsn <= intervals.stable
      /\ intervals.batches \in SUBSET [low : Int, high : Int]
      /\ x.buf \in disk /\ x.buf \in 1..Cur
  <2>1. intervals.batches \in SUBSET [low : Nat, high : Lsn]
    BY DEF IInv, SharedOK, IntervalsType
  <2>2. intervals.batches \in SUBSET [low : Int, high : Int]
    BY SMTT(30), <2>1 DEF Lsn
  <2>3. x.buf \in disk /\ x.buf \in 1..Cur
    BY <1>1 DEF IInv, SharedOK, DiskOK
  <2> QED
    BY <2>2, <2>3, IntervalTypes
<1>7. S \in SUBSET Int /\ IsFiniteSet(S)
  <2>1. Extent(bufs[x.buf]) \subseteq Nat /\ IsFiniteSet(Extent(bufs[x.buf]))
    BY <1>6, CurType, ExtentType DEF IInv
  <2>2. IsFiniteSet(S)
    BY <1>6, <2>1, FS_Union
  <2> QED
    BY SMTT(30), <1>6, <2>1, <2>2
<1> HIDE DEF S
<1>8. s \in Int /\ s >= intervals.stable /\ (intervals.stable + 1)..s \subseteq S
  BY <1>6, <1>7, ContiguousIs
<1> HIDE DEF s
<1>9. /\ stable_lsn' \in Int /\ stable_lsn <= stable_lsn' /\ stable_lsn' <= s
      /\ \A b \in intervals.batches : \/ stable_lsn' < b.low /\ s < b.high
                                      \/ b.high <= stable_lsn' /\ b.high <= s
  <2>1. /\ \A b \in intervals.batches : b.low < b.high /\ stable_lsn < b.low
        /\ \A b, c \in intervals.batches : b # c => b.high < c.low \/ c.high < b.low
    BY DEF LogInv, BatchesOK
  <2>2. stable_lsn <= s
    BY SMTT(30), <1>6, <1>8
  <2> QED
    BY <1>5, <1>6, <1>8, <2>1, <2>2, PublishedKeeps
<1>10. \A b \in intervals.batches : b.low \in Int /\ b.high \in Int
  BY <1>6
<1>11. intervals'.batches = {b \in intervals.batches : b.high > stable_lsn'}
  <2>1. \A b \in intervals.batches : b.high > s <=> b.high > stable_lsn'
    BY SMTT(30), <1>8, <1>9, <1>10
  <2>2. intervals'.batches = {b \in intervals.batches : b.high > s}
    BY <1>5
  <2> QED
    BY <2>1, <2>2
<1>12. \A b \in intervals.batches : stable_lsn' < b.low \/ stable_lsn' >= b.high
  BY <1>9, <1>10
<1>13. MarksOK'
  <2>1. SUFFICES ASSUME NEW lsn \in intervals'.synced \cup (StartLsn..intervals'.stable)
                 PROVE  \E i \in disk : lsn \in Extent(bufs[i]) /\ ~Unmarked(i)'
    BY <1>1, <1>4 DEF MarksOK
  <2>2. \/ lsn \in intervals.synced \cup (StartLsn..intervals.stable)
        \/ lsn \in Extent(bufs[x.buf])
    <3>1. CASE lsn \in intervals'.synced
      BY <1>5, <3>1 DEF S
    <3>2. CASE lsn \in StartLsn..intervals'.stable
      <4>1. lsn \in StartLsn..s
        BY <1>5, <3>2
      <4>2. lsn \in StartLsn..intervals.stable \/ lsn \in (intervals.stable + 1)..s
        BY SMTT(30), <1>4, <1>6, <1>8, <4>1
      <4> QED
        BY <1>8, <4>2 DEF S
    <3> QED
      BY <2>1, <3>1, <3>2
  <2>3. CASE lsn \in Extent(bufs[x.buf])
    BY <1>3, <1>6, <2>3
  <2>4. CASE lsn \in intervals.synced \cup (StartLsn..intervals.stable)
    BY <1>3, <2>4 DEF LogInv, MarksOK
  <2> QED
    BY <2>2, <2>3, <2>4
<1>14. BatchesOK'
  <2>1. \A b \in intervals'.batches : b \in intervals.batches /\ stable_lsn' < b.low
    BY SMTT(30), <1>9, <1>10, <1>11
  <2>2. StartLsn - 1 <= stable_lsn'
    BY SMTT(30), <1>4, <1>6, <1>9 DEF LogInv, BatchesOK
  <2> QED
    BY <1>1, <1>4, <2>1, <2>2 DEF LogInv, BatchesOK
<1>15. LogInv'
  BY <1>1, <1>3, <1>11, <1>13, <1>14, TaskLog
<1> QED
  BY <1>9, <1>11, <1>12, <1>15

\* A failing task.
LEMMA TaskErrorLog ==
  ASSUME IInv, IInv', LogInv, NEW x \in tasks, TaskError(x)
  PROVE  LogInv'
<1>1. /\ Wakes(pc') /\ UNCHANGED <<op, seen, res, peg, goal>>
      /\ UNCHANGED <<bufs, disk, intervals, stable_lsn, max_reserved>>
      /\ tasks' = tasks \ {x} /\ error'
  BY DEF TaskError, Wakes
<1>2. \A u \in Threads : Duty(u)' = Duty(u)
  BY <1>1, DutiesStay
<1>3. DutiesOK'
  BY <1>1, <1>2, TaskEnds DEF LogInv
<1>4. Frozen /\ Cur' = Cur /\ Tip' = Tip
  BY <1>1, SameChain
<1>5. MarksOK'
  BY <1>1, <1>4, MarksFrame DEF LogInv
<1>6. BatchesOK'
  BY <1>1, <1>4, StartStays DEF LogInv, BatchesOK, IInv
<1> QED
  BY <1>1, <1>3, <1>5, <1>6, TaskLog
----------------------------------------------------------------------------
(* Steps of DurableLog.                                                    *)

\* Sealed buffers keep their extent, so what is durable changes with the disk only.
LEMMA DurableStays ==
  ASSUME IInv, Frozen, disk' = disk
  PROVE  Durable' = Durable
<1>1. \A i \in disk : Extent(bufs'[i]) = Extent(bufs[i])
  BY DEF IInv, SharedOK, DiskOK, Frozen, Extent, End
<1> QED
  BY <1>1 DEF Durable

\* A step that neither writes a buffer nor touches the intervals extends the log or
\* is invisible.
LEMMA OtherStepsExtend ==
  ASSUME IInv, IInv', LogInv, LogInv', Frozen, UNCHANGED <<disk, intervals, stable_lsn>>, Tip <= Tip'
  PROVE  [Log!Next]_(Log!logVars)
<1>1. Durable' = Durable /\ Tip \in Nat
  BY DurableStays, Bounds DEF LogInv
<1>2. CASE Tip' = Tip
  BY <1>1, <1>2 DEF Log!logVars, Tip
<1>3. CASE Tip' # Tip
  <2>1. Tip' > Tip
    BY SMTT(30), <1>1, <1>3, NextTypes
  <2> QED
    BY <1>1, <2>1 DEF Log!Next, Log!Extend, Tip
<1> QED
  BY <1>2, <1>3

\* Writing a buffer makes its bytes durable, all of them reserved before.
LEMMA WritePersists ==
  ASSUME IInv, IInv', LogInv, LogInv', NEW x \in tasks, write_to_log(x)
  PROVE  [Log!Next]_(Log!logVars)
<1>1. /\ UNCHANGED <<bufs, intervals, stable_lsn>> /\ disk' = disk \cup {x.buf}
  BY DEF write_to_log
<1>2. Durable \subseteq Durable'
  BY <1>1 DEF Durable
<1>3. Tip' = Tip /\ End(bufs'[Cur']) = End(bufs[Cur])
  BY <1>1, SameChain DEF Tip
<1>4. \A lsn \in Durable' : lsn < Tip
  <2>1. ASSUME NEW lsn \in Durable' PROVE lsn < Tip
    <3>1. PICK i \in disk' : lsn \in Extent(bufs[i])
      BY <1>1, <2>1 DEF Durable
    <3>2. i \in 1..Cur
      BY <1>1, <3>1 DEF IInv, SharedOK, DiskOK
    <3>3. /\ bufs[i].lsn \in Nat /\ End(bufs[i]) \in Nat /\ End(bufs[i]) <= Tip /\ Tip \in Nat
      BY <3>2, BufEnds, WithinLog DEF LogInv, BufType
    <3> QED
      BY SMTT(30), <3>1, <3>3 DEF Extent
  <2> QED
    BY <2>1
<1>5. CASE Durable' = Durable
  BY <1>1, <1>3, <1>5 DEF Log!logVars
<1>6. CASE Durable' # Durable
  BY <1>1, <1>2, <1>3, <1>4, <1>6 DEF Log!Next, Log!Persist, Tip
<1> QED
  BY <1>5, <1>6

\* Recording a batch declares it.
LEMMA MarkWritebatchDeclares ==
  ASSUME IInv, IInv', LogInv, NEW t \in Threads, mark_writebatch(t)
  PROVE  [Log!Next]_(Log!logVars)
<1> DEFINE b == [low |-> peg[t].lsn, high |-> goal[t]]
<1>1. /\ intervals' = [intervals EXCEPT !.batches = @ \cup {b}]
      /\ stable_lsn < b.low /\ b.low < b.high /\ b.high < Tip
  BY MarkWritebatchLog
<1>2. intervals'.batches = intervals.batches \cup {b}
  BY <1>1 DEF IInv, SharedOK, IntervalsType
<1>3. UNCHANGED <<bufs, disk, stable_lsn>>
  BY DEF mark_writebatch
<1>4. Durable' = Durable /\ End(bufs'[Cur']) = End(bufs[Cur])
  BY <1>3 DEF Durable, Cur
<1>5. stable_lsn \in Int /\ b.low \in Int
  <2>1. peg[t] # None
    BY DEF mark_writebatch, IInv, LocalsOK, ThreadOK, Place, Batching
  <2> QED
    BY SMTT(30), <2>1, IntervalTypes DEF IInv, LocalsOK, ResType
<1> HIDE DEF b
<1>6. b.low > stable_lsn
  BY <1>1, <1>5
<1> QED
  BY <1>1, <1>2, <1>3, <1>4, <1>6 DEF Log!Next, Log!Declare, Tip
============================================================================
