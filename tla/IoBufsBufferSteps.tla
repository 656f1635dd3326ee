------------------------- MODULE IoBufsBufferSteps -------------------------
(***************************************************************************)
(* The steps of IoBufs that change the header of a buffer, or add a        *)
(* buffer, preserve the second invariant.                                  *)
(***************************************************************************)
EXTENDS IoBufsFrames
USE ZenonT(30)

(* The header of the current buffer.                                       *)

\* Only the current buffer is open, so the chain stays one if that buffer does.
LEMMA ChainFrame ==
  ASSUME IInv, Frozen, Chain, Cur' = Cur,
         ~bufs'[Cur].sealed => ~bufs'[Cur].maxed,
         bufs'[Cur].sealed /\ ~bufs'[Cur].maxed =>
            bufs'[Cur].capacity - bufs'[Cur].offset >= MaxMsgHeaderLen
  PROVE  Chain'
<1>1. Cur \in Nat \ {0}
  BY CurType DEF IInv
<1>2. ASSUME NEW i \in 1..Cur, i # Cur
      PROVE  /\ bufs[i].sealed /\ bufs'[i].sealed /\ bufs'[i].lsn = bufs[i].lsn
             /\ bufs'[i].capacity = bufs[i].capacity /\ bufs'[i].offset = bufs[i].offset
             /\ bufs'[i].maxed = bufs[i].maxed /\ End(bufs'[i]) = End(bufs[i])
  <2>1. bufs[i].sealed
    BY SMTT(30), <1>1, <1>2 DEF Chain
  <2> QED
    BY <2>1 DEF Frozen, End
<1>3. \A i \in 1..Cur : /\ bufs'[i].lsn = bufs[i].lsn
                        /\ bufs'[i].capacity = bufs[i].capacity
  BY DEF Frozen
<1>4. ASSUME NEW i \in 1..Cur, NEW j \in 1..Cur, i < j
      PROVE  bufs'[i].sealed /\ End(bufs'[i]) <= bufs'[j].lsn
  <2>1. i # Cur
    BY SMTT(30), <1>1, <1>4
  <2> QED
    BY <1>2, <1>3, <1>4, <2>1 DEF Chain
<1>5. ASSUME NEW i \in 1..Cur
      PROVE  /\ ~bufs'[i].sealed => ~bufs'[i].maxed
             /\ bufs'[i].lsn + bufs'[i].capacity = NextSegment(bufs'[i].lsn)
             /\ bufs'[i].sealed /\ ~bufs'[i].maxed =>
                    bufs'[i].capacity - bufs'[i].offset >= MaxMsgHeaderLen
  <2>1. bufs'[i].lsn + bufs'[i].capacity = NextSegment(bufs'[i].lsn)
    BY <1>3 DEF Chain
  <2>2. CASE i = Cur
    BY <2>1, <2>2
  <2>3. CASE i # Cur
    BY <1>2, <2>1, <2>3 DEF Chain
  <2> QED
    BY <2>2, <2>3
<1> QED
  BY <1>4, <1>5 DEF Chain

\* An open buffer is the current one, and ends the log.
LEMMA OpenIsCurrent ==
  ASSUME IInv, Chain, NEW i \in 1..Cur, ~bufs[i].sealed
  PROVE  i = Cur /\ ~bufs[i].maxed /\ Tip = bufs[i].lsn + bufs[i].offset
<1>1. Cur \in Nat \ {0} /\ Cur \in 1..Cur
  BY SMTT(30), CurType DEF IInv
<1>2. i = Cur
  BY SMTT(30), <1>1 DEF Chain
<1>3. ~bufs[i].maxed
  BY DEF Chain
<1> QED
  BY <1>2, <1>3 DEF Tip, End

\* Replacing a buffer changes no other one.
LEMMA ReplaceBuf ==
  ASSUME SharedOK, NEW i \in 1..Cur, NEW x, bufs' = [bufs EXCEPT ![i] = x]
  PROVE  /\ Cur' = Cur /\ Cur \in 1..Cur /\ bufs'[i] = x
         /\ \A j \in 1..Cur : j # i => bufs'[j] = bufs[j]
BY SMTT(30) DEF SharedOK, Cur

\* A claim takes the bytes at the end of the log, which nobody holds.
LEMMA ClaimLog ==
  ASSUME IInv, IInv', Frozen, LogInv, NEW t \in Threads, ReserveClaim(t)
  PROVE  LogInv' /\ Tip <= Tip'
<1> DEFINE i == seen[t].buf
           b == bufs[i]
           len == res[t].len
           lsn == b.lsn + seen[t].header.offset
<1>1. /\ pc[t] = "claim" /\ i \in 1..Cur /\ b \in BufType
      /\ seen[t] \in SeenType /\ ~seen[t].header.sealed /\ res[t] \in ResType
      /\ b.capacity - seen[t].header.offset >= MaxMsgHeaderLen
  <2>1. pc[t] = "claim"
    BY DEF ReserveClaim, ClaimIf
  <2> QED
    BY <2>1, CurType
       DEF IInv, LocalsOK, ThreadOK, HandoverOK, Place, Reserving, LogInv, SealerOK
<1>2. len \in Nat /\ len > 1
  BY <1>1, NoneAssumption DEF LogInv, SealerOK, ResType
<1>3. \A u \in Threads \ {t} : Bystander(u)
  BY OthersStandBy DEF Step
<1>4. SealerOK(t) /\ BatchOK(t) /\ max_reserved \in Int /\ max_reserved < Tip /\ Tip \in Nat
  BY Bounds DEF LogInv, BatchesOK, IInv, SharedOK, Lsn
<1>5. /\ op' = op /\ peg' = peg /\ goal' = goal /\ seen'[t] = None
      /\ UNCHANGED <<tasks, disk, intervals, stable_lsn, max_reserved, error>>
  BY DEF ReserveClaim, ClaimIf, IInv, LocalsOK
<1>6. op'[t] = "batch" => \A u \in Threads \ {t} : op[u] # "batch"
  BY <1>5 DEF LogInv, AloneOK
<1>7. CASE Header(i) # seen[t].header
  <2>1. pc'[t] = "reserve" /\ bufs' = bufs /\ res' = res
    BY <1>7 DEF ReserveClaim, ClaimIf, IInv, LocalsOK
  <2>2. Duty(t) = 0
    BY <1>1 DEF Duty
  <2> QED
    BY SMTT(30), <1>1, <1>2, <1>3, <1>4, <1>5, <2>1, <2>2, GotoQuiet, SameChain
<1>8. CASE Header(i) = seen[t].header
  <2>1. /\ bufs' = [bufs EXCEPT ![i] = [b EXCEPT !.offset = b.offset + len,
                                                 !.writers = b.writers \cup {lsn}]]
        /\ res'[t] = [buf |-> i, lsn |-> lsn, len |-> len] /\ pc'[t] = "bump"
    BY <1>8 DEF ReserveClaim, ClaimIf, IInv, LocalsOK
  <2>2. seen[t].header.offset = b.offset /\ ~b.sealed
    BY SMTT(30), <1>1, <1>8 DEF Header, BufType
  <2>3. i = Cur /\ ~b.maxed /\ Tip = lsn
    BY <1>1, <2>2, OpenIsCurrent DEF LogInv
  <2>4. /\ Cur' = Cur /\ Cur \in 1..Cur /\ \A j \in 1..Cur : j # i => bufs'[j] = bufs[j]
        /\ bufs'[i].lsn = b.lsn /\ bufs'[i].capacity = b.capacity
        /\ bufs'[i].offset = b.offset + len /\ bufs'[i].writers = b.writers \cup {lsn}
        /\ bufs'[i].sealed = b.sealed /\ bufs'[i].maxed = b.maxed
    <3> DEFINE x == [b EXCEPT !.offset = b.offset + len, !.writers = b.writers \cup {lsn}]
    <3>1. /\ x.lsn = b.lsn /\ x.capacity = b.capacity /\ x.offset = b.offset + len
          /\ x.writers = b.writers \cup {lsn} /\ x.sealed = b.sealed /\ x.maxed = b.maxed
      BY <1>1 DEF BufType
    <3>2. bufs' = [bufs EXCEPT ![i] = x]
      BY <2>1
    <3> HIDE DEF x, i, b, lsn, len
    <3>3. /\ Cur' = Cur /\ Cur \in 1..Cur /\ bufs'[i] = x
          /\ \A j \in 1..Cur : j # i => bufs'[j] = bufs[j]
      BY <1>1, <3>2, ReplaceBuf DEF IInv
    <3> QED
      BY <3>1, <3>3
  <2>5. lsn \in Nat /\ b.lsn \in Nat /\ b.offset \in Nat /\ b.capacity \in Nat /\ i \in Nat
    BY SMTT(30), <1>1, <2>2, CurType DEF BufType, IInv
  <2> HIDE DEF b, len, i
  <2>6. Chain' /\ Tip' = lsn + len /\ Tip <= Tip'
    <3>1. Chain'
      BY <2>2, <2>3, <2>4, ChainFrame DEF LogInv
    <3>2. Tip' = lsn + len
      BY SMTT(30), <2>2, <2>3, <2>4, <2>5, <1>2 DEF Tip, End
    <3> QED
      BY SMTT(30), <1>2, <2>3, <2>5, <3>1, <3>2
  <2>7. PICK r \in ResType : r = res'[t] /\ r.buf = i /\ r.lsn = lsn /\ r.len = len
    BY SMTT(30), <1>2, <2>1, <2>5 DEF ResType
  <2>8. /\ Claimed(t)' = {r} /\ Pegged(t)' = Pegged(t) /\ HeldBy(t) = Pegged(t)
        /\ Duty(t)' = 0 /\ Duty(t) = 0
    BY <1>1, <1>5, <2>1, <2>7 DEF HeldBy, Claimed, Pegged, Duty
  <2>9. \A u \in Threads \ {t} : HeldBy(u)' = HeldBy(u) /\ Claimed(u)' = Claimed(u)
                                 /\ Pegged(u)' = Pegged(u) /\ Duty(u)' = Duty(u)
    BY <1>3, BystanderKeeps
  <2>10. HeldBy(t)' = HeldBy(t) \cup {r}
    BY <2>8 DEF HeldBy
  <2>11. ASSUME NEW u \in Threads, NEW s \in HeldBy(u)
         PROVE  Inside(s)' /\ Apart(s, r) /\ Apart(r, s)
    <3>1. /\ Inside(s) /\ s.buf \in 1..Cur /\ s.lsn \in Nat /\ s.len \in Nat
          /\ s.lsn + s.len <= Tip
      BY <2>11, HeldLong
    <3>2. bufs[s.buf] \in BufType
      BY <3>1, CurType DEF IInv
    <3>3. s.lsn \in bufs'[s.buf].writers /\ bufs'[s.buf].offset >= bufs[s.buf].offset
      BY SMTT(30), <1>2, <2>4, <2>5, <3>1, <3>2 DEF Inside, BufType, b
    <3>4. Inside(s)'
      BY <3>1, <3>3, InsideStays
    <3> QED
      BY <1>2, <2>3, <2>5, <2>7, <3>1, <3>4 DEF Apart
  <2>12. Inside(r)'
    <3>1. lsn = b.lsn + b.offset /\ b.capacity - b.offset >= MaxMsgHeaderLen
      BY <1>1, <2>2
    <3>2. i \in 1..Cur' /\ lsn \in bufs'[i].writers /\ bufs'[i].lsn <= lsn
      BY SMTT(30), <2>3, <2>4, <2>5, <3>1
    <3>3. /\ lsn + len <= bufs'[i].lsn + bufs'[i].offset
          /\ bufs'[i].lsn + bufs'[i].capacity - lsn >= MaxMsgHeaderLen
      BY SMTT(30), <1>2, <2>4, <2>5, <3>1, SizeAssumption
    <3> HIDE DEF lsn
    <3> QED
      BY <2>7, <3>2, <3>3 DEF Inside
  <2>13. HeldOK'
    <3>1. ASSUME NEW u \in Threads, NEW s \in HeldBy(u)' PROVE Inside(s)'
      <4>1. CASE s \in HeldBy(u)
        BY <2>11, <4>1
      <4>2. CASE s = r
        BY <2>12, <4>2
      <4> QED
        BY <2>9, <2>10, <3>1, <4>1, <4>2
    <3>2. ASSUME NEW u \in Threads, NEW v \in Threads, u # v,
                 NEW q \in HeldBy(u)', NEW s \in HeldBy(v)'
          PROVE  Apart(q, s)
      <4>1. q \in HeldBy(u) /\ s \in HeldBy(v) => Apart(q, s)
        BY <3>2 DEF LogInv, HeldOK
      <4> QED
        BY <2>9, <2>10, <2>11, <3>2, <4>1
    <3>3. ASSUME NEW u \in Threads, NEW q \in Claimed(u)', NEW s \in Pegged(u)'
          PROVE  Apart(q, s)
      <4>1. CASE u = t
        BY <2>8, <2>11, <3>3, <4>1
      <4>2. CASE u # t
        BY <2>9, <3>3, <4>2 DEF LogInv, HeldOK
      <4> QED
        BY <4>1, <4>2
    <3>4. HeapErrors \/ Counted'
      <4>1. SUFFICES ASSUME ~HeapErrors, NEW j \in 1..Cur', NEW l \in bufs'[j].writers
                     PROVE  \E u \in Threads : \E s \in HeldBy(u)' : s.buf = j /\ s.lsn = l
        BY DEF Counted
      <4>2. CASE j = i /\ l = lsn
        BY <2>7, <2>10, <4>2
      <4>3. CASE ~(j = i /\ l = lsn)
        <5>1. j \in 1..Cur /\ l \in bufs[j].writers
          BY <2>4, <4>1, <4>3 DEF b
        <5>2. \E u \in Threads : \E s \in HeldBy(u) : s.buf = j /\ s.lsn = l
          BY SMTT(30), <4>1, <5>1 DEF LogInv, HeldOK, Counted
        <5> QED
          BY <2>9, <2>10, <5>2
      <4> QED
        BY <4>2, <4>3
    <3> QED
      BY <3>1, <3>2, <3>3, <3>4 DEF HeldOK, Apart
  <2>14. DutiesOK'
    <3>1. \A u \in Threads : Duty(u)' = Duty(u)
      BY <2>8, <2>9
    <3>2. /\ \A j \in 1..Cur : bufs[j].sealed => bufs'[j].writers = bufs[j].writers
          /\ \A j \in 1..Cur' : bufs'[j].sealed => j \in 1..Cur /\ bufs[j].sealed
      BY <2>2, <2>4 DEF b
    <3> QED
      BY <1>5, <3>1, <3>2, DutiesFrame DEF LogInv
  <2>15. SealerOK(t)'
    BY <1>2, <1>4, <1>5, <2>1, <2>7 DEF SealerOK
  <2>16. BatchOK(t)'
    <3>1. \A c \in intervals.batches : c.high < lsn
      BY <2>3 DEF LogInv, BatchesOK
    <3> QED
      BY <1>4, <1>5, <2>1, <2>7, <3>1 DEF BatchOK
  <2>17. /\ max_reserved <= max_reserved' /\ max_reserved' < Tip'
         /\ (\A x \in tasks' : x.stage = "synced" => x \in tasks) /\ pc'[t] # "seal_swap"
    BY SMTT(30), <1>2, <1>4, <1>5, <2>1, <2>3, <2>5, <2>6
  <2> QED
    BY <1>3, <1>5, <1>6, <2>4, <2>6, <2>13, <2>14, <2>15, <2>16, <2>17, LogStep
<1> QED
  BY <1>7, <1>8
----------------------------------------------------------------------------
(* Leaving and sealing a buffer.                                           *)

\* A buffer that thread t seals, or leaves sealed, and that is then empty becomes the
\* duty of t; nobody had to write it before.
LEMMA BecomesDuty ==
  ASSUME IInv, DutiesOK, NEW t \in Threads, NEW i \in 1..Cur, Cur' = Cur,
         ~bufs[i].sealed \/ bufs[i].writers # {},
         \A j \in 1..Cur : j # i => bufs'[j] = bufs[j],
         UNCHANGED <<tasks, disk, error>>, \A u \in Threads \ {t} : Duty(u)' = Duty(u),
         Duty(t) = 0,
         Duty(t)' = IF bufs'[i].sealed /\ bufs'[i].writers = {} THEN i ELSE 0
  PROVE  DutiesOK'
<1>1. /\ \A u \in Threads : Duty(u) # i /\ (Duty(u) # 0 => Duty(u) \in 1..Cur)
      /\ \A x \in tasks : x.buf # i /\ x.buf \in 1..Cur
      /\ i \notin disk /\ disk \subseteq 1..Cur
  <2>1. i # 0
    BY SMTT(30), CurType DEF IInv
  <2>2. \A u \in Threads : Duty(u) # 0 => Duty(u) \in 1..Cur
    BY DEF Duty, IInv, LocalsOK, ThreadOK
  <2> QED
    BY <2>1, <2>2 DEF DutiesOK, DiskOK, IInv, SharedOK
<1>2. ~Queued(i) /\ \A j : Queued(j)' <=> Queued(j)
  BY <1>1 DEF Queued
<1>3. ASSUME NEW u \in Threads, Duty(u)' # 0
      PROVE  /\ bufs'[Duty(u)'].sealed /\ bufs'[Duty(u)'].writers = {}
             /\ Duty(u)' \notin disk' /\ ~Queued(Duty(u))'
             /\ \A v \in Threads : Duty(v)' = Duty(u)' => v = u
  <2>1. CASE u = t
    <3>1. Duty(u)' = i /\ bufs'[i].sealed /\ bufs'[i].writers = {}
      BY <1>3, <2>1
    <3>2. ~Queued(Duty(u))'
      BY <1>2, <3>1 DEF Queued
    <3> QED
      BY <1>1, <2>1, <3>1, <3>2
  <2>2. CASE u # t
    <3>1. Duty(u)' = Duty(u) /\ Duty(u) # i /\ Duty(u) \in 1..Cur /\ Duty(u) # 0
      BY <1>1, <1>3, <2>2
    <3>2. /\ bufs[Duty(u)].sealed /\ bufs[Duty(u)].writers = {} /\ Duty(u) \notin disk
          /\ ~Queued(Duty(u)) /\ \A v \in Threads : Duty(v) = Duty(u) => v = u
      BY <3>1 DEF DutiesOK
    <3>3. ~Queued(Duty(u))'
      BY <3>1, <3>2 DEF Queued
    <3> QED
      BY <3>1, <3>2, <3>3
  <2> QED
    BY <2>1, <2>2
<1>4. ASSUME NEW j \in 1..Cur', bufs'[j].sealed, bufs'[j].writers = {}
      PROVE  error' \/ j \in disk' \/ Queued(j)' \/ \E u \in Threads : Duty(u)' = j
  <2>1. CASE j = i
    BY <1>4, <2>1
  <2>2. CASE j # i
    <3>1. bufs[j].sealed /\ bufs[j].writers = {} /\ j \in 1..Cur /\ j # 0
      BY SMTT(30), <1>4, <2>2, CurType DEF IInv
    <3>2. error \/ j \in disk \/ Queued(j) \/ \E u \in Threads : Duty(u) = j
      BY <3>1 DEF DutiesOK
    <3> QED
      BY <1>2, <3>1, <3>2
  <2> QED
    BY <2>1, <2>2
<1>5. /\ \A x \in tasks' : bufs'[x.buf].writers = {} /\ (x.stage = "queued" <=> x.buf \notin disk')
      /\ \A x, y \in tasks' : x.buf = y.buf => x = y
      /\ \A j \in disk' : bufs'[j].writers = {}
  BY <1>1 DEF DutiesOK
<1> QED
  BY <1>3, <1>4, <1>5 DEF DutiesOK

\* Leaving a buffer: the bytes are given up, and the last writer out of a sealed
\* buffer is the one who has to have it written.
LEMMA ExitLog ==
  ASSUME IInv, IInv', Frozen, LogInv, NEW t \in Threads, exit_reservation(t)
  PROVE  LogInv' /\ Tip <= Tip'
<1> DEFINE r == res[t]
           i == r.buf
           left == bufs[i].writers \ {r.lsn}
<1>1. pc[t] = "exit" /\ r \in HeldBy(t) /\ Claimed(t) = {r} /\ Duty(t) = 0
  BY DEF exit_reservation, Leave, HeldBy, Claimed, Duty
<1>2. /\ Inside(r) /\ i \in 1..Cur /\ r.lsn \in Nat /\ r.len \in Nat /\ r.len > 1
      /\ r.lsn \in bufs[i].writers /\ bufs[i] \in BufType
  <2>1. Inside(r) /\ i \in 1..Cur /\ r.lsn \in Nat /\ r.len \in Nat /\ r.len > 1
    BY <1>1, HeldLong
  <2> QED
    BY <2>1, CurType DEF Inside, IInv
<1>3. \A u \in Threads \ {t} : Bystander(u)
  BY OthersStandBy DEF Step
<1>4. SealerOK(t) /\ BatchOK(t) /\ max_reserved \in Int /\ max_reserved < Tip /\ Tip \in Nat
  BY Bounds DEF LogInv, BatchesOK, IInv, SharedOK, Lsn
<1>5. /\ bufs' = [bufs EXCEPT ![i] = [bufs[i] EXCEPT !.writers = left]]
      /\ UNCHANGED <<tasks, disk, intervals, stable_lsn, max_reserved, error>>
  BY DEF exit_reservation, Leave
<1>6. /\ Cur' = Cur /\ Cur \in 1..Cur /\ \A j \in 1..Cur : j # i => bufs'[j] = bufs[j]
      /\ bufs'[i].lsn = bufs[i].lsn /\ bufs'[i].capacity = bufs[i].capacity
      /\ bufs'[i].offset = bufs[i].offset /\ bufs'[i].writers = left
      /\ bufs'[i].sealed = bufs[i].sealed /\ bufs'[i].maxed = bufs[i].maxed
  <2> DEFINE x == [bufs[i] EXCEPT !.writers = left]
  <2>1. /\ x.lsn = bufs[i].lsn /\ x.capacity = bufs[i].capacity /\ x.offset = bufs[i].offset
        /\ x.writers = left /\ x.sealed = bufs[i].sealed /\ x.maxed = bufs[i].maxed
    BY <1>2 DEF BufType
  <2>2. bufs' = [bufs EXCEPT ![i] = x]
    BY <1>5
  <2> HIDE DEF x, i, left
  <2>3. /\ Cur' = Cur /\ Cur \in 1..Cur /\ bufs'[i] = x
        /\ \A j \in 1..Cur : j # i => bufs'[j] = bufs[j]
    BY <1>2, <2>2, ReplaceBuf DEF IInv
  <2> QED
    BY <2>1, <2>3
<1>7. /\ HeldBy(t)' = Pegged(t) /\ (\A q \in Claimed(t)', s \in Pegged(t)' : Apart(q, s))
      /\ Duty(t)' = (IF left = {} /\ bufs[i].sealed THEN i ELSE 0)
      /\ SealerOK(t)' /\ BatchOK(t)' /\ pc'[t] # "seal_swap" /\ op'[t] \in {op[t], "none"}
  <2>1. CASE left = {} /\ bufs[i].sealed
    <3>1. pc'[t] = "exit_spawn" /\ UNCHANGED <<op, seen, res, peg, goal>>
      BY <2>1 DEF exit_reservation, Leave, IInv, LocalsOK
    <3>2. HeldBy(t)' = Pegged(t) /\ Claimed(t)' = {} /\ Duty(t)' = i
      BY <3>1 DEF HeldBy, Claimed, Pegged, Duty
    <3>3. SealerOK(t)' /\ BatchOK(t)'
      BY <1>4, <1>5, <3>1 DEF SealerOK, BatchOK
    <3> QED
      BY <2>1, <3>1, <3>2, <3>3
  <2>2. CASE ~(left = {} /\ bufs[i].sealed)
    <3>1. ReturnOk(t, pc)
      BY <2>2 DEF exit_reservation, Leave
    <3> QED
      BY SMTT(30), <1>4, <1>5, <2>2, <3>1, WakesPc, ReturnOwn
  <2> QED
    BY <2>1, <2>2
<1> HIDE DEF r, i, left
<1>8. \A u \in Threads \ {t} : HeldBy(u)' = HeldBy(u) /\ Claimed(u)' = Claimed(u)
                               /\ Pegged(u)' = Pegged(u) /\ Duty(u)' = Duty(u)
  BY <1>3, BystanderKeeps
<1>9. Chain' /\ Tip' = Tip
  <2>1. Chain'
    <3>1. /\ ~bufs'[Cur].sealed => ~bufs'[Cur].maxed
          /\ bufs'[Cur].sealed /\ ~bufs'[Cur].maxed =>
                bufs'[Cur].capacity - bufs'[Cur].offset >= MaxMsgHeaderLen
      BY <1>6 DEF LogInv, Chain
    <3> QED
      BY <1>6, <3>1, ChainFrame DEF LogInv
  <2>2. Tip' = Tip
    BY <1>6 DEF Tip, End
  <2> QED
    BY <2>1, <2>2
<1>10. ASSUME NEW u \in Threads, NEW s \in HeldBy(u), u # t \/ s \in Pegged(t)
       PROVE  Inside(s)' /\ (s.buf = i => s.lsn # r.lsn)
  <2>1. Inside(s) /\ s.buf \in 1..Cur /\ s.lsn \in Nat /\ s.len \in Nat /\ s.len > 1
    BY <1>10, HeldLong
  <2>2. Apart(r, s)
    BY <1>1, <1>10 DEF LogInv, HeldOK
  <2>3. s.lsn # r.lsn
    BY SMTT(30), <1>2, <2>1, <2>2 DEF Apart
  <2>4. s.lsn \in bufs'[s.buf].writers /\ bufs'[s.buf].offset >= bufs[s.buf].offset
    <3>1. bufs[s.buf].offset \in Nat
      BY <2>1, CurType DEF IInv, BufType
    <3>2. s.lsn \in bufs[s.buf].writers
      BY <2>1 DEF Inside
    <3> QED
      BY SMTT(30), <1>6, <2>1, <2>3, <3>1, <3>2 DEF left
  <2> QED
    BY <2>1, <2>3, <2>4, InsideStays
<1>11. HeldOK'
  <2>1. \A u \in Threads : HeldBy(u)' \subseteq HeldBy(u)
    BY <1>7, <1>8 DEF HeldBy
  <2>2. ASSUME NEW u \in Threads, NEW s \in HeldBy(u)' PROVE Inside(s)'
    BY <1>7, <1>10, <2>1, <2>2
  <2>3. ASSUME NEW u \in Threads, NEW v \in Threads, u # v,
               NEW q \in HeldBy(u)', NEW s \in HeldBy(v)'
        PROVE  Apart(q, s)
    BY <2>1, <2>3 DEF LogInv, HeldOK
  <2>4. ASSUME NEW u \in Threads, NEW q \in Claimed(u)', NEW s \in Pegged(u)'
        PROVE  Apart(q, s)
    <3>1. CASE u = t
      BY <1>7, <2>4, <3>1
    <3>2. CASE u # t
      BY <1>8, <2>4, <3>2 DEF LogInv, HeldOK
    <3> QED
      BY <3>1, <3>2
  <2>5. HeapErrors \/ Counted'
    <3>1. SUFFICES ASSUME ~HeapErrors, NEW j \in 1..Cur', NEW l \in bufs'[j].writers
                   PROVE  \E u \in Threads : \E s \in HeldBy(u)' : s.buf = j /\ s.lsn = l
      BY DEF Counted
    <3>2. j \in 1..Cur /\ l \in bufs[j].writers /\ (j = i => l # r.lsn)
      BY <1>6, <3>1 DEF left
    <3>3. PICK u \in Threads : \E s \in HeldBy(u) : s.buf = j /\ s.lsn = l
      BY SMTT(30), <3>1, <3>2 DEF LogInv, HeldOK, Counted
    <3>4. PICK s \in HeldBy(u) : s.buf = j /\ s.lsn = l
      BY <3>3
    <3>5. u = t => s \in Pegged(t)
      BY <1>1, <3>2, <3>4 DEF HeldBy, i
    <3> QED
      BY <1>7, <1>8, <3>4, <3>5
  <2> QED
    BY <2>2, <2>3, <2>4, <2>5 DEF HeldOK, Apart
<1>12. DutiesOK'
  BY SMTT(30), <1>1, <1>2, <1>5, <1>6, <1>7, <1>8, BecomesDuty DEF LogInv
<1>13. op'[t] = "batch" => \A u \in Threads \ {t} : op[u] # "batch"
  BY <1>7 DEF LogInv, AloneOK
<1>14. Tip <= Tip' /\ max_reserved <= max_reserved' /\ max_reserved' < Tip'
  BY SMTT(30), <1>4, <1>5, <1>9
<1> QED
  BY <1>3, <1>5, <1>6, <1>7, <1>9, <1>11, <1>12, <1>13, <1>14, LogStep

\* Losing the race to seal a buffer.
LEMMA SealLostLog ==
  ASSUME IInv, IInv', LogInv, NEW t \in Threads, SealCas(t), bufs' = bufs, SealReturn(t, pc)
  PROVE  LogInv'
<1>1. /\ pc[t] = "seal_cas"
      /\ UNCHANGED <<bufs, tasks, disk, intervals, stable_lsn, max_reserved, error>>
  BY DEF SealCas
<1>2. SealerOK(t) /\ BatchOK(t) /\ max_reserved \in Int /\ max_reserved < Tip
  BY IntervalTypes DEF LogInv, BatchesOK
<1>3. /\ HeldBy(t)' = HeldBy(t) /\ (\A r \in Claimed(t)', s \in Pegged(t)' : Apart(r, s))
      /\ Duty(t)' = 0 /\ SealerOK(t)' /\ BatchOK(t)'
      /\ pc'[t] # "seal_swap" /\ op'[t] \in {op[t], "none"}
  BY <1>1, <1>2, WakesPc, SealReturnOwn
<1>4. Duty(t) = 0 /\ \A u \in Threads \ {t} : Bystander(u)
  BY <1>1, OthersStandBy DEF Duty, Step
<1>5. op'[t] = "batch" => \A u \in Threads \ {t} : op[u] # "batch"
  BY <1>3 DEF LogInv, AloneOK
<1>6. max_reserved <= max_reserved' /\ max_reserved' < Tip
  BY SMTT(30), <1>1, <1>2
<1>7. HeldBy(t)' \subseteq HeldBy(t) /\ Duty(t)' = Duty(t)
  BY <1>3, <1>4
<1>8. UNCHANGED <<bufs, tasks, disk, intervals, stable_lsn>> /\ (error => error')
  BY <1>1
<1> QED
  BY <1>3, <1>4, <1>5, <1>6, <1>7, <1>8, QuietStep

\* Sealing the current buffer.  Nobody has to write it yet; the sealer has to if
\* nobody is inside.
LEMMA SealLog ==
  ASSUME IInv, IInv', Frozen, LogInv, NEW t \in Threads, SealCas(t)
  PROVE  LogInv' /\ Tip <= Tip'
<1> DEFINE i == seen[t].buf
           b == bufs[i]
           maxed == \/ seen[t].full
                    \/ b.capacity - seen[t].header.offset < MaxMsgHeaderLen
<1>1. /\ pc[t] = "seal_cas" /\ i \in 1..Cur /\ b \in BufType /\ seen[t] \in SeenType
      /\ ~seen[t].header.sealed /\ b.offset <= b.capacity
  <2>1. pc[t] = "seal_cas"
    BY DEF SealCas
  <2> QED
    BY <2>1, CurType DEF IInv, LocalsOK, ThreadOK, HandoverOK, SharedOK, BufsOK
<1>2. CASE Header(i) # seen[t].header
  <2>1. bufs' = bufs /\ SealReturn(t, pc)
    BY <1>2 DEF SealCas
  <2>2. Tip \in Nat /\ Tip' = Tip
    BY <2>1, Bounds, SameChain DEF LogInv
  <2> QED
    BY SMTT(30), <2>1, <2>2, SealLostLog
<1>3. CASE Header(i) = seen[t].header
  <2>1. \A u \in Threads \ {t} : Bystander(u)
    BY OthersStandBy DEF Step
  <2>2. SealerOK(t) /\ BatchOK(t) /\ max_reserved \in Int /\ max_reserved < Tip /\ Tip \in Nat
    BY Bounds DEF LogInv, BatchesOK, IInv, SharedOK, Lsn
  <2>3. /\ bufs' = [bufs EXCEPT ![i] = [bufs[i] EXCEPT !.sealed = TRUE, !.maxed = maxed]]
        /\ pc'[t] = "seal_swap" /\ UNCHANGED <<op, seen, res, peg, goal>>
        /\ UNCHANGED <<tasks, disk, intervals, stable_lsn, max_reserved, error>>
    BY <1>3 DEF SealCas, IInv, LocalsOK
  <2>4. /\ seen[t].header.offset = b.offset /\ ~b.sealed
        /\ seen[t].header.writers = b.writers
    <3>1. /\ Header(i).offset = b.offset /\ Header(i).sealed = b.sealed
          /\ Header(i).writers = b.writers
      BY DEF Header
    <3> QED
      BY <1>1, <1>3, <3>1
  <2>5. i = Cur /\ ~b.maxed /\ Tip = b.lsn + b.offset
    BY <1>1, <2>4, OpenIsCurrent DEF LogInv
  <2>6. /\ Cur' = Cur /\ Cur \in 1..Cur /\ \A j \in 1..Cur : j # i => bufs'[j] = bufs[j]
        /\ bufs'[i].lsn = b.lsn /\ bufs'[i].capacity = b.capacity
        /\ bufs'[i].offset = b.offset /\ bufs'[i].writers = b.writers
        /\ bufs'[i].sealed /\ (bufs'[i].maxed <=> maxed)
    <3> DEFINE x == [b EXCEPT !.sealed = TRUE, !.maxed = maxed]
    <3>1. /\ x.lsn = b.lsn /\ x.capacity = b.capacity /\ x.offset = b.offset
          /\ x.writers = b.writers /\ x.sealed = TRUE /\ x.maxed = maxed
      BY <1>1 DEF BufType
    <3>2. bufs' = [bufs EXCEPT ![i] = x]
      BY <2>3
    <3> HIDE DEF x, i, b, maxed
    <3>3. /\ Cur' = Cur /\ Cur \in 1..Cur /\ bufs'[i] = x
          /\ \A j \in 1..Cur : j # i => bufs'[j] = bufs[j]
      BY <1>1, <3>2, ReplaceBuf DEF IInv
    <3> QED
      BY <3>1, <3>3
  <2>7. Chain' /\ Tip <= Tip'
    <3>1. bufs'[i].sealed /\ ~bufs'[i].maxed =>
            bufs'[i].capacity - bufs'[i].offset >= MaxMsgHeaderLen
      <4>1. b.capacity \in Nat /\ b.offset \in Nat /\ MaxMsgHeaderLen \in Nat
        BY <1>1, SizeAssumption DEF BufType
      <4>2. ~bufs'[i].maxed => ~(b.capacity - b.offset < MaxMsgHeaderLen)
        BY <2>4, <2>6
      <4>3. bufs'[i].capacity = b.capacity /\ bufs'[i].offset = b.offset
        BY <2>6
      <4> HIDE DEF b, i, maxed
      <4> QED
        BY SMTT(30), <4>1, <4>2, <4>3
    <3>2. Chain'
      BY <2>5, <2>6, <3>1, ChainFrame DEF LogInv
    <3>3. b.lsn + b.capacity = NextSegment(b.lsn)
      BY <1>1 DEF LogInv, Chain
    <3> QED
      BY SMTT(30), <1>1, <2>5, <2>6, <3>2, <3>3 DEF Tip, End, BufType
  <2>8. \A u \in Threads \ {t} : HeldBy(u)' = HeldBy(u) /\ Claimed(u)' = Claimed(u)
                                 /\ Pegged(u)' = Pegged(u) /\ Duty(u)' = Duty(u)
    BY <2>1, BystanderKeeps
  <2>9. /\ HeldBy(t)' = HeldBy(t) /\ Claimed(t)' = {} /\ Duty(t) = 0
        /\ Duty(t)' = (IF b.writers = {} THEN i ELSE 0)
    BY <1>1, <2>3, <2>4 DEF HeldBy, Claimed, Pegged, Duty
  <2> HIDE DEF i, b, maxed
  <2>10. HeldOK'
    <3>1. WritersKept
      BY SMTT(30), <1>1, <2>6, CurType DEF WritersKept, IInv, BufType, b
    <3>2. \A u \in Threads : \A q \in Claimed(u)', s \in Pegged(u)' : Apart(q, s)
      BY <2>8, <2>9 DEF LogInv, HeldOK
    <3> QED
      BY <2>8, <2>9, <3>1, <3>2, HeldFrame DEF LogInv
  <2>11. DutiesOK'
    BY <1>1, <2>3, <2>4, <2>6, <2>8, <2>9, BecomesDuty DEF LogInv, b
  <2>12. SealerOK(t)' /\ BatchOK(t)'
    BY <2>2, <2>3, <2>5, <2>6 DEF SealerOK, BatchOK, i
  <2>13. \A u \in Threads \ {t} : pc[u] # "seal_swap"
    <3>1. ASSUME NEW u \in Threads, pc[u] = "seal_swap" PROVE FALSE
      <4>1. seen[u].buf = Cur /\ bufs[seen[u].buf].sealed
        BY <3>1 DEF LogInv, SealerOK, IInv, LocalsOK, HandoverOK
      <4> QED
        BY <2>4, <2>5, <4>1 DEF b
    <3> QED
      BY <3>1
  <2>14. op'[t] = "batch" => \A u \in Threads \ {t} : op[u] # "batch"
    BY <2>3 DEF LogInv, AloneOK
  <2>15. /\ max_reserved <= max_reserved' /\ max_reserved' < Tip'
         /\ \A x \in tasks' : x.stage = "synced" => x \in tasks
    <3>1. Tip' \in Nat
      BY NextTypes
    <3> QED
      BY SMTT(30), <2>2, <2>3, <2>7, <3>1
  <2> QED
    BY <2>1, <2>3, <2>6, <2>7, <2>10, <2>11, <2>12, <2>13, <2>14, <2>15, LogStep
<1> QED
  BY <1>2, <1>3
----------------------------------------------------------------------------
(* A new buffer.                                                           *)

\* The buffer after a sealed one begins where that one ends, and reaches to the end
\* of a segment too.
LEMMA NextBufChain ==
  ASSUME NEW b \in BufType, b.offset <= b.capacity, b.lsn + b.capacity = NextSegment(b.lsn),
         b.maxed \/ b.capacity - b.offset >= MaxMsgHeaderLen
  PROVE  LET c == NextBuf(b) IN
         /\ c.lsn = End(b) /\ c.lsn + c.capacity = NextSegment(c.lsn)
         /\ c.writers = {} /\ ~c.sealed /\ ~c.maxed /\ End(c) >= End(b)
<1>1. NextSegment(b.lsn) \in Nat
  BY NextSegmentType DEF BufType
<1>2. CASE b.maxed
  <2>1. NextBuf(b) = store_segment_header(NextSegment(b.lsn))
    BY <1>2 DEF NextBuf
  <2>2. NextSegment(NextSegment(b.lsn)) = NextSegment(b.lsn) + SegmentSize
    <3> DEFINE q == (b.lsn \div SegmentSize) + 1
    <3>1. q \in Nat
      BY SMTT(30), SizeAssumption DEF BufType
    <3>2. NextSegment(b.lsn) = q * SegmentSize
      BY DEF NextSegment
    <3> HIDE DEF q
    <3> QED
      BY <1>1, <3>1, <3>2, WholeSegment
  <2> QED
    BY SMTT(30), <1>1, <1>2, <2>1, <2>2, SizeAssumption DEF store_segment_header, End
<1>3. CASE ~b.maxed
  <2>1. NextBuf(b) = BareBuf(b.lsn + b.offset, b.capacity - b.offset)
    BY <1>3 DEF NextBuf
  <2>2. /\ b.lsn \in Nat /\ b.offset \in Nat /\ b.capacity \in Nat
        /\ b.lsn + b.offset < NextSegment(b.lsn)
    BY SMTT(30), <1>1, <1>3, SizeAssumption DEF BufType
  <2>3. NextSegment(b.lsn + b.offset) = NextSegment(b.lsn)
    BY SMTT(30), <2>2, SameSegment
  <2> QED
    BY SMTT(30), <1>1, <1>3, <2>1, <2>2, <2>3 DEF BareBuf, End
<1> QED
  BY <1>2, <1>3

\* Installing the next buffer: whoever sealed the current one does, and nobody else.
LEMMA SwapLog ==
  ASSUME IInv, IInv', Frozen, LogInv, NEW t \in Threads, SealSwap(t)
  PROVE  LogInv' /\ Tip <= Tip'
<1> DEFINE b == bufs[Cur]
           c == NextBuf(b)
<1>1. pc[t] = "seal_swap"
  BY DEF SealSwap, Install
<1>2. /\ seen[t].buf = Cur /\ b.sealed /\ Cur \in Nat \ {0} /\ Cur \in 1..Cur
      /\ b \in BufType /\ b.offset <= b.capacity
  <2>1. Cur \in Nat \ {0} /\ Cur \in 1..Cur /\ b \in BufType /\ b.offset <= b.capacity
    BY SMTT(30), CurType DEF IInv, SharedOK, BufsOK
  <2>2. SealerOK(t) /\ HandoverOK(t)
    BY DEF LogInv, IInv, LocalsOK
  <2> QED
    BY <1>1, <2>1, <2>2 DEF SealerOK, HandoverOK
<1>3. \A u \in Threads \ {t} : Bystander(u)
  BY OthersStandBy DEF Step
<1>4. SealerOK(t) /\ BatchOK(t) /\ max_reserved \in Int /\ max_reserved < Tip /\ Tip \in Nat
  BY Bounds DEF LogInv, BatchesOK, IInv, SharedOK, Lsn
<1>5. /\ bufs' = Append(bufs, c)
      /\ UNCHANGED <<tasks, disk, intervals, stable_lsn, max_reserved, error>>
  BY <1>2 DEF SealSwap, Install
<1>6. /\ c.lsn = Tip /\ c.lsn + c.capacity = NextSegment(c.lsn)
      /\ c.writers = {} /\ ~c.sealed /\ ~c.maxed /\ End(c) >= Tip
  <2>1. b.lsn + b.capacity = NextSegment(b.lsn)
    BY <1>2 DEF LogInv, Chain
  <2>2. b.maxed \/ b.capacity - b.offset >= MaxMsgHeaderLen
    BY <1>2 DEF LogInv, Chain
  <2> HIDE DEF b
  <2> QED
    BY <1>2, <2>1, <2>2, NextBufChain DEF Tip, b
<1> HIDE DEF c
<1>7. Cur' = Cur + 1 /\ bufs'[Cur + 1] = c /\ \A i \in 1..Cur : bufs'[i] = bufs[i]
  BY SMTT(30), <1>2, <1>5 DEF IInv, SharedOK, Cur
<1>8. Chain' /\ Tip' = End(c)
  <2>1. Tip' = End(c)
    BY <1>7 DEF Tip
  <2>2. ASSUME NEW i \in 1..Cur', NEW j \in 1..Cur', i < j
        PROVE  bufs'[i].sealed /\ End(bufs'[i]) <= bufs'[j].lsn
    <3>1. i \in 1..Cur /\ bufs'[i] = bufs[i]
      BY SMTT(30), <1>2, <1>7, <2>2
    <3>2. bufs[i].sealed
      <4>1. i = Cur \/ i < Cur
        BY SMTT(30), <1>2, <3>1
      <4> QED
        BY <1>2, <3>1, <4>1 DEF LogInv, Chain
    <3>3. CASE j = Cur + 1
      BY <1>6, <1>7, <3>1, <3>2, <3>3, WithinLog DEF LogInv
    <3>4. CASE j # Cur + 1
      <4>1. j \in 1..Cur
        BY SMTT(30), <1>2, <1>7, <3>4
      <4> QED
        BY <1>7, <2>2, <3>1, <3>2, <4>1 DEF LogInv, Chain
    <3> QED
      BY <3>3, <3>4
  <2>3. ASSUME NEW i \in 1..Cur'
        PROVE  /\ ~bufs'[i].sealed => ~bufs'[i].maxed
               /\ bufs'[i].lsn + bufs'[i].capacity = NextSegment(bufs'[i].lsn)
               /\ bufs'[i].sealed /\ ~bufs'[i].maxed =>
                    bufs'[i].capacity - bufs'[i].offset >= MaxMsgHeaderLen
    <3>1. CASE i = Cur + 1
      BY <1>6, <1>7, <3>1
    <3>2. CASE i # Cur + 1
      <4>1. i \in 1..Cur
        BY SMTT(30), <1>2, <1>7, <3>2
      <4> QED
        BY <1>7, <4>1 DEF LogInv, Chain
    <3> QED
      BY <3>1, <3>2
  <2> QED
    BY <2>1, <2>2, <2>3 DEF Chain
<1>9. /\ HeldBy(t)' = HeldBy(t) /\ (\A r \in Claimed(t)', s \in Pegged(t)' : Apart(r, s))
      /\ Duty(t)' = Duty(t) /\ SealerOK(t)' /\ BatchOK(t)'
      /\ pc'[t] # "seal_swap" /\ op'[t] \in {op[t], "none"}
  <2>1. CASE seen[t].header.writers = {}
    <3>1. NotifyAll(pc) \in [Threads -> Labels]
      BY WakesPc, WakesType DEF IInv, LocalsOK
    <3>2. pc'[t] = "seal_spawn" /\ UNCHANGED <<op, seen, res, peg, goal>>
      BY <2>1, <3>1 DEF SealSwap, Install
    <3>3. HeldBy(t)' = HeldBy(t) /\ Claimed(t)' = {} /\ Duty(t)' = Duty(t)
      BY <1>1, <2>1, <3>2 DEF HeldBy, Claimed, Pegged, Duty
    <3>4. SealerOK(t)' /\ BatchOK(t)'
      BY <1>4, <1>5, <2>1, <3>2 DEF SealerOK, BatchOK
    <3> QED
      BY <3>2, <3>3, <3>4
  <2>2. CASE seen[t].header.writers # {}
    <3>1. SealReturn(t, NotifyAll(pc))
      BY <2>2 DEF SealSwap, Install
    <3>2. Duty(t) = 0
      BY <1>1, <2>2 DEF Duty
    <3> QED
      BY <1>1, <1>4, <1>5, <3>1, <3>2, WakesPc, SealReturnOwn
  <2> QED
    BY <2>1, <2>2
<1>10. \A u \in Threads \ {t} : HeldBy(u)' = HeldBy(u) /\ Claimed(u)' = Claimed(u)
                                /\ Pegged(u)' = Pegged(u) /\ Duty(u)' = Duty(u)
  BY <1>3, BystanderKeeps
<1>11. HeldOK'
  <2>1. WritersKept
    <3>1. \A i \in 1..Cur : bufs[i].offset >= bufs[i].offset
      BY SMTT(30), CurType DEF IInv, BufType
    <3>2. \A i \in 1..Cur' : i \notin 1..Cur => i = Cur + 1
      BY SMTT(30), <1>2, <1>7
    <3> QED
      BY <1>6, <1>7, <3>1, <3>2 DEF WritersKept
  <2>2. \A u \in Threads : \A r \in Claimed(u)', s \in Pegged(u)' : Apart(r, s)
    BY <1>9, <1>10 DEF LogInv, HeldOK
  <2> QED
    BY <1>9, <1>10, <2>1, <2>2, HeldFrame DEF LogInv
<1>12. DutiesOK'
  <2>1. \A i \in 1..Cur' : bufs'[i].sealed => i \in 1..Cur /\ bufs[i].sealed
    <3>1. \A i \in 1..Cur' : i \in 1..Cur \/ i = Cur + 1
      BY SMTT(30), <1>2, <1>7
    <3> QED
      BY <1>6, <1>7, <3>1
  <2> QED
    BY <1>5, <1>7, <1>9, <1>10, <2>1, DutiesFrame DEF LogInv
<1>13. op'[t] = "batch" => \A u \in Threads \ {t} : op[u] # "batch"
  BY <1>9 DEF LogInv, AloneOK
<1>14. \A u \in Threads \ {t} : pc[u] # "seal_swap"
  BY <1>1 DEF LogInv, AloneOK
<1>15. /\ Tip <= Tip' /\ max_reserved <= max_reserved' /\ max_reserved' < Tip'
       /\ \A x \in tasks' : x.stage = "synced" => x \in tasks
  <2>1. End(c) \in Nat
    <3>1. c \in BufType
      BY <1>2, NextBufType DEF c
    <3> QED
      BY SMTT(30), <3>1, NextSegmentType DEF End, BufType
  <2> QED
    BY SMTT(30), <1>4, <1>5, <1>6, <1>8, <2>1
<1> QED
  BY <1>3, <1>5, <1>8, <1>9, <1>11, <1>12, <1>13, <1>14, <1>15, LogStep
============================================================================
