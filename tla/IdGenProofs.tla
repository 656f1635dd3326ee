---------------------------- MODULE IdGenProofs -----------------------------
(* The assertions of generate_id_inner hold for every interval, set of      *)
(* threads and number of crashes, and whichever buffers reach the disk.     *)
EXTENDS IdGen, FiniteSetTheorems, WellFoundedInduction, TLAPS
USE ZenonT(30)
Holding == {"swap", "cas", "wait"}

\* What holds of the log whether or not the database is open: its first message
\* is the counter page that a fresh database flushes.
LogOK ==
  /\ log \in Seq(Nat \cup {None}) /\ Len(log) \in Nat /\ Len(log) >= 1
  /\ log[1] \in Nat /\ durable \subseteq 1..Len(log) /\ 1 \in durable

Typed ==
  /\ idgen \in Nat /\ idgen_persists \in Nat
  /\ idgen_persist_mu \in Threads \cup {None}
  /\ page \in [ts : Nat, lsn : Nat] /\ page.lsn \in 1..Len(log)
  /\ up \in BOOLEAN /\ given \in [0..MaxId -> 0..2]
  /\ pc \in [Threads -> {"idle", "load", "lock", "swap", "cas", "wait"}]
  /\ ret \in [Threads -> 0..MaxId]
  /\ key \in [Threads -> [ts : Nat, lsn : Nat] \cup {None}]

\* The mutex has one holder, and only in between its lock and its drop.
MutexOK == \A t \in Threads : pc[t] \in Holding <=> idgen_persist_mu = t

\* The page holds what idgen_persists says, but between the swap and the CAS.
PageOK ==
  /\ log[page.lsn] \in Nat
  /\ (\A t \in Threads : pc[t] # "cas") => log[page.lsn] = idgen_persists

\* What the holder saw of the page: it may have moved since, not changed.
KeyOK ==
  \A t \in Threads :
    /\ pc[t] \in Holding => key[t] \in [ts : Nat, lsn : Nat] /\ key[t].lsn \in 1..Len(log)
    /\ pc[t] \in {"swap", "cas"} => key[t].ts = page.ts
    /\ pc[t] = "swap" => /\ log[key[t].lsn] = idgen_persists
                         /\ idgen_persists < Floor(ret[t])
    /\ pc[t] = "cas" => idgen_persists = Floor(ret[t])

IInv ==
  /\ LogOK /\ Typed /\ MutexOK
  /\ up = FALSE => \A t \in Threads : pc[t] = "idle"
  /\ up = TRUE => PageOK /\ KeyOK

LEMMA FloorNat == \A id \in Nat : Floor(id) \in Nat
<1> SUFFICES ASSUME NEW id \in Nat PROVE Floor(id) \in Nat
  OBVIOUS
<1>1. id \div Interval \in Nat
  BY SMTT(30), IdAssumption
<1> QED
  BY SMTT(30), <1>1, IdAssumption DEF Floor

LEMMA Initial == Init => IInv
<1> SUFFICES ASSUME Init PROVE IInv
  OBVIOUS
<1>1. LogOK
  BY SMTT(30) DEF Init, LogOK
<1>2. Typed
  BY SMTT(30), IdAssumption DEF Init, NoLocals, Typed
<1>3. up = TRUE /\ \A t \in Threads : pc[t] = "idle" /\ t # idgen_persist_mu
  BY IdAssumption DEF Init, NoLocals
<1>4. log[page.lsn] = 0 /\ idgen_persists = 0
  BY DEF Init
<1> QED
  BY SMTT(30), <1>1, <1>2, <1>3, <1>4 DEF IInv, MutexOK, Holding, PageOK, KeyOK-----------------------------------------------------------------------------
(* One lemma per action.                                                   *)

\* Drawing an ID touches nothing that is shared but the counter.
LEMMA FetchAddStep == ASSUME IInv, NEW t \in Threads, fetch_add(t) PROVE IInv'
<1>1. up = TRUE /\ up' = TRUE /\ LogOK /\ Typed /\ MutexOK /\ PageOK /\ KeyOK
  BY DEF IInv, Typed, fetch_add, Return
<1>2. ret[t] \in 0..MaxId /\ Floor(ret[t]) \in Nat
  BY SMTT(30), <1>1, FloorNat, IdAssumption DEF Typed
<1>3. /\ pc[t] = "idle" /\ pc' = [pc EXCEPT ![t] = "load"] /\ idgen <= MaxId
      /\ idgen' = idgen + 1 /\ ret' = [ret EXCEPT ![t] = idgen]
      /\ UNCHANGED <<idgen_persists, idgen_persist_mu, page, log, durable, up, given, key>>
  BY DEF fetch_add, Goto
<1>10. LogOK'
  BY <1>1, <1>3 DEF LogOK
<1>11. Typed'
  BY SMTT(30), <1>1, <1>3, IdAssumption DEF Typed
<1>12. MutexOK'
  BY <1>1, <1>3 DEF MutexOK, Holding, Typed
<1>13. PageOK'
  BY <1>1, <1>3 DEF PageOK, Typed
<1>14. KeyOK'
  BY <1>1, <1>3 DEF KeyOK, Typed, Holding
<1> QED
  BY <1>1, <1>10, <1>11, <1>12, <1>13, <1>14 DEF IInv

\* Returning an ID leaves the generator alone.
LEMMA ReturnStep ==
  ASSUME IInv, up = TRUE, NEW t \in Threads, pc[t] \notin Holding, Return(t)
  PROVE IInv'
<1>1. LogOK /\ Typed /\ MutexOK /\ PageOK /\ KeyOK
  BY DEF IInv
<1>2. /\ pc' = [pc EXCEPT ![t] = "idle"]
      /\ given' = [given EXCEPT ![ret[t]] = IF @ = 0 THEN 1 ELSE 2]
      /\ UNCHANGED <<idgen, idgen_persists, idgen_persist_mu, page, log, durable, up, ret, key>>
  BY DEF Return, Goto, memory
<1>3. LogOK'
  BY <1>1, <1>2 DEF LogOK
<1>4. Typed'
  <2>1. given' \in [0..MaxId -> 0..2]
    BY SMTT(30), <1>1, <1>2, IdAssumption DEF Typed
  <2> QED
    BY <1>1, <1>2, <2>1 DEF Typed
<1>5. MutexOK'
  BY <1>1, <1>2 DEF MutexOK, Holding, Typed
<1>6. PageOK'
  <2>1. \A u \in Threads : pc[u] = "cas" => pc'[u] = "cas"
    BY <1>1, <1>2 DEF Typed, Holding
  <2> QED
    BY <1>1, <1>2, <2>1 DEF PageOK
<1>7. KeyOK'
  BY <1>1, <1>2 DEF KeyOK, Typed, Holding
<1> QED
  BY <1>2, <1>3, <1>4, <1>5, <1>6, <1>7 DEF IInv

\* The first look at idgen_persists.
LEMMA LoadStep == ASSUME IInv, NEW t \in Threads, load(t) PROVE IInv'
<1>1. up = TRUE /\ LogOK /\ Typed /\ MutexOK /\ PageOK /\ KeyOK /\ pc[t] = "load"
  BY DEF IInv, Typed, load
<1>2. CASE Return(t)
  BY <1>1, <1>2, ReturnStep DEF Holding
<1>3. CASE /\ pc' = [pc EXCEPT ![t] = "lock"]
           /\ UNCHANGED <<memory, log, durable, up, given, ret, key>>
  <2>1. LogOK' /\ Typed'
    BY <1>1, <1>3 DEF LogOK, Typed, memory
  <2>2. MutexOK'
    BY <1>1, <1>3 DEF MutexOK, Holding, Typed, memory
  <2>3. PageOK' /\ KeyOK'
    BY <1>1, <1>3 DEF PageOK, KeyOK, Holding, Typed, memory
  <2> QED
    BY <1>1, <1>3, <2>1, <2>2, <2>3 DEF IInv
<1> QED
  BY <1>2, <1>3 DEF load, Goto

\* Whoever takes the mutex sees the page and the bound agree.
LEMMA LockStep == ASSUME IInv, NEW t \in Threads, lock(t) PROVE IInv'
<1>1. /\ up = TRUE /\ LogOK /\ Typed /\ MutexOK /\ PageOK /\ KeyOK
      /\ pc[t] = "lock" /\ idgen_persist_mu = None
  BY DEF IInv, Typed, lock
<1>2. CASE Return(t)
  BY <1>1, <1>2, ReturnStep DEF Holding
<1>3. CASE /\ idgen_persists < Floor(ret[t])
           /\ idgen_persist_mu' = t /\ key' = [key EXCEPT ![t] = page]
           /\ pc' = [pc EXCEPT ![t] = "swap"]
           /\ UNCHANGED <<idgen, idgen_persists, page, log, durable, up, given, ret>>
  <2>1. \A u \in Threads : u # None /\ pc[u] \notin Holding
    BY <1>1, IdAssumption DEF MutexOK
  <2>2. log[page.lsn] = idgen_persists
    BY <1>1, <2>1 DEF PageOK, Holding
  <2>3. LogOK' /\ Typed'
    BY <1>1, <1>3 DEF LogOK, Typed
  <2>4. MutexOK'
    BY <1>1, <1>3, <2>1 DEF MutexOK, Holding, Typed
  <2>5. PageOK'
    BY <1>1, <1>3, <2>2 DEF PageOK
  <2>6. KeyOK'
    BY <1>1, <1>3, <2>1, <2>2 DEF KeyOK, Holding, Typed
  <2> QED
    BY <1>1, <1>3, <2>3, <2>4, <2>5, <2>6 DEF IInv
<1> QED
  BY <1>2, <1>3 DEF lock, Goto

\* The bound is raised before the page is.
LEMMA SwapStep == ASSUME IInv, NEW t \in Threads, swap(t) PROVE IInv'
<1>1. up = TRUE /\ up' = TRUE /\ LogOK /\ Typed /\ MutexOK /\ PageOK /\ KeyOK
  BY DEF IInv, Typed, swap, Return
<1>2. ret[t] \in 0..MaxId /\ Floor(ret[t]) \in Nat
  BY SMTT(30), <1>1, FloorNat, IdAssumption DEF Typed
<1>3. /\ pc[t] = "swap" /\ pc' = [pc EXCEPT ![t] = "cas"]
      /\ idgen_persists' = Floor(ret[t])
      /\ UNCHANGED <<idgen, idgen_persist_mu, page, log, durable, up, given, ret, key>>
  BY DEF swap, Goto
<1>4. \A u \in Threads : u # t => pc[u] \notin Holding
  BY <1>1, <1>3 DEF MutexOK, Holding
<1>10. LogOK'
  BY <1>1, <1>3 DEF LogOK
<1>11. Typed'
  BY <1>1, <1>2, <1>3 DEF Typed
<1>12. MutexOK'
  BY <1>1, <1>3 DEF MutexOK, Holding, Typed
<1>13. PageOK'
  BY <1>1, <1>3 DEF PageOK, Typed
<1>14. KeyOK'
  BY <1>1, <1>2, <1>3, <1>4 DEF KeyOK, Typed, Holding
<1> QED
  BY <1>1, <1>10, <1>11, <1>12, <1>13, <1>14 DEF IInv

\* The CAS succeeds: nobody else changes the page under the mutex.
LEMMA CasStep == ASSUME IInv, NEW t \in Threads, cas(t) PROVE IInv'
<1>1. up = TRUE /\ up' = TRUE /\ LogOK /\ Typed /\ MutexOK /\ PageOK /\ KeyOK
  BY DEF IInv, Typed, cas, Return
<1>2. ret[t] \in 0..MaxId /\ Floor(ret[t]) \in Nat
  BY SMTT(30), <1>1, FloorNat, IdAssumption DEF Typed
<1>3. pc[t] = "cas" /\ key[t].ts = page.ts /\ idgen_persists = Floor(ret[t])
  BY <1>1 DEF cas, KeyOK
<1>4. /\ pc' = [pc EXCEPT ![t] = "wait"] /\ log' = Append(log, Floor(ret[t]))
      /\ page' = [ts |-> page.ts + 1, lsn |-> Len(log) + 1]
      /\ UNCHANGED <<idgen, idgen_persists, idgen_persist_mu, durable, up, given, ret, key>>
  BY <1>3 DEF cas, Goto
<1>5. \A u \in Threads : u # t => pc[u] \notin Holding
  BY <1>1, <1>3 DEF MutexOK, Holding
<1>6. /\ Len(log') = Len(log) + 1 /\ log'[Len(log) + 1] = Floor(ret[t])
      /\ \A i \in 1..Len(log) : log'[i] = log[i]
      /\ log' \in Seq(Nat \cup {None})
  BY SMTT(30), <1>1, <1>2, <1>4 DEF LogOK
<1>10. LogOK'
  BY SMTT(30), <1>1, <1>4, <1>6 DEF LogOK
<1>11. Typed'
  BY SMTT(30), <1>1, <1>4, <1>6 DEF Typed, LogOK
<1>12. MutexOK'
  BY <1>1, <1>3, <1>4 DEF MutexOK, Holding, Typed
<1>13. PageOK'
  BY <1>1, <1>2, <1>3, <1>4, <1>6 DEF PageOK
<1>14. KeyOK'
  BY SMTT(30), <1>1, <1>3, <1>4, <1>5, <1>6 DEF KeyOK, Typed, Holding, LogOK
<1> QED
  BY <1>1, <1>10, <1>11, <1>12, <1>13, <1>14 DEF IInv

\* The mutex is dropped when the previous page is durable.
LEMMA WaitStep == ASSUME IInv, NEW t \in Threads, wait(t) PROVE IInv'
<1>1. up = TRUE /\ up' = TRUE /\ LogOK /\ Typed /\ MutexOK /\ PageOK /\ KeyOK
  BY DEF IInv, Typed, wait, Return
<1>2. ret[t] \in 0..MaxId /\ Floor(ret[t]) \in Nat
  BY SMTT(30), <1>1, FloorNat, IdAssumption DEF Typed
<1>3. /\ pc[t] = "wait" /\ pc' = [pc EXCEPT ![t] = "lock"]
      /\ idgen_persist_mu' = None /\ key' = [key EXCEPT ![t] = None]
      /\ UNCHANGED <<idgen, idgen_persists, page, log, durable, up, given, ret>>
  BY DEF wait, Goto
<1>4. \A u \in Threads : u # None /\ (u # t => pc[u] \notin Holding)
  BY <1>1, <1>3, IdAssumption DEF MutexOK, Holding
<1>10. LogOK'
  BY <1>1, <1>3 DEF LogOK
<1>11. Typed'
  BY <1>1, <1>3 DEF Typed
<1>12. MutexOK'
  BY <1>1, <1>3, <1>4 DEF MutexOK, Holding, Typed
<1>13. PageOK'
  BY <1>1, <1>3 DEF PageOK, Typed
<1>14. KeyOK'
  BY <1>1, <1>3, <1>4 DEF KeyOK, Typed, Holding
<1> QED
  BY <1>1, <1>10, <1>11, <1>12, <1>13, <1>14 DEF IInv

\* A crash keeps a prefix of the log, with its first message.
LEMMA CrashStep == ASSUME IInv, Crash PROVE IInv'
<1> DEFINE n == Cardinality(Recovered)
<1>1. LogOK /\ Typed
  BY DEF IInv
<1>2. n \in 1..Len(log)
  <2>1. Recovered \subseteq 1..Len(log) /\ {1} \subseteq Recovered
    BY SMTT(30), <1>1 DEF LogOK, Recovered
  <2>2. IsFiniteSet(1..Len(log)) /\ Cardinality(1..Len(log)) = Len(log)
    BY SMTT(30), <1>1, FS_Interval DEF LogOK
  <2>3. IsFiniteSet(Recovered) /\ n <= Len(log)
    BY <2>1, <2>2, FS_Subset
  <2>4. Cardinality({1}) <= n /\ Cardinality({1}) = 1
    BY <2>1, <2>3, FS_Subset, FS_Singleton
  <2>5. n \in Nat
    BY <2>3, FS_CardinalityType
  <2> QED
    BY SMTT(30), <1>1, <2>3, <2>4, <2>5 DEF LogOK
<1>3. /\ log' = SubSeq(log, 1, n) /\ durable' = 1..n /\ up' = FALSE
      /\ pc' = [t \in Threads |-> "idle"] /\ ret' = [t \in Threads |-> 0]
      /\ key' = [t \in Threads |-> None] /\ idgen' = 0 /\ idgen_persists' = 0
      /\ idgen_persist_mu' = None /\ page' = [ts |-> 0, lsn |-> 1] /\ given' = given
  BY DEF Crash
<1> HIDE DEF n
<1>4. /\ log' \in Seq(Nat \cup {None}) /\ Len(log') = n /\ log'[1] = log[1]
  BY SMTT(30), <1>1, <1>2, <1>3 DEF LogOK
<1>5. LogOK'
  BY SMTT(30), <1>1, <1>2, <1>3, <1>4 DEF LogOK
<1>6. Typed'
  <2>1. page' \in [ts : Nat, lsn : Nat] /\ page'.lsn \in 1..Len(log')
    BY SMTT(30), <1>2, <1>3, <1>4
  <2>2. /\ pc' \in [Threads -> {"idle", "load", "lock", "swap", "cas", "wait"}]
        /\ ret' \in [Threads -> 0..MaxId]
        /\ key' \in [Threads -> [ts : Nat, lsn : Nat] \cup {None}]
    BY SMTT(30), <1>3, IdAssumption
  <2> QED
    BY <1>1, <1>3, <2>1, <2>2 DEF Typed
<1>7. \A t \in Threads : pc'[t] = "idle" /\ idgen_persist_mu' # t
  BY <1>3, IdAssumption
<1> QED
  BY <1>3, <1>5, <1>6, <1>7 DEF IInv, MutexOK, Holding

\* A nonempty family of finite sets of integers has a member that includes no
\* other one.
LEMMA SmallestMember ==
  ASSUME NEW F, F # {}, \A X \in F : X \subseteq Int /\ IsFiniteSet(X)
  PROVE  \E X \in F : \A Y \in F : Y \subseteq X => Y = X
<1>1. F \subseteq FiniteSubsetsOf(Int)
  BY DEF FiniteSubsetsOf
<1>2. PICK X \in F : \A Y \in F : <<Y, X>> \notin StrictSubsetOrdering(Int)
  BY <1>1, FS_StrictSubsetOrderingWellFounded, WFMin
<1>3. ASSUME NEW Y \in F, Y \subseteq X, Y # X PROVE FALSE
  BY <1>2, <1>3 DEF StrictSubsetOrdering
<1> QED
  BY <1>3

\* A nonempty set of integers that is bounded above has a greatest element.
LEMMA GreatestExists ==
  ASSUME NEW S \in SUBSET Int, S # {}, NEW n \in Int, \A x \in S : x <= n
  PROVE  \E m \in S : \A x \in S : x <= m
<1> DEFINE F == {k..n : k \in S}
<1>1. F # {} /\ \A X \in F : X \subseteq Int /\ IsFiniteSet(X)
  <2>1. ASSUME NEW k \in S PROVE k..n \subseteq Int /\ IsFiniteSet(k..n)
    BY SMTT(30), FS_Interval
  <2> QED
    BY <2>1
<1>2. PICK X \in F : \A Y \in F : Y \subseteq X => Y = X
  <2> HIDE DEF F
  <2> QED
    BY SMTT(30), <1>1, SmallestMember
<1>3. PICK m \in S : X = m..n
  BY <1>2
<1>4. ASSUME NEW x \in S, m < x PROVE FALSE
  <2>1. x..n \in F /\ x..n \subseteq X
    BY SMTT(30), <1>3, <1>4
  <2>2. m \in X /\ m \notin x..n
    BY SMTT(30), <1>3, <1>4
  <2> QED
    BY <1>2, <2>1, <2>2
<1> QED
  BY SMTT(30), <1>3, <1>4

\* What was recovered has a last counter.
LEMMA LastCounterIs == ASSUME LogOK PROVE log[LastCounter] \in Nat
<1> DEFINE C == {i \in 1..Len(log) : log[i] # None}
<1>1. C \in SUBSET Int /\ 1 \in C /\ Len(log) \in Int /\ \A x \in C : x <= Len(log)
  BY SMTT(30), IdAssumption DEF LogOK
<1>2. PICK m \in C : \A x \in C : x <= m
  <2> HIDE DEF C
  <2> QED
    BY <1>1, GreatestExists
<1>3. m \in DOMAIN log /\ log[m] # None /\ \A j \in DOMAIN log : log[j] # None => j <= m
  BY SMTT(30), <1>2 DEF LogOK
<1>4. LastCounter \in DOMAIN log /\ log[LastCounter] # None
  BY <1>3 DEF LastCounter
<1> QED
  BY SMTT(30), <1>4 DEF LogOK

\* A restart makes the page and the bound agree.
LEMMA StartStep == ASSUME IInv, Start PROVE IInv'
<1> DEFINE counter == log[LastCounter]
           necessary == Floor(counter) + Interval
<1>1. LogOK /\ Typed /\ MutexOK /\ up = FALSE /\ \A t \in Threads : pc[t] = "idle"
  BY DEF IInv, Start, Typed
<1>2. counter \in Nat /\ necessary \in Nat
  BY SMTT(30), <1>1, LastCounterIs, FloorNat, IdAssumption
<1>3. /\ up' = TRUE /\ idgen' = counter + 2 * Interval
      /\ idgen_persists' = necessary /\ log' = Append(log, necessary)
      /\ page' = [ts |-> 1, lsn |-> Len(log) + 1]
      /\ UNCHANGED <<idgen_persist_mu, durable, given, pc, ret, key>>
  BY DEF Start, locals
<1> HIDE DEF counter, necessary
<1>4. /\ Len(log') = Len(log) + 1 /\ log'[Len(log) + 1] = necessary
      /\ log'[1] = log[1] /\ log' \in Seq(Nat \cup {None})
  BY SMTT(30), <1>1, <1>2, <1>3 DEF LogOK
<1>5. LogOK'
  BY SMTT(30), <1>1, <1>3, <1>4 DEF LogOK
<1>6. Typed'
  BY SMTT(30), <1>1, <1>2, <1>3, <1>4, IdAssumption DEF Typed, LogOK
<1>7. MutexOK'
  BY <1>1, <1>3 DEF MutexOK
<1>8. PageOK' /\ KeyOK'
  BY <1>1, <1>2, <1>3, <1>4 DEF PageOK, KeyOK, Holding
<1> QED
  BY <1>3, <1>5, <1>6, <1>7, <1>8 DEF IInv

\* The cleaner moves the page, with its counter and its timestamp.
LEMMA RewriteStep == ASSUME IInv, Rewrite PROVE IInv'
<1> DEFINE c == log[page.lsn]
<1>1. up = TRUE /\ LogOK /\ Typed /\ MutexOK /\ PageOK /\ KeyOK /\ c \in Nat
  BY DEF IInv, Rewrite, Typed, PageOK
<1>2. /\ log' = Append(log, c) /\ page' = [page EXCEPT !.lsn = Len(log) + 1]
      /\ UNCHANGED <<idgen, idgen_persists, idgen_persist_mu, durable, up, given, pc, ret, key>>
  BY DEF Rewrite, Counter, locals
<1> HIDE DEF c
<1>3. /\ Len(log') = Len(log) + 1 /\ log'[Len(log) + 1] = c
      /\ \A i \in 1..Len(log) : log'[i] = log[i]
      /\ log' \in Seq(Nat \cup {None})
  BY SMTT(30), <1>1, <1>2 DEF LogOK
<1>4. /\ page' \in [ts : Nat, lsn : Nat] /\ page'.ts = page.ts /\ page'.lsn = Len(log) + 1
  <2>1. page \in [ts : Nat, lsn : Nat] /\ Len(log) + 1 \in Nat
    BY SMTT(30), <1>1 DEF Typed, LogOK
  <2> QED
    BY <1>2, <2>1
<1>5. LogOK'
  BY SMTT(30), <1>1, <1>2, <1>3 DEF LogOK
<1>6. Typed'
  BY SMTT(30), <1>1, <1>2, <1>3, <1>4 DEF Typed, LogOK
<1>7. MutexOK'
  BY <1>1, <1>2 DEF MutexOK
<1>8. PageOK'
  BY <1>1, <1>2, <1>3, <1>4 DEF PageOK, c
<1>9. KeyOK'
  BY SMTT(30), <1>1, <1>2, <1>3, <1>4 DEF KeyOK, Holding, LogOK
<1> QED
  BY <1>1, <1>2, <1>5, <1>6, <1>7, <1>8, <1>9 DEF IInv

\* Another message leaves the page where it is.
LEMMA WriteStep == ASSUME IInv, Write PROVE IInv'
<1>1. up = TRUE /\ LogOK /\ Typed /\ MutexOK /\ PageOK /\ KeyOK
  BY DEF IInv, Write, Typed
<1>2. /\ log' = Append(log, None)
      /\ UNCHANGED <<idgen, idgen_persists, idgen_persist_mu, page, durable, up, given, pc, ret, key>>
  BY DEF Write, memory, locals
<1>3. /\ Len(log') = Len(log) + 1
      /\ \A i \in 1..Len(log) : log'[i] = log[i]
      /\ log' \in Seq(Nat \cup {None})
  BY SMTT(30), <1>1, <1>2 DEF LogOK
<1>4. LogOK' /\ Typed'
  BY SMTT(30), <1>1, <1>2, <1>3 DEF LogOK, Typed
<1>5. MutexOK' /\ PageOK'
  BY <1>1, <1>2, <1>3 DEF MutexOK, PageOK, Typed
<1>6. KeyOK'
  BY SMTT(30), <1>1, <1>2, <1>3 DEF KeyOK, Holding, LogOK
<1> QED
  BY <1>1, <1>2, <1>4, <1>5, <1>6 DEF IInv

\* Only what is on disk changes.
LEMMA SyncStep == ASSUME IInv, Sync PROVE IInv'
<1>1. PICK i \in DOMAIN log \ durable : durable' = durable \cup {i}
  BY DEF Sync
<1>2. UNCHANGED <<idgen, idgen_persists, idgen_persist_mu, page, log, up, given, pc, ret, key>>
  BY DEF Sync, memory, locals
<1>3. LogOK'
  <2>1. LogOK /\ i \in 1..Len(log)
    BY SMTT(30), <1>1 DEF IInv, LogOK
  <2> QED
    BY <1>1, <1>2, <2>1 DEF LogOK
<1> QED
  BY <1>2, <1>3 DEF IInv, Typed, MutexOK, PageOK, KeyOK

LEMMA Inductive == IInv /\ [Next]_vars => IInv'
<1> SUFFICES ASSUME IInv, [Next]_vars PROVE IInv'
  OBVIOUS
<1>1. CASE UNCHANGED vars
  BY <1>1 DEF vars, memory, locals, IInv, LogOK, Typed, MutexOK, PageOK, KeyOK
<1> QED
  BY <1>1, CrashStep, StartStep, RewriteStep, WriteStep, SyncStep, FetchAddStep,
     LoadStep, LockStep, SwapStep, CasStep, WaitStep DEF Next

LEMMA Always == Spec => []IInv
  BY Initial, Inductive, PTL DEF Spec

-----------------------------------------------------------------------------
(* The theorems.                                                           *)

\* The generator, the page and the threads keep their types, and the page is
\* always a message of the log, also after a crash has cut it.
THEOREM TypeCorrect == Spec => []TypeOK
<1>1. IInv => TypeOK
  BY SMTT(30) DEF IInv, LogOK, Typed, TypeOK
<1> QED
  BY <1>1, Always, PTL

\* The assertions of generate_id_inner on the counter page hold whatever the
\* interval, and however the threads, the cleaner and crashes interleave.
THEOREM CounterMatches == Spec => []CounterMatchesPersists
<1>1. IInv => CounterMatchesPersists
  <2> SUFFICES ASSUME IInv, NEW t \in Threads, pc[t] = "swap"
               PROVE /\ Counter(page) = idgen_persists
                     /\ Counter(key[t]) = idgen_persists
                     /\ idgen_persists < Floor(ret[t])
    BY DEF CounterMatchesPersists
  <2>1. PageOK /\ KeyOK /\ MutexOK
    BY DEF IInv, Typed
  <2>2. \A u \in Threads : pc[u] # "cas"
    BY <2>1 DEF MutexOK, Holding
  <2> QED
    BY <2>1, <2>2 DEF PageOK, KeyOK, Counter
<1> QED
  BY <1>1, Always, PTL
=============================================================================
