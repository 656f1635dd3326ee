------------------------------ MODULE MCIoBufs ------------------------------
(***************************************************************************)
(* Writers and batches that race for the buffer of IoBufs, in a log that is *)
(* reopened in the middle of a segment; and an instance with two of them,  *)
(* in a new log, in which writes to the file fail.                         *)
(***************************************************************************)
EXTENDS IoBufs, TLC

CONSTANTS t1, t2, t3

VARIABLE case  \* which instance runs

OpsReserve == [t \in Threads |-> {"write", "batch"}]

\* An idle thread is as it was in the beginning: threads stay exchangeable.
OpsFail == [t \in Threads |-> IF t = t3 THEN {} ELSE {"write", "batch"}]

Fail == INSTANCE IoBufs WITH
    Ops <- OpsFail, MsgLens <- {4}, StartLsns <- {0}, MaxLsn <- 4,
    IoErrors <- TRUE

SuiteInit ==
    \/ case = "race" /\ Init
    \/ case = "fail" /\ Fail!Init

SuiteNext ==
    /\ UNCHANGED case
    /\ \/ case = "race" /\ Next
       \/ case = "fail" /\ Fail!Next

SuiteSpec == SuiteInit /\ [][SuiteNext]_<<case, vars>>

WritersSymmetry == Permutations({t1, t2, t3})
=============================================================================
