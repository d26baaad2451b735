---------------------------- MODULE MCSmfSessions ----------------------------
(* A small instance of SmfSessions for TLC.                                *)
EXTENDS SmfSessions, TLC
CONSTANTS p1, p2, t1, t2, x1, x2, x3, none
TwoPdus == {p1, p2}
OneTunnel == {t1}
TwoTunnels == {t1, t2}
AllObjs == 1 .. MaxObjs
AllUpSeids == 1 .. MaxObjs * (MaxMishaps + 1)
AllAddrs == 0 .. PoolSize - 1
TwoTrxns == {x1, x2}
ThreeTrxns == {x1, x2, x3}
Alike == Permutations(Pdus) \cup Permutations(Trxns)
==============================================================================
