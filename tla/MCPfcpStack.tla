---------------------------- MODULE MCPfcpStack ------------------------------
(* Small instances of PfcpStack for TLC: an SMF and a UPF that both send   *)
(* requests, and an SMF alone that sends them.                             *)
(*                                                                         *)
(* Sequence numbers are only ever counted up and compared: two behaviours  *)
(* that differ by a shift of all of them are alike, so FromZero lets one   *)
(* node start anywhere and the other at 0.                                 *)
EXTENDS PfcpStack
CONSTANTS smf, upf, heartbeat, report
BothNodes == {smf, upf}
OnlySmf == {smf}
Heartbeats == {heartbeat}
AllTypes == {heartbeat, report}
Reports == {report}
NoReports == {}
InitFromZero == Init /\ seqNum[smf] = 0
FromZero == InitFromZero /\ [][Next]_vars
(* Two requests of the SMF, or one of each node; reports are the UPF's.    *)
FewRequests ==
    /\ requests[upf] <= 1
    /\ requests[smf] + requests[upf] <= 2
    /\ \A p \in procs[smf] : p.own => p.type # report
==============================================================================
