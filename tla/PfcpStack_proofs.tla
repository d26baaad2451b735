--------------------------- MODULE PfcpStack_proofs ---------------------------
(***************************************************************************)
(* Proofs about PfcpStack, for any nodes, message types, numbers of        *)
(* retransmissions, requests and repeated messages.                        *)
(***************************************************************************)
EXTENDS PfcpStack, TLAPS

Served == [trxn : Trxns, type : Types, to : Nodes, rid : Trxns]
Packets == [kind : Kinds, type : Types, seq : Seqs, from : Nodes, to : Nodes,
            rid : Trxns]
Clocks == [timer : Timers, left : 0 .. ProcTimeOut]
Entries == [trxn : Trxns, seq : Seqs]

(* A sequence number leads to one procedure.                               *)
Keyed == \A n \in Nodes : \A p, q \in procs[n] : p.seq = q.seq => p = q

(* TypeOK, with the domains of the functions.                              *)
StackTyped ==
    /\ seqNum \in [Nodes -> Seqs]
    /\ lastTrxn \in [Nodes -> Nat]
    /\ procs \in [Nodes -> SUBSET Procedures]
    /\ seqOf \in [Nodes -> SUBSET Entries]
    /\ retryMap \in [Nodes -> SUBSET Timers]
    /\ cleanupMap \in [Nodes -> SUBSET Timers]

WorldTyped ==
    /\ armed \in [Nodes -> SUBSET Clocks]
    /\ queue \in [Nodes -> Seq(Timers)]
    /\ serving \in [Nodes -> SUBSET Served]
    /\ net \subseteq Packets
    /\ requests \in [Nodes -> 0 .. MaxRequests]
    /\ dups \in 0 .. MaxDups

HistoryTyped ==
    /\ started \subseteq Trxns /\ repeated \subseteq Trxns /\ aborted \subseteq Trxns
    /\ answers \subseteq [trxn : Trxns, rid : Trxns]

Typed == StackTyped /\ WorldTyped /\ HistoryTyped /\ Keyed
------------------------------------------------------------------------------
(* The records the actions build.                                          *)
LEMMA TimersMade ==
    ASSUME NEW p \in Procedures, NEW k \in 0 .. N1
    PROVE  /\ RetryTimer(p, k) \in Timers
           /\ CleanupTimer(p) \in Timers
           /\ Running(RetryTimer(p, k), T1) \in Clocks
           /\ Running(CleanupTimer(p), ProcTimeOut) \in Clocks
  BY StackAssumption DEF RetryTimer, CleanupTimer, Running, Timers, Procedures,
     Clocks, T1, ProcTimeOut

LEMMA MessageMade ==
    ASSUME NEW k \in Kinds, NEW y \in Types, NEW s \in Seqs, NEW a \in Nodes,
           NEW b \in Nodes, NEW r \in Trxns
    PROVE  LET m == Message(k, y, s, a, b, r) IN
           /\ m \in Packets
           /\ m.kind = k /\ m.type = y /\ m.seq = s /\ m.from = a /\ m.to = b
           /\ m.rid = r
  BY DEF Message, Packets

LEMMA NextNumbers ==
    ASSUME StackTyped, NEW n \in Nodes
    PROVE  /\ NextSeq(n) \in Seqs
           /\ Trxn(n, lastTrxn[n] + 1) \in Trxns
           /\ Trxn(n, lastTrxn[n] + 1).node = n
           /\ Trxn(n, lastTrxn[n] + 1).number = lastTrxn[n] + 1
  BY StackAssumption DEF StackTyped, NextSeq, Seqs, Trxn, Trxns

LEMMA ArrivedTyped ==
    ASSUME WorldTyped, NEW m \in net, Arrive(m)
    PROVE  net' \subseteq net /\ dups' \in 0 .. MaxDups
  BY StackAssumption DEF WorldTyped, Arrive

LEMMA InitTyped == Init => Typed
  <1> SUFFICES ASSUME Init PROVE Typed
    OBVIOUS
  <1> QED
    BY StackAssumption DEF Init, Typed, StackTyped, WorldTyped, HistoryTyped, Keyed, Seqs

LEMMA SendRequestTyped ==
    ASSUME Typed, NEW n \in Nodes, NEW to \in Nodes, NEW y \in Types,
           SendRequest(n, to, y)
    PROVE  Typed'
  <1> DEFINE s == NextSeq(n)
             x == Trxn(n, lastTrxn[n] + 1)
             m == Message("request", y, s, n, to, x)
             p == Procedure(s, x, m, TRUE)
  <1>1. s \in Seqs /\ x \in Trxns
    BY NextNumbers DEF Typed
  <1> HIDE DEF s, x
  <1>2. m \in Packets
    BY <1>1, MessageMade DEF Kinds
  <1> HIDE DEF m, p
  <1>3. p \in Procedures /\ p.seq = s
    BY <1>1, <1>2, StackAssumption DEF p, Procedure, Procedures, Packets
  <1>4. /\ RetryTimer(p, 0) \in Timers /\ CleanupTimer(p) \in Timers
        /\ Running(RetryTimer(p, 0), T1) \in Clocks
        /\ Running(CleanupTimer(p), ProcTimeOut) \in Clocks
    BY <1>3, TimersMade, StackAssumption
  <1>5. /\ requests[n] < MaxRequests
        /\ requests' = [requests EXCEPT ![n] = @ + 1]
        /\ seqNum' = [seqNum EXCEPT ![n] = s]
        /\ lastTrxn' = [lastTrxn EXCEPT ![n] = @ + 1]
        /\ retryMap' = [retryMap EXCEPT ![n] = @ \cup {RetryTimer(p, 0)}]
        /\ cleanupMap' = [cleanupMap EXCEPT ![n] = @ \cup {CleanupTimer(p)}]
        /\ armed' = [armed EXCEPT ![n] = @ \cup {Running(RetryTimer(p, 0), T1),
                                                 Running(CleanupTimer(p), ProcTimeOut)}]
        /\ procs' = [procs EXCEPT ![n] = Insert(n, p)]
        /\ seqOf' = [seqOf EXCEPT ![n] = @ \cup {[trxn |-> x, seq |-> s]}]
        /\ net' = net \cup {m}
        /\ started' = started \cup {x}
        /\ UNCHANGED <<queue, serving, dups, answers, repeated, aborted>>
    BY DEF SendRequest, p, m, x, s
  <1>6. StackTyped'
    BY <1>1, <1>3, <1>4, <1>5 DEF Typed, StackTyped, Insert, Entries
  <1>7. WorldTyped'
    BY <1>2, <1>4, <1>5, StackAssumption DEF Typed, WorldTyped
  <1>8. HistoryTyped'
    BY <1>1, <1>5 DEF Typed, HistoryTyped
  <1>9. Keyed'
    BY <1>3, <1>5 DEF Typed, StackTyped, Keyed, Insert, Found
  <1> QED
    BY <1>6, <1>7, <1>8, <1>9 DEF Typed

LEMMA ReceiveInitialTyped ==
    ASSUME Typed, NEW n \in Nodes, NEW m \in net, ReceiveInitial(n, m)
    PROVE  Typed'
  <1> DEFINE x == Trxn(n, lastTrxn[n] + 1)
             p == Procedure(m.seq, x, m, FALSE)
  <1>1. x \in Trxns /\ m \in Packets
    BY NextNumbers DEF Typed, WorldTyped
  <1> HIDE DEF x
  <1>2. p \in Procedures /\ p.seq = m.seq
    BY <1>1, StackAssumption DEF p, Procedure, Procedures, Packets
  <1> HIDE DEF p
  <1>3. CleanupTimer(p) \in Timers /\ Running(CleanupTimer(p), ProcTimeOut) \in Clocks
    BY <1>2, TimersMade, StackAssumption
  <1>4. /\ Begins(n, m)
        /\ Arrive(m)
        /\ lastTrxn' = [lastTrxn EXCEPT ![n] = @ + 1]
        /\ cleanupMap' = [cleanupMap EXCEPT ![n] = @ \cup {CleanupTimer(p)}]
        /\ armed' = [armed EXCEPT ![n] = @ \cup {Running(CleanupTimer(p), ProcTimeOut)}]
        /\ procs' = [procs EXCEPT ![n] = Insert(n, p)]
        /\ seqOf' = [seqOf EXCEPT ![n] = @ \cup {[trxn |-> x, seq |-> m.seq]}]
        /\ \/ /\ serving' = [serving EXCEPT ![n] = @ \cup
                     {[trxn |-> x, type |-> m.type, to |-> m.from, rid |-> m.rid]}]
              /\ UNCHANGED answers
           \/ /\ answers' = answers \cup {[trxn |-> x, rid |-> m.rid]}
              /\ UNCHANGED serving
        /\ UNCHANGED <<seqNum, retryMap, queue, requests, started, repeated, aborted>>
    BY DEF ReceiveInitial, p, x
  <1>5. StackTyped'
    BY <1>1, <1>2, <1>3, <1>4 DEF Typed, StackTyped, Insert, Entries, Packets
  <1>6. net' \subseteq net /\ dups' \in 0 .. MaxDups
    BY <1>4, ArrivedTyped DEF Typed
  <1>7. WorldTyped'
    <2>1. [trxn |-> x, type |-> m.type, to |-> m.from, rid |-> m.rid] \in Served
      BY <1>1 DEF Packets, Served
    <2>2. serving' \in [Nodes -> SUBSET Served]
      BY <1>4, <2>1 DEF Typed, WorldTyped
    <2>3. armed' \in [Nodes -> SUBSET Clocks]
      BY <1>3, <1>4 DEF Typed, WorldTyped
    <2> QED
      BY <1>4, <1>6, <2>2, <2>3 DEF Typed, WorldTyped
  <1>8. HistoryTyped'
    BY <1>1, <1>4 DEF Typed, HistoryTyped, Packets
  <1>9. Keyed'
    BY <1>2, <1>4 DEF Typed, StackTyped, Keyed, Insert, Found
  <1> QED
    BY <1>5, <1>7, <1>8, <1>9 DEF Typed

LEMMA ReceiveAnswerTyped ==
    ASSUME Typed, NEW n \in Nodes, NEW m \in net, ReceiveAnswer(n, m)
    PROVE  Typed'
  <1>1. PICK p \in Found(n, m.seq) :
          /\ Arrive(m)
          /\ procs' = [procs EXCEPT ![n] = (@ \ {p}) \cup {[p EXCEPT !.triggered = TRUE]}]
          /\ StopMsgRetryTimer(n, p)
          /\ repeated' = IF Answered(p.trxn) THEN repeated \cup {p.trxn} ELSE repeated
          /\ answers' = answers \cup {[trxn |-> p.trxn, rid |-> m.rid]}
          /\ UNCHANGED <<seqNum, lastTrxn, seqOf, cleanupMap, queue, serving,
                         requests, started, aborted>>
    BY DEF ReceiveAnswer
  <1> DEFINE q == [p EXCEPT !.triggered = TRUE]
  <1>2. m \in Packets /\ p \in procs[n] /\ p \in Procedures
    BY DEF Typed, WorldTyped, StackTyped, Found
  <1>3. q \in Procedures /\ q.seq = p.seq
    BY <1>2 DEF Procedures
  <1> HIDE DEF q
  <1>4. procs' = [procs EXCEPT ![n] = (@ \ {p}) \cup {q}]
    BY <1>1 DEF q
  <1>5. StackTyped'
    BY <1>1, <1>3, <1>4 DEF Typed, StackTyped, StopMsgRetryTimer
  <1>6. net' \subseteq net /\ dups' \in 0 .. MaxDups
    BY <1>1, ArrivedTyped DEF Typed
  <1>7. armed' \in [Nodes -> SUBSET Clocks]
    BY <1>1 DEF Typed, WorldTyped, StopMsgRetryTimer, Stop
  <1>8. WorldTyped'
    BY <1>1, <1>6, <1>7 DEF Typed, WorldTyped
  <1>9. HistoryTyped'
    BY <1>1, <1>2 DEF Typed, HistoryTyped, Packets, Procedures
  <1>10. Keyed'
    BY <1>2, <1>3, <1>4 DEF Typed, StackTyped, Keyed
  <1> QED
    BY <1>5, <1>8, <1>9, <1>10 DEF Typed

LEMMA SendResponseTyped ==
    ASSUME Typed, NEW n \in Nodes, NEW v \in serving[n], SendResponse(n, v)
    PROVE  Typed'
  <1> DEFINE entries == {e \in seqOf[n] : e.trxn = v.trxn}
             ended == UNION {Found(n, e.seq) : e \in entries}
             sent == {Message("response", v.type, e.seq, n, v.to, v.rid) : e \in entries}
  <1>1. v \in Served /\ entries \subseteq Entries
    BY DEF Typed, StackTyped, WorldTyped
  <1>2. sent \subseteq Packets
    BY <1>1 DEF Message, Packets, Served, Entries, Kinds
  <1> HIDE DEF entries, ended, sent
  <1>3. /\ serving' = [serving EXCEPT ![n] = @ \ {v}]
        /\ net' = net \cup sent
        /\ procs' = [procs EXCEPT ![n] = @ \ ended]
        /\ armed' = [armed EXCEPT ![n] = Stop(@, {CleanupTimer(p) : p \in ended})]
        /\ seqOf' = [seqOf EXCEPT ![n] = @ \ entries]
        /\ UNCHANGED <<seqNum, lastTrxn, retryMap, cleanupMap, queue, requests, dups,
                       history>>
    BY DEF SendResponse, entries, ended, sent
  <1>4. StackTyped'
    BY <1>3 DEF Typed, StackTyped
  <1>5. armed' \in [Nodes -> SUBSET Clocks]
    BY <1>3 DEF Typed, WorldTyped, Stop
  <1>6. WorldTyped'
    BY <1>2, <1>3, <1>5 DEF Typed, WorldTyped
  <1>7. HistoryTyped'
    BY <1>3 DEF Typed, HistoryTyped, history
  <1>8. Keyed'
    BY <1>3 DEF Typed, StackTyped, Keyed
  <1> QED
    BY <1>4, <1>6, <1>7, <1>8 DEF Typed

LEMMA TickTyped == ASSUME Typed, Tick PROVE Typed'
  <1>1. ASSUME NEW n \in Nodes, NEW r \in armed[n]
        PROVE  [r EXCEPT !.left = @ - 1] \in Clocks
    <2>1. r \in Clocks /\ r.left # 0
      BY <1>1 DEF Tick, Due, Typed, WorldTyped
    <2> QED
      BY <2>1, StackAssumption DEF Clocks, ProcTimeOut, T1
  <1>2. armed' \in [Nodes -> SUBSET Clocks]
    BY <1>1 DEF Tick
  <1>3. UNCHANGED <<stackVars, queue, serving, net, requests, dups, history>>
    BY DEF Tick
  <1> QED
    BY <1>2, <1>3 DEF Typed, StackTyped, WorldTyped, HistoryTyped, Keyed, stackVars,
       history

LEMMA ExpireTyped ==
    ASSUME Typed, NEW n \in Nodes, Expire(n) PROVE Typed'
  <1>1. PICK r \in Due(n) :
          /\ armed' = [armed EXCEPT ![n] = @ \ {r}]
          /\ queue' = [queue EXCEPT ![n] = Append(@, r.timer)]
    BY DEF Expire
  <1>2. r.timer \in Timers
    BY DEF Due, Typed, WorldTyped, Clocks
  <1>3. queue' \in [Nodes -> Seq(Timers)]
    BY <1>1, <1>2 DEF Typed, WorldTyped
  <1>4. armed' \in [Nodes -> SUBSET Clocks]
    BY <1>1 DEF Typed, WorldTyped
  <1>5. UNCHANGED <<stackVars, serving, net, requests, dups, history>>
    BY DEF Expire
  <1> QED
    BY <1>3, <1>4, <1>5 DEF Typed, StackTyped, WorldTyped, HistoryTyped, Keyed,
       stackVars, history

(* A time-out taken from the queue.                                        *)
LEMMA TakeTyped ==
    ASSUME Typed, NEW n \in Nodes, queue[n] # <<>>, Take(n)
    PROVE  queue' \in [Nodes -> Seq(Timers)] /\ Head(queue[n]) \in Timers
  <1>1. queue[n] \in Seq(Timers)
    BY DEF Typed, WorldTyped
  <1>2. Tail(queue[n]) \in Seq(Timers) /\ Head(queue[n]) \in Timers
    BY <1>1
  <1> QED
    BY <1>2 DEF Typed, WorldTyped, Take

LEMMA ResendTyped ==
    ASSUME Typed, NEW n \in Nodes, queue[n] # <<>>, NEW t, Resend(n, t)
    PROVE  Typed'
  <1>1. PICK p \in Found(n, t.seq) :
          /\ p.own
          /\ p.retries < N1
          /\ LET q == [p EXCEPT !.retries = @ + 1]
                 u == RetryTimer(q, q.retries)
             IN  /\ procs' = [procs EXCEPT ![n] = (@ \ {p}) \cup {q}]
                 /\ retryMap' = [retryMap EXCEPT ![n] = (@ \ {t}) \cup {u}]
                 /\ armed' = [armed EXCEPT ![n] = @ \cup {Running(u, T1)}]
          /\ net' = net \cup {Message("request", p.type, p.seq, n, p.peer, p.trxn)}
    BY DEF Resend
  <1> DEFINE q == [p EXCEPT !.retries = @ + 1]
             u == RetryTimer(q, q.retries)
             m == Message("request", p.type, p.seq, n, p.peer, p.trxn)
  <1>2. p \in procs[n] /\ p \in Procedures
    BY DEF Typed, StackTyped, Found
  <1>3. q \in Procedures /\ q.seq = p.seq /\ q.retries \in 0 .. N1
    BY <1>1, <1>2, StackAssumption DEF Procedures
  <1>4. m \in Packets
    BY <1>2 DEF Message, Packets, Procedures, Kinds
  <1>5. /\ procs' = [procs EXCEPT ![n] = (@ \ {p}) \cup {q}]
        /\ retryMap' = [retryMap EXCEPT ![n] = (@ \ {t}) \cup {u}]
        /\ armed' = [armed EXCEPT ![n] = @ \cup {Running(u, T1)}]
        /\ net' = net \cup {m}
    BY <1>1
  <1> HIDE DEF m, q
  <1>6. u \in Timers /\ Running(u, T1) \in Clocks
    BY <1>3, TimersMade
  <1> HIDE DEF u
  <1>7. UNCHANGED <<seqNum, lastTrxn, seqOf, cleanupMap, serving, requests, dups,
                    history>>
    BY DEF Resend
  <1>8. queue' \in [Nodes -> Seq(Timers)]
    BY TakeTyped DEF Resend
  <1>9. StackTyped'
    BY <1>3, <1>5, <1>6, <1>7 DEF Typed, StackTyped
  <1>10. armed' \in [Nodes -> SUBSET Clocks]
    BY <1>5, <1>6 DEF Typed, WorldTyped
  <1>11. WorldTyped'
    BY <1>4, <1>5, <1>7, <1>8, <1>10 DEF Typed, WorldTyped
  <1>12. HistoryTyped'
    BY <1>7 DEF Typed, HistoryTyped, history
  <1>13. Keyed'
    BY <1>2, <1>3, <1>5 DEF Typed, StackTyped, Keyed
  <1> QED
    BY <1>9, <1>11, <1>12, <1>13 DEF Typed

LEMMA TimeOutTyped ==
    ASSUME Typed, NEW n \in Nodes, TaskTimeOut(n) PROVE Typed'
  <1> DEFINE t == Head(queue[n])
  <1>1. queue[n] # <<>> /\ (DropTimeOut(n) \/ TimeOutEvent(n, t))
    BY DEF TaskTimeOut
  <1> HIDE DEF t
  <1>2. CASE DropTimeOut(n)
    <2>1. queue' \in [Nodes -> Seq(Timers)]
      BY <1>1, <1>2, TakeTyped DEF DropTimeOut
    <2> QED
      BY <1>2, <2>1 DEF DropTimeOut, Typed, StackTyped, WorldTyped, HistoryTyped,
         Keyed, stackVars, history
  <1>3. CASE Resend(n, t)
    BY <1>1, <1>3, ResendTyped
  <1>4. CASE Abort(n, t)
    <2>1. queue' \in [Nodes -> Seq(Timers)]
      BY <1>1, <1>4, TakeTyped DEF Abort
    <2>2. aborted' \subseteq Trxns
      BY <1>4 DEF Abort, Found, Typed, StackTyped, HistoryTyped, Procedures
    <2>3. retryMap' \in [Nodes -> SUBSET Timers]
      BY <1>4 DEF Abort, Typed, StackTyped
    <2>4. UNCHANGED <<seqNum, lastTrxn, procs, seqOf, cleanupMap, armed, serving, net,
                      requests, dups, started, answers, repeated>>
      BY <1>4 DEF Abort
    <2> QED
      BY <2>1, <2>2, <2>3, <2>4 DEF Typed, StackTyped, WorldTyped, HistoryTyped, Keyed
  <1>5. CASE CleanUp(n, t)
    <2>1. queue' \in [Nodes -> Seq(Timers)]
      BY <1>1, <1>5, TakeTyped DEF CleanUp
    <2>2. StackTyped' /\ Keyed'
      BY <1>5 DEF CleanUp, Typed, StackTyped, Keyed
    <2>3. UNCHANGED <<armed, serving, net, requests, dups, history>>
      BY <1>5 DEF CleanUp
    <2> QED
      BY <2>1, <2>2, <2>3 DEF Typed, WorldTyped, HistoryTyped, history
  <1>6. CASE StaleTimeOut(n, t)
    <2>1. queue' \in [Nodes -> Seq(Timers)]
      BY <1>1, <1>6, TakeTyped DEF StaleTimeOut
    <2>2. StackTyped' /\ Keyed'
      BY <1>6 DEF StaleTimeOut, Typed, StackTyped, Keyed
    <2>3. UNCHANGED <<armed, serving, net, requests, dups, history>>
      BY <1>6 DEF StaleTimeOut
    <2> QED
      BY <2>1, <2>2, <2>3 DEF Typed, WorldTyped, HistoryTyped, history
  <1> QED
    BY <1>1, <1>2, <1>3, <1>4, <1>5, <1>6 DEF TimeOutEvent

LEMMA StepTyped == ASSUME Typed, [Next]_vars PROVE Typed'
  <1>1. CASE UNCHANGED vars
    BY <1>1 DEF vars, stackVars, history, Typed, StackTyped, WorldTyped, HistoryTyped,
       Keyed
  <1>2. CASE Tick
    BY <1>2, TickTyped
  <1>3. ASSUME NEW n \in Requesters, NEW to \in Nodes, NEW y \in Types,
               SendRequest(n, to, y)
        PROVE  Typed'
    BY <1>3, SendRequestTyped, StackAssumption
  <1>4. ASSUME NEW n \in Nodes, Receive(n) PROVE Typed'
    <2>1. PICK m \in net : ReceiveInitial(n, m) \/ ReceiveAnswer(n, m) \/ Discard(n, m)
      BY <1>4 DEF Receive
    <2>2. CASE Discard(n, m)
      <3>1. net' \subseteq net /\ dups' \in 0 .. MaxDups
        BY <2>2, ArrivedTyped DEF Typed, Discard
      <3>2. UNCHANGED <<stackVars, armed, queue, serving, requests, history>>
        BY <2>2 DEF Discard
      <3> QED
        BY <3>1, <3>2 DEF stackVars, history, Typed, StackTyped, WorldTyped,
           HistoryTyped, Keyed
    <2> QED
      BY <2>1, <2>2, ReceiveInitialTyped, ReceiveAnswerTyped
  <1>5. ASSUME NEW n \in Nodes, Serve(n) PROVE Typed'
    BY <1>5, SendResponseTyped DEF Serve
  <1>6. ASSUME NEW n \in Nodes, Expire(n) PROVE Typed'
    BY <1>6, ExpireTyped
  <1>7. ASSUME NEW n \in Nodes, TaskTimeOut(n) PROVE Typed'
    BY <1>7, TimeOutTyped
  <1> QED
    BY <1>1, <1>2, <1>3, <1>4, <1>5, <1>6, <1>7 DEF Next

(* TypeOK: the maps of every node hold what their names say, and a         *)
(* sequence number leads to one pending procedure (pfcp_l4_stack).         *)
THEOREM StackTypes == Spec => []TypeOK
  <1>1. Typed => TypeOK
    BY DEF Typed, StackTyped, WorldTyped, HistoryTyped, Keyed, TypeOK, Entries, Clocks,
       Served, Packets
  <1> QED
    BY <1>1, InitTyped, StepTyped, PTL DEF Spec
------------------------------------------------------------------------------
(* Transactions and their numbers.                                         *)
Entry(x, s) == [trxn |-> x, seq |-> s]

(* trxn_id2seq_num is a map, its transactions are those given out so far,  *)
(* and it has the number of every pending procedure.                       *)
Numbered ==
    /\ \A n \in Nodes : \A e \in seqOf[n] :
          e.trxn.node = n /\ e.trxn.number <= lastTrxn[n]
    /\ \A n \in Nodes : \A e, f \in seqOf[n] : e.trxn = f.trxn => e = f
    /\ \A n \in Nodes : \A p \in procs[n] : Entry(p.trxn, p.seq) \in seqOf[n]
    /\ \A x \in started : x.number <= lastTrxn[x.node]
    /\ \A a \in answers : a.trxn.number <= lastTrxn[a.trxn.node]

(* A procedure with a message to send again is of a transaction begun here.*)
Owned == \A n \in Nodes : \A p \in procs[n] :
    /\ p.own <=> p.trxn \in started
    /\ p.own => p.kind = "request"

(* What is under way belongs to the transaction of a request, and carries  *)
(* the number it began with.                                               *)
UnderWay == \A m \in net :
    /\ m.rid \in started
    /\ Entry(m.rid, m.seq) \in seqOf[m.rid.node]
    /\ m.kind = "request" => m.from = m.rid.node
    /\ m.kind = "response" => m.to = m.rid.node

(* So does what is being served, under a transaction of its own.           *)
BeingServed == \A n \in Nodes :
    /\ \A v, w \in serving[n] : v.trxn = w.trxn => v = w
    /\ \A v \in serving[n] :
          /\ v.trxn \notin started
          /\ v.rid \in started
          /\ v.to = v.rid.node
          /\ \E s \in Seqs : Entry(v.trxn, s) \in seqOf[n]
                             /\ Entry(v.rid, s) \in seqOf[v.to]

(* A procedure that would take an answer has had none.                     *)
Unanswered == \A n \in Nodes : \A p \in procs[n] :
    p.kind = "request" /\ ~p.triggered => ~Answered(p.trxn)

StackInv == Typed /\ Numbered /\ Owned /\ UnderWay /\ BeingServed /\ Unanswered
                  /\ OneAnswer
------------------------------------------------------------------------------
(* A transaction that is given out now is nobody's yet.                    *)
LEMMA FreshTrxn ==
    ASSUME Typed, Numbered, NEW n \in Nodes
    PROVE  LET x == Trxn(n, lastTrxn[n] + 1) IN
           /\ x \in Trxns /\ x.node = n /\ x.number = lastTrxn[n] + 1
           /\ x \notin started
           /\ \A k \in Nodes : \A e \in seqOf[k] : e.trxn # x
           /\ \A k \in Nodes : \A p \in procs[k] : p.trxn # x
           /\ \A a \in answers : a.trxn # x
  <1> DEFINE x == Trxn(n, lastTrxn[n] + 1)
  <1>1. x \in Trxns /\ x.node = n /\ x.number = lastTrxn[n] + 1 /\ lastTrxn[n] \in Nat
    BY NextNumbers DEF Typed, StackTyped
  <1> HIDE DEF x
  <1>2. ~(x.number <= lastTrxn[x.node])
    BY <1>1
  <1>3. \A k \in Nodes : \A e \in seqOf[k] : e.trxn # x
    BY <1>1, <1>2 DEF Numbered
  <1>4. x \notin started /\ \A a \in answers : a.trxn # x
    BY <1>2 DEF Numbered
  <1>5. \A k \in Nodes : \A p \in procs[k] : p.trxn # x
    <2>1. \A k \in Nodes : \A p \in procs[k] : Entry(p.trxn, p.seq).trxn = p.trxn
      BY DEF Entry
    <2> QED
      BY <1>3, <2>1 DEF Numbered
  <1> QED
    BY <1>1, <1>3, <1>4, <1>5 DEF x

LEMMA InitInv == Init => StackInv
  <1> SUFFICES ASSUME Init PROVE StackInv
    OBVIOUS
  <1>1. Typed
    BY InitTyped
  <1> QED
    BY <1>1 DEF Init, StackInv, Numbered, Owned, UnderWay, BeingServed, Unanswered,
       OneAnswer

LEMMA SendRequestInv ==
    ASSUME StackInv, Typed', NEW n \in Nodes, NEW to \in Nodes, NEW y \in Types,
           SendRequest(n, to, y)
    PROVE  StackInv'
  <1> DEFINE s == NextSeq(n)
             x == Trxn(n, lastTrxn[n] + 1)
             m == Message("request", y, s, n, to, x)
             p == Procedure(s, x, m, TRUE)
             e == Entry(x, s)
  <1>1. /\ lastTrxn' = [lastTrxn EXCEPT ![n] = @ + 1]
        /\ procs' = [procs EXCEPT ![n] = Insert(n, p)]
        /\ seqOf' = [seqOf EXCEPT ![n] = @ \cup {e}]
        /\ net' = net \cup {m}
        /\ started' = started \cup {x}
        /\ UNCHANGED <<serving, answers, repeated>>
    BY DEF SendRequest, Entry
  <1>2. /\ x \in Trxns /\ x.node = n /\ x.number = lastTrxn[n] + 1
        /\ x \notin started
        /\ \A k \in Nodes : \A f \in seqOf[k] : f.trxn # x
        /\ \A k \in Nodes : \A q \in procs[k] : q.trxn # x
        /\ \A a \in answers : a.trxn # x
    BY FreshTrxn DEF StackInv
  <1>3. s \in Seqs
    BY NextNumbers DEF StackInv, Typed
  <1>4. m.rid = x /\ m.seq = s /\ m.kind = "request" /\ m.from = n
    BY DEF Message
  <1>5. /\ p.trxn = x /\ p.seq = s /\ p.own /\ p.kind = "request"
        /\ e.trxn = x /\ e.seq = s
    BY <1>4 DEF Procedure, Entry
  <1> HIDE DEF s, x, m, p, e
  <1>6. /\ \A k \in Nodes : lastTrxn[k] \in Nat /\ lastTrxn[k] <= lastTrxn'[k]
        /\ lastTrxn'[n] = lastTrxn[n] + 1
        /\ \A k \in Nodes : seqOf[k] \subseteq seqOf'[k]
        /\ \A k \in Nodes : \A f \in seqOf'[k] : f \in seqOf[k] \/ (k = n /\ f = e)
        /\ e \in seqOf'[n] /\ e = Entry(x, s)
        /\ \A k \in Nodes : \A q \in procs'[k] : q \in procs[k] \/ (k = n /\ q = p)
    BY <1>1 DEF StackInv, Typed, StackTyped, Insert, e
  <1>7. Numbered'
    <2>1. \A k \in Nodes : \A f \in seqOf'[k] :
             f.trxn.node = k /\ f.trxn.number <= lastTrxn'[k]
      BY <1>2, <1>5, <1>6 DEF StackInv, Numbered, Typed, StackTyped, Entries, Trxns
    <2>2. \A k \in Nodes : \A f, g \in seqOf'[k] : f.trxn = g.trxn => f = g
      BY <1>2, <1>5, <1>6 DEF StackInv, Numbered
    <2>3. \A k \in Nodes : \A q \in procs'[k] : Entry(q.trxn, q.seq) \in seqOf'[k]
      BY <1>5, <1>6 DEF StackInv, Numbered
    <2>4. \A z \in started' : z.number <= lastTrxn'[z.node]
      BY <1>1, <1>2, <1>6 DEF StackInv, Numbered, Typed, HistoryTyped, Trxns
    <2>5. \A a \in answers' : a.trxn.number <= lastTrxn'[a.trxn.node]
      BY <1>1, <1>6 DEF StackInv, Numbered, Typed, HistoryTyped, Trxns
    <2> QED
      BY <2>1, <2>2, <2>3, <2>4, <2>5 DEF Numbered
  <1>8. Owned'
    BY <1>1, <1>2, <1>5, <1>6 DEF StackInv, Owned
  <1>9. UnderWay'
    BY <1>1, <1>2, <1>4, <1>6 DEF StackInv, UnderWay, Typed, WorldTyped, Packets, Trxns
  <1>10. BeingServed'
    <2>1. ASSUME NEW k \in Nodes, NEW v \in serving[k]
          PROVE  v.to \in Nodes /\ v.trxn # x
      <3>1. v \in Served
        BY DEF StackInv, Typed, WorldTyped
      <3>2. PICK z \in Seqs : Entry(v.trxn, z) \in seqOf[k]
        BY DEF StackInv, BeingServed
      <3>3. Entry(v.trxn, z).trxn = v.trxn
        BY DEF Entry
      <3> QED
        BY <1>2, <3>1, <3>2, <3>3 DEF Served
    <2> QED
      BY <1>1, <1>6, <2>1 DEF StackInv, BeingServed
  <1>11. Unanswered' /\ OneAnswer'
    BY <1>1, <1>2, <1>5, <1>6 DEF StackInv, Unanswered, OneAnswer, Answered
  <1> QED
    BY <1>7, <1>8, <1>9, <1>10, <1>11 DEF StackInv

LEMMA ReceiveInitialInv ==
    ASSUME StackInv, Typed', NEW n \in Nodes, NEW m \in net, ReceiveInitial(n, m)
    PROVE  StackInv'
  <1> DEFINE x == Trxn(n, lastTrxn[n] + 1)
             p == Procedure(m.seq, x, m, FALSE)
             e == Entry(x, m.seq)
             v == [trxn |-> x, type |-> m.type, to |-> m.from, rid |-> m.rid]
             a == [trxn |-> x, rid |-> m.rid]
  <1>1. /\ Begins(n, m)
        /\ Arrive(m)
        /\ lastTrxn' = [lastTrxn EXCEPT ![n] = @ + 1]
        /\ procs' = [procs EXCEPT ![n] = Insert(n, p)]
        /\ seqOf' = [seqOf EXCEPT ![n] = @ \cup {e}]
        /\ \/ /\ m.kind = "request"
              /\ serving' = [serving EXCEPT ![n] = @ \cup {v}]
              /\ answers' = answers
           \/ /\ m.kind # "request"
              /\ answers' = answers \cup {a}
              /\ serving' = serving
        /\ started' = started /\ repeated' = repeated
    BY DEF ReceiveInitial, Entry
  <1>2. /\ x \in Trxns /\ x.node = n /\ x.number = lastTrxn[n] + 1
        /\ x \notin started
        /\ \A k \in Nodes : \A f \in seqOf[k] : f.trxn # x
        /\ \A k \in Nodes : \A q \in procs[k] : q.trxn # x
        /\ \A b \in answers : b.trxn # x
    BY FreshTrxn DEF StackInv
  <1>3. /\ m \in Packets
        /\ m.rid \in started
        /\ Entry(m.rid, m.seq) \in seqOf[m.rid.node]
        /\ m.kind = "request" => m.from = m.rid.node
    BY DEF StackInv, Typed, WorldTyped, UnderWay
  <1>4. /\ p.trxn = x /\ p.seq = m.seq /\ ~p.own /\ p.kind = m.kind
        /\ e.trxn = x /\ e.seq = m.seq
        /\ v.trxn = x /\ v.to = m.from /\ v.rid = m.rid /\ a.trxn = x
    BY DEF Procedure, Entry
  <1>5. e = Entry(x, m.seq)
    OBVIOUS
  <1>6. net' \subseteq net
    BY <1>1, ArrivedTyped DEF StackInv, Typed
  <1> HIDE DEF x, p, e, v, a
  <1>7. /\ \A k \in Nodes : lastTrxn[k] \in Nat /\ lastTrxn[k] <= lastTrxn'[k]
        /\ lastTrxn'[n] = lastTrxn[n] + 1
        /\ \A k \in Nodes : seqOf[k] \subseteq seqOf'[k]
        /\ \A k \in Nodes : \A f \in seqOf'[k] : f \in seqOf[k] \/ (k = n /\ f = e)
        /\ e \in seqOf'[n]
        /\ \A k \in Nodes : \A q \in procs'[k] : q \in procs[k] \/ (k = n /\ q = p)
    BY <1>1 DEF StackInv, Typed, StackTyped, Insert
  <1>8. Numbered'
    <2>1. \A k \in Nodes : \A f \in seqOf'[k] :
             f.trxn.node = k /\ f.trxn.number <= lastTrxn'[k]
      BY <1>2, <1>4, <1>7 DEF StackInv, Numbered, Typed, StackTyped, Entries, Trxns
    <2>2. \A k \in Nodes : \A f, g \in seqOf'[k] : f.trxn = g.trxn => f = g
      BY <1>2, <1>4, <1>7 DEF StackInv, Numbered
    <2>3. \A k \in Nodes : \A q \in procs'[k] : Entry(q.trxn, q.seq) \in seqOf'[k]
      BY <1>4, <1>5, <1>7 DEF StackInv, Numbered
    <2>4. \A z \in started' : z.number <= lastTrxn'[z.node]
      BY <1>1, <1>7 DEF StackInv, Numbered, Typed, HistoryTyped, Trxns
    <2>5. \A b \in answers' : b.trxn.number <= lastTrxn'[b.trxn.node]
      BY <1>1, <1>2, <1>4, <1>7 DEF StackInv, Numbered, Typed, HistoryTyped, Trxns
    <2> QED
      BY <2>1, <2>2, <2>3, <2>4, <2>5 DEF Numbered
  <1>9. Owned'
    BY <1>1, <1>2, <1>4, <1>7 DEF StackInv, Owned
  <1>10. UnderWay'
    BY <1>1, <1>6, <1>7 DEF StackInv, UnderWay, Typed, WorldTyped, Packets, Trxns
  <1>11. BeingServed'
    <2>1. ASSUME NEW k \in Nodes, NEW w \in serving[k]
          PROVE  w.to \in Nodes /\ w.trxn # x
      <3>1. w \in Served
        BY DEF StackInv, Typed, WorldTyped
      <3>2. PICK z \in Seqs : Entry(w.trxn, z) \in seqOf[k]
        BY DEF StackInv, BeingServed
      <3>3. Entry(w.trxn, z).trxn = w.trxn
        BY DEF Entry
      <3> QED
        BY <1>2, <3>1, <3>2, <3>3 DEF Served
    <2>2. CASE serving' = serving
      BY <1>1, <1>7, <2>1, <2>2 DEF StackInv, BeingServed
    <2>3. CASE serving' = [serving EXCEPT ![n] = @ \cup {v}] /\ m.kind = "request"
      <3>1. \A k \in Nodes : \A w \in serving'[k] : w \in serving[k] \/ (k = n /\ w = v)
        BY <2>3 DEF StackInv, Typed, WorldTyped
      <3>2. \A k \in Nodes : \A w, u \in serving'[k] : w.trxn = u.trxn => w = u
        BY <1>4, <2>1, <3>1 DEF StackInv, BeingServed
      <3>3. /\ v.trxn \notin started' /\ v.rid \in started' /\ v.to = v.rid.node
            /\ m.seq \in Seqs
            /\ Entry(v.trxn, m.seq) \in seqOf'[n]
            /\ Entry(v.rid, m.seq) \in seqOf'[v.to]
        BY <1>1, <1>2, <1>3, <1>4, <1>5, <1>7, <2>3 DEF Packets
      <3>4. ASSUME NEW k \in Nodes, NEW w \in serving[k]
            PROVE  /\ w.trxn \notin started' /\ w.rid \in started' /\ w.to = w.rid.node
                   /\ \E z \in Seqs : Entry(w.trxn, z) \in seqOf'[k]
                                      /\ Entry(w.rid, z) \in seqOf'[w.to]
        BY <1>1, <1>7, <2>1 DEF StackInv, BeingServed
      <3> QED
        BY <3>1, <3>2, <3>3, <3>4 DEF BeingServed
    <2> QED
      BY <1>1, <2>2, <2>3
  <1>12. Unanswered'
    BY <1>1, <1>2, <1>4, <1>7 DEF StackInv, Unanswered, Answered
  <1>13. OneAnswer'
    BY <1>1, <1>2, <1>4 DEF StackInv, OneAnswer
  <1> QED
    BY <1>8, <1>9, <1>10, <1>11, <1>12, <1>13 DEF StackInv

LEMMA ReceiveAnswerInv ==
    ASSUME StackInv, Typed', NEW n \in Nodes, NEW m \in net, ReceiveAnswer(n, m)
    PROVE  StackInv'
  <1>1. PICK p \in Found(n, m.seq) :
          /\ Answers(m, p)
          /\ Arrive(m)
          /\ procs' = [procs EXCEPT ![n] = (@ \ {p}) \cup {[p EXCEPT !.triggered = TRUE]}]
          /\ repeated' = IF Answered(p.trxn) THEN repeated \cup {p.trxn} ELSE repeated
          /\ answers' = answers \cup {[trxn |-> p.trxn, rid |-> m.rid]}
          /\ UNCHANGED <<lastTrxn, seqOf, serving, started>>
    BY DEF ReceiveAnswer
  <1> DEFINE q == [p EXCEPT !.triggered = TRUE]
             a == [trxn |-> p.trxn, rid |-> m.rid]
  <1>2. p \in procs[n] /\ p \in Procedures /\ p.kind = "request" /\ ~p.triggered
    BY <1>1 DEF StackInv, Typed, StackTyped, Found, Answers
  <1>3. /\ q.seq = p.seq /\ q.trxn = p.trxn /\ q.kind = p.kind /\ q.own = p.own
        /\ q.triggered
    BY <1>2 DEF Procedures
  <1>4. a.trxn = p.trxn /\ p.trxn \in Trxns
    BY <1>2 DEF Procedures
  <1>5. /\ procs' = [procs EXCEPT ![n] = (@ \ {p}) \cup {q}]
        /\ answers' = answers \cup {a}
    BY <1>1
  <1> HIDE DEF q, a
  <1>6. \A k \in Nodes : \A r \in procs'[k] :
            (r \in procs[k] /\ (k = n => r # p)) \/ (k = n /\ r = q)
    BY <1>5 DEF StackInv, Typed, StackTyped
  <1>7. ~Answered(p.trxn) /\ repeated' = repeated
    BY <1>1, <1>2 DEF StackInv, Unanswered
  <1>8. Entry(p.trxn, p.seq) \in seqOf[n]
    BY <1>2 DEF StackInv, Numbered
  <1>9. /\ p.trxn.node = n /\ p.trxn.number <= lastTrxn[n]
        /\ \A k \in Nodes : \A r \in procs[k] : r.trxn = p.trxn => k = n /\ r = p
    <2>1. \A k \in Nodes : \A r \in procs[k] :
             /\ Entry(r.trxn, r.seq) \in seqOf[k]
             /\ Entry(r.trxn, r.seq).trxn = r.trxn /\ Entry(r.trxn, r.seq).seq = r.seq
      BY DEF StackInv, Numbered, Entry
    <2>2. \A k \in Nodes : \A r \in procs[k] : r.trxn.node = k /\ r.trxn.number <= lastTrxn[k]
      BY <2>1 DEF StackInv, Numbered
    <2>3. \A r \in procs[n] : r.trxn = p.trxn => r.seq = p.seq
      BY <1>2, <2>1 DEF StackInv, Numbered
    <2> QED
      BY <1>2, <2>2, <2>3 DEF StackInv, Typed, Keyed
  <1>10. Numbered'
    BY <1>1, <1>3, <1>4, <1>5, <1>6, <1>8, <1>9 DEF StackInv, Numbered
  <1>11. Owned'
    BY <1>1, <1>2, <1>3, <1>6 DEF StackInv, Owned
  <1>12. UnderWay'
    BY <1>1, ArrivedTyped DEF StackInv, UnderWay, Typed
  <1>13. BeingServed'
    BY <1>1 DEF StackInv, BeingServed
  <1>14. Unanswered'
    BY <1>3, <1>4, <1>5, <1>6, <1>9 DEF StackInv, Unanswered, Answered
  <1>15. OneAnswer'
    BY <1>4, <1>5, <1>7 DEF StackInv, OneAnswer, Answered
  <1> QED
    BY <1>10, <1>11, <1>12, <1>13, <1>14, <1>15 DEF StackInv

LEMMA SendResponseInv ==
    ASSUME StackInv, Typed', NEW n \in Nodes, NEW v \in serving[n], SendResponse(n, v)
    PROVE  StackInv'
  <1> DEFINE entries == {e \in seqOf[n] : e.trxn = v.trxn}
             ended == UNION {Found(n, e.seq) : e \in entries}
             sent == {Message("response", v.type, e.seq, n, v.to, v.rid) : e \in entries}
  <1>1. /\ serving' = [serving EXCEPT ![n] = @ \ {v}]
        /\ net' = net \cup sent
        /\ procs' = [procs EXCEPT ![n] = @ \ ended]
        /\ seqOf' = [seqOf EXCEPT ![n] = @ \ entries]
        /\ UNCHANGED <<lastTrxn, started, answers, repeated>>
    BY DEF SendResponse, history
  <1>2. /\ v.trxn \notin started /\ v.rid \in started /\ v.to = v.rid.node
        /\ v.to \in Nodes
    BY DEF StackInv, BeingServed, Typed, WorldTyped, Served
  <1>3. PICK s \in Seqs : Entry(v.trxn, s) \in seqOf[n] /\ Entry(v.rid, s) \in seqOf[v.to]
    BY DEF StackInv, BeingServed
  <1>4. entries = {Entry(v.trxn, s)}
    <2>1. Entry(v.trxn, s).trxn = v.trxn
      BY DEF Entry
    <2> QED
      BY <1>3, <2>1 DEF StackInv, Numbered
  <1>5. ended = Found(n, s)
    <2>1. Entry(v.trxn, s).seq = s
      BY <1>3 DEF Entry
    <2>2. \A p : p \in ended <=> \E e \in entries : p \in Found(n, e.seq)
      OBVIOUS
    <2>3. \A p : p \in ended <=> p \in Found(n, s)
      BY <1>4, <2>1, <2>2, Zenon
    <2> QED
      BY <2>3, Zenon
  <1>6. \A m \in sent : /\ m.rid = v.rid /\ m.seq = s /\ m.kind = "response"
                        /\ m.to = v.to
    BY <1>4 DEF Message, Entry
  <1>7. \A e : e \in entries <=> e \in seqOf[n] /\ e.trxn = v.trxn
    OBVIOUS
  <1> HIDE DEF entries, ended, sent
  <1>8. \A k \in Nodes : \A e :
          /\ e \in seqOf'[k] => e \in seqOf[k]
          /\ e \in seqOf[k] /\ e.trxn # v.trxn => e \in seqOf'[k]
    BY <1>1, <1>7 DEF StackInv, Typed, StackTyped
  <1>9. \A x, z : Entry(x, z).trxn = x /\ Entry(x, z).seq = z
    BY DEF Entry
  <1>10. \A k \in Nodes : \A p \in procs'[k] :
            p \in procs[k] /\ (k = n => p.seq # s)
    BY <1>1, <1>5 DEF StackInv, Typed, StackTyped, Found
  <1>11. Numbered'
    <2>1. ASSUME NEW k \in Nodes, NEW p \in procs'[k]
          PROVE  Entry(p.trxn, p.seq) \in seqOf'[k]
      <3>1. Entry(p.trxn, p.seq) \in seqOf[k] /\ (k = n => p.seq # s)
        BY <1>10 DEF StackInv, Numbered
      <3>2. CASE p.trxn # v.trxn
        BY <1>8, <1>9, <3>1, <3>2
      <3>3. CASE p.trxn = v.trxn
        <4>1. k = n
          BY <1>3, <1>9, <3>1, <3>3 DEF StackInv, Numbered
        <4>2. Entry(p.trxn, p.seq) = Entry(v.trxn, s)
          BY <1>3, <1>9, <3>1, <3>3, <4>1 DEF StackInv, Numbered
        <4> QED
          BY <1>9, <3>1, <4>1, <4>2
      <3> QED
        BY <3>2, <3>3
    <2> QED
      BY <1>1, <1>8, <2>1 DEF StackInv, Numbered
  <1>12. Owned'
    BY <1>1, <1>10 DEF StackInv, Owned
  <1>13. UnderWay'
    <2>1. ASSUME NEW m \in net'
          PROVE  /\ m.rid \in started /\ m.rid.node \in Nodes
                 /\ Entry(m.rid, m.seq) \in seqOf[m.rid.node]
                 /\ m.kind = "request" => m.from = m.rid.node
                 /\ m.kind = "response" => m.to = m.rid.node
      BY <1>1, <1>2, <1>3, <1>6 DEF StackInv, UnderWay, Typed, WorldTyped, Packets, Trxns
    <2> QED
      BY <1>1, <1>2, <1>8, <1>9, <2>1 DEF UnderWay
  <1>14. BeingServed'
    <2>1. \A k \in Nodes : \A w \in serving'[k] : w \in serving[k] /\ (k = n => w # v)
      BY <1>1 DEF StackInv, Typed, WorldTyped
    <2>2. ASSUME NEW k \in Nodes, NEW w \in serving'[k]
          PROVE  \E z \in Seqs : Entry(w.trxn, z) \in seqOf'[k]
                                 /\ Entry(w.rid, z) \in seqOf'[w.to]
      <3>1. w.to \in Nodes /\ w.rid \in started
        BY <2>1 DEF StackInv, BeingServed, Typed, WorldTyped, Served
      <3>2. PICK z \in Seqs : Entry(w.trxn, z) \in seqOf[k] /\ Entry(w.rid, z) \in seqOf[w.to]
        BY <2>1 DEF StackInv, BeingServed
      <3>3. w.trxn # v.trxn
        <4>1. k # n => w.trxn.node # v.trxn.node
          BY <1>3, <1>9, <3>2 DEF StackInv, Numbered
        <4>2. k = n => w.trxn # v.trxn
          BY <2>1 DEF StackInv, BeingServed
        <4> QED
          BY <4>1, <4>2
      <3> QED
        BY <1>2, <1>8, <1>9, <3>1, <3>2, <3>3
    <2> QED
      BY <1>1, <2>1, <2>2 DEF StackInv, BeingServed
  <1>15. Unanswered' /\ OneAnswer'
    BY <1>1, <1>10 DEF StackInv, Unanswered, OneAnswer, Answered
  <1> QED
    BY <1>11, <1>12, <1>13, <1>14, <1>15 DEF StackInv

(* A step that begins, answers and serves nothing: its procedures are      *)
(* earlier ones, and it sends only what one of them asks for again.        *)
LEMMA QuietInv ==
    ASSUME StackInv, Typed',
           UNCHANGED <<lastTrxn, seqOf, serving, started, answers, repeated>>,
           \A k \in Nodes : \A q \in procs'[k] : \E p \in procs[k] :
              /\ q.seq = p.seq /\ q.trxn = p.trxn /\ q.kind = p.kind
              /\ q.own = p.own /\ q.triggered = p.triggered,
           \A m \in net' \ net : \E k \in Nodes : \E p \in procs[k] :
              p.own /\ m.kind = "request" /\ m.rid = p.trxn /\ m.seq = p.seq
              /\ m.from = k
    PROVE  StackInv'
  <1>1. Numbered'
    BY DEF StackInv, Numbered
  <1>2. Owned'
    BY DEF StackInv, Owned
  <1>3. UnderWay'
    <2>1. ASSUME NEW m \in net' \ net
          PROVE  /\ m.rid \in started /\ m.kind = "request" /\ m.from = m.rid.node
                 /\ Entry(m.rid, m.seq) \in seqOf[m.rid.node]
      <3>1. PICK k \in Nodes : \E p \in procs[k] :
               p.own /\ m.kind = "request" /\ m.rid = p.trxn /\ m.seq = p.seq
               /\ m.from = k
        OBVIOUS
      <3> PICK p \in procs[k] :
               p.own /\ m.kind = "request" /\ m.rid = p.trxn /\ m.seq = p.seq
               /\ m.from = k
        BY <3>1
      <3>2. p.trxn \in started /\ Entry(p.trxn, p.seq) \in seqOf[k]
        BY <3>1 DEF StackInv, Owned, Numbered
      <3>3. Entry(p.trxn, p.seq).trxn = p.trxn
        BY DEF Entry
      <3>4. p.trxn.node = k
        BY <3>2, <3>3 DEF StackInv, Numbered
      <3> QED
        BY <3>1, <3>2, <3>4
    <2> QED
      BY <2>1 DEF StackInv, UnderWay
  <1>4. BeingServed' /\ OneAnswer'
    BY DEF StackInv, BeingServed, OneAnswer
  <1>5. Unanswered'
    BY DEF StackInv, Unanswered, Answered
  <1> QED
    BY <1>1, <1>2, <1>3, <1>4, <1>5 DEF StackInv

LEMMA TimeOutInv ==
    ASSUME StackInv, Typed', NEW n \in Nodes, TaskTimeOut(n)
    PROVE  StackInv'
  <1>1. UNCHANGED <<lastTrxn, seqOf, serving, started, answers, repeated>>
    BY DEF TaskTimeOut, DropTimeOut, TimeOutEvent, Resend, Abort, CleanUp, StaleTimeOut,
       stackVars, history
  <1>2. CASE \E t : Resend(n, t)
    <2>1. PICK t : Resend(n, t)
      BY <1>2
    <2>2. PICK p \in Found(n, t.seq) :
            /\ p.own
            /\ procs' = [procs EXCEPT ![n] = (@ \ {p}) \cup {[p EXCEPT !.retries = @ + 1]}]
            /\ net' = net \cup {Message("request", p.type, p.seq, n, p.peer, p.trxn)}
      BY <2>1 DEF Resend
    <2> DEFINE q == [p EXCEPT !.retries = @ + 1]
               m == Message("request", p.type, p.seq, n, p.peer, p.trxn)
    <2>3. p \in procs[n] /\ p \in Procedures
      BY <2>2 DEF Found, StackInv, Typed, StackTyped
    <2>4. /\ q.seq = p.seq /\ q.trxn = p.trxn /\ q.kind = p.kind
          /\ q.own = p.own /\ q.triggered = p.triggered
      BY <2>3 DEF Procedures
    <2>5. m.kind = "request" /\ m.rid = p.trxn /\ m.seq = p.seq /\ m.from = n
      BY DEF Message
    <2>6. procs' = [procs EXCEPT ![n] = (@ \ {p}) \cup {q}] /\ net' = net \cup {m}
      BY <2>2
    <2> HIDE DEF q, m
    <2>7. \A k \in Nodes : \A r \in procs'[k] : r \in procs[k] \/ (k = n /\ r = q)
      BY <2>6 DEF StackInv, Typed, StackTyped
    <2>8. \A k \in Nodes : \A r \in procs'[k] : \E o \in procs[k] :
              /\ r.seq = o.seq /\ r.trxn = o.trxn /\ r.kind = o.kind
              /\ r.own = o.own /\ r.triggered = o.triggered
      BY <2>3, <2>4, <2>7
    <2> QED
      BY <1>1, <2>2, <2>3, <2>5, <2>6, <2>8, QuietInv
  <1>3. CASE ~\E t : Resend(n, t)
    <2>1. net' = net /\ \A k \in Nodes : procs'[k] \subseteq procs[k]
      BY <1>3 DEF TaskTimeOut, DropTimeOut, TimeOutEvent, Abort, CleanUp, StaleTimeOut,
         stackVars, StackInv, Typed, StackTyped
    <2> QED
      BY <1>1, <2>1, QuietInv
  <1> QED
    BY <1>2, <1>3

LEMMA StepInv == ASSUME StackInv, [Next]_vars PROVE StackInv'
  <1>1. Typed'
    BY StepTyped DEF StackInv
  <1>2. CASE UNCHANGED vars
    BY <1>1, <1>2, QuietInv DEF vars, stackVars, history
  <1>3. CASE Tick
    BY <1>1, <1>3, QuietInv DEF Tick, stackVars, history
  <1>4. ASSUME NEW n \in Requesters, NEW to \in Nodes, NEW y \in Types,
               SendRequest(n, to, y)
        PROVE  StackInv'
    BY <1>1, <1>4, SendRequestInv, StackAssumption
  <1>5. ASSUME NEW n \in Nodes, Receive(n) PROVE StackInv'
    <2>1. PICK m \in net : ReceiveInitial(n, m) \/ ReceiveAnswer(n, m) \/ Discard(n, m)
      BY <1>5 DEF Receive
    <2>2. CASE Discard(n, m)
      <3>1. net' \subseteq net
        BY <2>2, ArrivedTyped DEF Discard, StackInv, Typed
      <3> QED
        BY <1>1, <2>2, <3>1, QuietInv DEF Discard, stackVars, history
    <2> QED
      BY <1>1, <2>1, <2>2, ReceiveInitialInv, ReceiveAnswerInv
  <1>6. ASSUME NEW n \in Nodes, Serve(n) PROVE StackInv'
    BY <1>1, <1>6, SendResponseInv DEF Serve
  <1>7. ASSUME NEW n \in Nodes, Expire(n) PROVE StackInv'
    BY <1>1, <1>7, QuietInv DEF Expire, stackVars, history
  <1>8. ASSUME NEW n \in Nodes, TaskTimeOut(n) PROVE StackInv'
    BY <1>1, <1>8, TimeOutInv
  <1> QED
    BY <1>2, <1>3, <1>4, <1>5, <1>6, <1>7, <1>8 DEF Next

(* OneAnswer: the tasks get one answer to a transaction, however often its *)
(* response arrives (check_response_type, pfcp_procedure).                 *)
THEOREM AnsweredOnce == Spec => []OneAnswer
  <1>1. StackInv => OneAnswer
    BY DEF StackInv
  <1> QED
    BY <1>1, InitInv, StepInv, PTL DEF Spec
------------------------------------------------------------------------------
(* What is served has its pending procedure, as long as time-outs are      *)
(* dropped; so a copy of the request finds it.                             *)
Kept == \A n \in Nodes : \A v \in serving[n] : \E p \in procs[n] : p.trxn = v.trxn

LEMMA ProceduresStay ==
    ASSUME Kept, NoDoubleService, serving' = serving,
           \A k \in Nodes : \A p \in procs[k] : \E q \in procs'[k] : q.trxn = p.trxn
    PROVE  Kept' /\ NoDoubleService'
  BY DEF Kept, NoDoubleService

LEMMA ReceiveService ==
    ASSUME StackInv, Kept, NoDoubleService, NEW n \in Nodes, NEW m \in net,
           ReceiveInitial(n, m)
    PROVE  Kept' /\ NoDoubleService'
  <1> DEFINE x == Trxn(n, lastTrxn[n] + 1)
             p == Procedure(m.seq, x, m, FALSE)
             v == [trxn |-> x, type |-> m.type, to |-> m.from, rid |-> m.rid]
  <1>1. /\ Found(n, m.seq) = {}
        /\ procs' = [procs EXCEPT ![n] = Insert(n, p)]
        /\ \/ serving' = [serving EXCEPT ![n] = @ \cup {v}] /\ m.kind = "request"
           \/ serving' = serving
    BY DEF ReceiveInitial, Begins
  <1>2. p.trxn = x /\ p.seq = m.seq /\ v.trxn = x /\ v.rid = m.rid
    BY DEF Procedure
  <1> HIDE DEF x, p, v
  <1>3. procs' = [procs EXCEPT ![n] = @ \cup {p}]
    BY <1>1, <1>2 DEF Insert
  <1>4. p \in procs'[n] /\ \A k \in Nodes : procs[k] \subseteq procs'[k]
    BY <1>3 DEF StackInv, Typed, StackTyped
  <1>5. CASE serving' = serving
    BY <1>4, <1>5, ProceduresStay
  <1>6. CASE serving' = [serving EXCEPT ![n] = @ \cup {v}] /\ m.kind = "request"
    <2>1. \A k \in Nodes : \A w \in serving'[k] : w \in serving[k] \/ (k = n /\ w = v)
      BY <1>6 DEF StackInv, Typed, WorldTyped
    <2>2. Kept'
      BY <1>2, <1>4, <2>1 DEF Kept
    <2>3. ASSUME NEW w \in serving[n], w.rid = m.rid PROVE FALSE
      <3>1. PICK s \in Seqs : Entry(w.trxn, s) \in seqOf[n] /\ Entry(w.rid, s) \in seqOf[w.to]
        BY DEF StackInv, BeingServed
      <3>2. w.to = m.rid.node /\ w.to \in Nodes
        BY <2>3 DEF StackInv, BeingServed, Typed, WorldTyped, Served
      <3>3. Entry(m.rid, m.seq) \in seqOf[m.rid.node]
        BY DEF StackInv, UnderWay
      <3>4. \A y, z : Entry(y, z).trxn = y /\ Entry(y, z).seq = z
        BY DEF Entry
      <3>5. Entry(w.rid, s) = Entry(m.rid, m.seq)
        BY <2>3, <3>1, <3>2, <3>3, <3>4 DEF StackInv, Numbered
      <3>6. s = m.seq
        BY <3>4, <3>5
      <3>7. PICK q \in procs[n] : q.trxn = w.trxn
        BY DEF Kept
      <3>8. Entry(q.trxn, q.seq) = Entry(w.trxn, s)
        BY <3>1, <3>4, <3>7 DEF StackInv, Numbered
      <3>9. q \in Found(n, m.seq)
        BY <3>4, <3>6, <3>7, <3>8 DEF Found
      <3> QED
        BY <1>1, <3>9
    <2>4. NoDoubleService'
      BY <1>2, <2>1, <2>3 DEF NoDoubleService
    <2> QED
      BY <2>2, <2>4
  <1> QED
    BY <1>1, <1>5, <1>6

LEMMA ServeService ==
    ASSUME StackInv, Kept, NoDoubleService, NEW n \in Nodes, NEW v \in serving[n],
           SendResponse(n, v)
    PROVE  Kept' /\ NoDoubleService'
  <1> DEFINE entries == {e \in seqOf[n] : e.trxn = v.trxn}
             ended == UNION {Found(n, e.seq) : e \in entries}
  <1>1. /\ serving' = [serving EXCEPT ![n] = @ \ {v}]
        /\ procs' = [procs EXCEPT ![n] = @ \ ended]
    BY DEF SendResponse
  <1>2. ASSUME NEW q \in ended PROVE q.trxn = v.trxn
    <2>1. PICK e \in entries : q \in Found(n, e.seq)
      OBVIOUS
    <2>2. e \in seqOf[n] /\ e.trxn = v.trxn /\ q \in procs[n] /\ q.seq = e.seq
      BY <2>1 DEF Found
    <2>3. PICK p \in procs[n] : p.trxn = v.trxn
      BY DEF Kept
    <2>4. Entry(p.trxn, p.seq).trxn = p.trxn /\ Entry(p.trxn, p.seq).seq = p.seq
      BY DEF Entry
    <2>5. p.seq = q.seq
      BY <2>2, <2>3, <2>4 DEF StackInv, Numbered
    <2>6. p = q
      BY <2>2, <2>3, <2>5 DEF StackInv, Typed, Keyed
    <2> QED
      BY <2>3, <2>6
  <1> HIDE DEF entries, ended
  <1>3. \A k \in Nodes : \A w \in serving'[k] : w \in serving[k] /\ (k = n => w # v)
    BY <1>1 DEF StackInv, Typed, WorldTyped
  <1>4. ASSUME NEW k \in Nodes, NEW w \in serving'[k]
        PROVE  \E p \in procs'[k] : p.trxn = w.trxn
    <2>1. PICK p \in procs[k] : p.trxn = w.trxn
      BY <1>3 DEF Kept
    <2>2. k = n => w.trxn # v.trxn
      BY <1>3 DEF StackInv, BeingServed
    <2>3. p \in procs'[k]
      BY <1>1, <1>2, <2>1, <2>2 DEF StackInv, Typed, StackTyped
    <2> QED
      BY <2>1, <2>3
  <1> QED
    BY <1>3, <1>4 DEF Kept, NoDoubleService

LEMMA StepService ==
    ASSUME ~DispatchTimeouts, StackInv, Kept, NoDoubleService, [Next]_vars
    PROVE  Kept' /\ NoDoubleService'
  <1>1. CASE UNCHANGED vars
    BY <1>1 DEF vars, stackVars, Kept, NoDoubleService
  <1>2. CASE Tick
    BY <1>2 DEF Tick, stackVars, Kept, NoDoubleService
  <1>3. ASSUME NEW n \in Requesters, NEW to \in Nodes, NEW y \in Types,
               SendRequest(n, to, y)
        PROVE  Kept' /\ NoDoubleService'
    <2>1. PICK p : procs' = [procs EXCEPT ![n] = Insert(n, p)]
      BY <1>3 DEF SendRequest
    <2>2. \A k \in Nodes : procs[k] \subseteq procs'[k]
      BY <2>1, StackAssumption DEF Insert, StackInv, Typed, StackTyped
    <2>3. serving' = serving
      BY <1>3 DEF SendRequest
    <2> QED
      BY <2>2, <2>3, ProceduresStay
  <1>4. ASSUME NEW n \in Nodes, Receive(n) PROVE Kept' /\ NoDoubleService'
    <2>1. PICK m \in net : ReceiveInitial(n, m) \/ ReceiveAnswer(n, m) \/ Discard(n, m)
      BY <1>4 DEF Receive
    <2>2. CASE ReceiveAnswer(n, m)
      <3>1. PICK p \in Found(n, m.seq) :
              procs' = [procs EXCEPT ![n] = (@ \ {p}) \cup {[p EXCEPT !.triggered = TRUE]}]
        BY <2>2 DEF ReceiveAnswer
      <3> DEFINE q == [p EXCEPT !.triggered = TRUE]
      <3>2. p \in procs[n] /\ q.trxn = p.trxn
        BY <3>1 DEF Found, StackInv, Typed, StackTyped, Procedures
      <3> HIDE DEF q
      <3>3. procs' = [procs EXCEPT ![n] = (@ \ {p}) \cup {q}]
        BY <3>1 DEF q
      <3>4. q \in procs'[n] /\ \A k \in Nodes : \A r \in procs[k] : r \in procs'[k] \/ (k = n /\ r = p)
        BY <3>3 DEF StackInv, Typed, StackTyped
      <3>5. \A k \in Nodes : \A r \in procs[k] : \E o \in procs'[k] : o.trxn = r.trxn
        BY <3>2, <3>4
      <3>6. serving' = serving
        BY <2>2 DEF ReceiveAnswer
      <3> QED
        BY <3>5, <3>6, ProceduresStay
    <2>3. CASE Discard(n, m)
      BY <2>3 DEF Discard, stackVars, Kept, NoDoubleService
    <2> QED
      BY <2>1, <2>2, <2>3, ReceiveService
  <1>5. ASSUME NEW n \in Nodes, Serve(n) PROVE Kept' /\ NoDoubleService'
    BY <1>5, ServeService DEF Serve
  <1>6. ASSUME NEW n \in Nodes, Expire(n) PROVE Kept' /\ NoDoubleService'
    BY <1>6 DEF Expire, stackVars, Kept, NoDoubleService
  <1>7. ASSUME NEW n \in Nodes, TaskTimeOut(n) PROVE Kept' /\ NoDoubleService'
    BY <1>7 DEF TaskTimeOut, TimeOutEvent, DropTimeOut, stackVars, Kept, NoDoubleService
  <1> QED
    BY <1>1, <1>2, <1>3, <1>4, <1>5, <1>6, <1>7 DEF Next

(* NoDoubleService: with the time-outs dropped, as both programs drop      *)
(* them, a request that arrives again while the tasks work on it is not    *)
(* given to them a second time (handle_receive_message_cb).                *)
THEOREM ServedOnce == ASSUME ~DispatchTimeouts PROVE Spec => []NoDoubleService
  <1>1. Init => Kept /\ NoDoubleService
    BY DEF Init, Kept, NoDoubleService
  <1>2. StackInv /\ Kept /\ NoDoubleService /\ [Next]_vars => (Kept /\ NoDoubleService)'
    BY StepService
  <1> QED
    BY <1>1, <1>2, InitInv, StepInv, PTL DEF Spec
------------------------------------------------------------------------------
(* The numbers of a node's own requests: the i-th before the last one is i *)
(* places before seq_num, so as long as there are no more requests than    *)
(* numbers each has its own.                                               *)
Window == \A n \in Nodes : \A e \in seqOf[n] :
    e.trxn \in started =>
        \E i \in 0 .. requests[n] - 1 :
            \/ e.seq + i = seqNum[n]
            \/ e.seq + i = seqNum[n] + SeqMod

OneSeq == \A n \in Nodes : \A e, f \in seqOf[n] :
    e.trxn \in started /\ f.trxn \in started /\ e.seq = f.seq => e = f

LEMMA NextSeqWraps ==
    ASSUME Typed, NEW n \in Nodes
    PROVE  NextSeq(n) = IF seqNum[n] + 1 < SeqMod THEN seqNum[n] + 1 ELSE 0
  <1>1. seqNum[n] \in 0 .. SeqMod - 1 /\ SeqMod \in Nat \ {0}
    BY StackAssumption DEF Typed, StackTyped, Seqs
  <1>2. CASE seqNum[n] + 1 < SeqMod
    BY <1>1, <1>2 DEF NextSeq
  <1>3. CASE seqNum[n] + 1 = SeqMod
    BY <1>1, <1>3 DEF NextSeq
  <1> QED
    BY <1>1, <1>2, <1>3

LEMMA SendRequestWindow ==
    ASSUME MaxRequests <= SeqMod, StackInv, StackInv', Window, OneSeq,
           NEW n \in Nodes, NEW to \in Nodes, NEW y \in Types, SendRequest(n, to, y)
    PROVE  Window' /\ OneSeq'
  <1> DEFINE s == NextSeq(n)
             x == Trxn(n, lastTrxn[n] + 1)
             e == Entry(x, s)
  <1>1. /\ requests[n] < MaxRequests
        /\ requests' = [requests EXCEPT ![n] = @ + 1]
        /\ seqNum' = [seqNum EXCEPT ![n] = s]
        /\ seqOf' = [seqOf EXCEPT ![n] = @ \cup {e}]
        /\ started' = started \cup {x}
    BY DEF SendRequest, Entry
  <1>2. x \notin started /\ \A k \in Nodes : \A f \in seqOf[k] : f.trxn # x
    BY FreshTrxn DEF StackInv
  <1>3. s = IF seqNum[n] + 1 < SeqMod THEN seqNum[n] + 1 ELSE 0
    BY NextSeqWraps DEF StackInv
  <1>4. e.trxn = x /\ e.seq = s
    BY DEF Entry
  <1> HIDE DEF s, x, e
  <1>5. /\ \A k \in Nodes : \A f \in seqOf'[k] : f \in seqOf[k] \/ (k = n /\ f = e)
        /\ \A k \in Nodes : seqNum[k] \in 0 .. SeqMod - 1 /\ requests[k] \in Nat
        /\ seqNum'[n] = s /\ requests'[n] = requests[n] + 1
        /\ \A k \in Nodes \ {n} : seqNum'[k] = seqNum[k] /\ requests'[k] = requests[k]
        /\ SeqMod \in Nat \ {0} /\ requests[n] < SeqMod
    <2>1. /\ seqNum \in [Nodes -> 0 .. SeqMod - 1]
          /\ requests \in [Nodes -> 0 .. MaxRequests]
          /\ MaxRequests \in Nat /\ SeqMod \in Nat \ {0}
          /\ seqOf = [k \in Nodes |-> seqOf[k]]
      BY StackAssumption DEF StackInv, Typed, StackTyped, WorldTyped, Seqs
    <2>2. \A k \in Nodes : \A f \in seqOf'[k] : f \in seqOf[k] \/ (k = n /\ f = e)
      BY <1>1, <2>1
    <2>3. \A k \in Nodes : seqNum[k] \in 0 .. SeqMod - 1 /\ requests[k] \in Nat
      BY <2>1
    <2>4. seqNum'[n] = s /\ requests'[n] = requests[n] + 1 /\ requests[n] < SeqMod
      BY <1>1, <2>1
    <2>5. \A k \in Nodes \ {n} : seqNum'[k] = seqNum[k] /\ requests'[k] = requests[k]
      BY <1>1, <2>1
    <2> QED
      BY <2>1, <2>2, <2>3, <2>4, <2>5
  <1>6. ASSUME NEW f \in seqOf[n], f.trxn \in started
        PROVE  /\ f.seq # s
               /\ \E i \in 0 .. requests[n] : f.seq + i = s \/ f.seq + i = s + SeqMod
    <2>1. PICK i \in 0 .. requests[n] - 1 :
             f.seq + i = seqNum[n] \/ f.seq + i = seqNum[n] + SeqMod
      BY <1>6 DEF Window
    <2>2. f.seq \in 0 .. SeqMod - 1
      BY DEF StackInv, Typed, StackTyped, Entries, Seqs
    <2>3. f.seq # s
      BY <1>3, <1>5, <2>1, <2>2
    <2>4. i + 1 \in 0 .. requests[n]
          /\ (f.seq + (i + 1) = s \/ f.seq + (i + 1) = s + SeqMod)
      BY <1>3, <1>5, <2>1, <2>2
    <2> QED
      BY <2>3, <2>4
  <1>7. Window'
    <2>1. ASSUME NEW k \in Nodes, NEW f \in seqOf'[k], f.trxn \in started'
          PROVE  \E i \in 0 .. requests'[k] - 1 :
                    f.seq + i = seqNum'[k] \/ f.seq + i = seqNum'[k] + SeqMod
      <3>1. CASE k = n /\ f = e
        <4>1. 0 \in 0 .. requests'[k] - 1 /\ f.seq + 0 = seqNum'[k]
          BY <1>3, <1>4, <1>5, <3>1
        <4> QED
          BY <4>1
      <3>2. CASE k = n /\ f \in seqOf[n]
        <4>1. f.trxn \in started
          BY <1>1, <1>2, <2>1, <3>2
        <4>2. requests'[k] - 1 = requests[n]
          BY <1>5, <3>2
        <4> QED
          BY <1>5, <1>6, <3>2, <4>1, <4>2
      <3>3. CASE k # n /\ f \in seqOf[k]
        <4>1. f.trxn \in started
          BY <1>1, <1>2, <2>1, <3>3
        <4> QED
          BY <1>5, <3>3, <4>1 DEF Window
      <3> QED
        BY <1>5, <3>1, <3>2, <3>3
    <2> QED
      BY <2>1 DEF Window
  <1>8. OneSeq'
    BY <1>1, <1>2, <1>4, <1>5, <1>6 DEF OneSeq
  <1> QED
    BY <1>7, <1>8

(* Every other step leaves the numbers of the own requests alone.          *)
LEMMA NumbersStay ==
    ASSUME Window, OneSeq, UNCHANGED <<seqNum, requests, started>>,
           \A k \in Nodes : \A f \in seqOf'[k] : f \in seqOf[k] \/ f.trxn \notin started
    PROVE  Window' /\ OneSeq'
  BY DEF Window, OneSeq

LEMMA StepWindow ==
    ASSUME MaxRequests <= SeqMod, StackInv, StackInv', Window, OneSeq, [Next]_vars
    PROVE  Window' /\ OneSeq'
  <1>1. CASE UNCHANGED vars
    BY <1>1, NumbersStay DEF vars, stackVars, history
  <1>2. CASE Tick
    BY <1>2, NumbersStay DEF Tick, stackVars, history
  <1>3. ASSUME NEW n \in Requesters, NEW to \in Nodes, NEW y \in Types,
               SendRequest(n, to, y)
        PROVE  Window' /\ OneSeq'
    BY <1>3, SendRequestWindow, StackAssumption
  <1>4. ASSUME NEW n \in Nodes, NEW m \in net, ReceiveInitial(n, m)
        PROVE  Window' /\ OneSeq'
    <2> DEFINE x == Trxn(n, lastTrxn[n] + 1)
    <2>1. seqOf' = [seqOf EXCEPT ![n] = @ \cup {Entry(x, m.seq)}]
      BY <1>4 DEF ReceiveInitial, Entry
    <2>2. x \notin started /\ Entry(x, m.seq).trxn = x
      BY FreshTrxn DEF StackInv, Entry
    <2> HIDE DEF x
    <2>3. \A k \in Nodes : \A f \in seqOf'[k] : f \in seqOf[k] \/ f.trxn \notin started
      BY <2>1, <2>2 DEF StackInv, Typed, StackTyped
    <2> QED
      BY <1>4, <2>3, NumbersStay DEF ReceiveInitial
  <1>5. ASSUME NEW n \in Nodes, NEW m \in net, ReceiveAnswer(n, m) \/ Discard(n, m)
        PROVE  Window' /\ OneSeq'
    BY <1>5, NumbersStay DEF ReceiveAnswer, Discard, stackVars, history
  <1>6. ASSUME NEW n \in Nodes, Serve(n) PROVE Window' /\ OneSeq'
    <2>1. UNCHANGED <<seqNum, requests, started>>
      BY <1>6 DEF Serve, SendResponse, history
    <2>2. \A k \in Nodes : seqOf'[k] \subseteq seqOf[k]
      BY <1>6 DEF Serve, SendResponse, StackInv, Typed, StackTyped
    <2> QED
      BY <2>1, <2>2, NumbersStay
  <1>7. ASSUME NEW n \in Nodes, Expire(n) \/ TaskTimeOut(n) PROVE Window' /\ OneSeq'
    BY <1>7, NumbersStay DEF Expire, TaskTimeOut, DropTimeOut, TimeOutEvent, Resend,
       Abort, CleanUp, StaleTimeOut, stackVars, history
  <1> QED
    BY <1>1, <1>2, <1>3, <1>4, <1>5, <1>6, <1>7 DEF Next, Receive

LEMMA StepAnswersOwn ==
    ASSUME StackInv, OneSeq, AnswersOwn, [Next]_vars
    PROVE  AnswersOwn'
  <1>1. CASE UNCHANGED <<answers, started>>
    BY <1>1 DEF AnswersOwn
  <1>2. ASSUME NEW n \in Requesters, NEW to \in Nodes, NEW y \in Types,
               SendRequest(n, to, y)
        PROVE  AnswersOwn'
    <2>1. n \in Nodes
      BY StackAssumption
    <2> QED
      BY <1>2, <2>1, FreshTrxn DEF SendRequest, StackInv, AnswersOwn
  <1>3. ASSUME NEW n \in Nodes, NEW m \in net, ReceiveInitial(n, m)
        PROVE  AnswersOwn'
    BY <1>3, FreshTrxn DEF ReceiveInitial, StackInv, AnswersOwn
  <1>4. ASSUME NEW n \in Nodes, NEW m \in net, ReceiveAnswer(n, m)
        PROVE  AnswersOwn'
    <2>1. PICK p \in Found(n, m.seq) :
            /\ Answers(m, p)
            /\ answers' = answers \cup {[trxn |-> p.trxn, rid |-> m.rid]}
            /\ started' = started
      BY <1>4 DEF ReceiveAnswer
    <2>2. /\ p \in procs[n] /\ p.seq = m.seq
          /\ Entry(p.trxn, p.seq) \in seqOf[n]
      BY <2>1 DEF Found, StackInv, Numbered
    <2>3. /\ m.rid \in started /\ m.rid.node = n
          /\ Entry(m.rid, m.seq) \in seqOf[n]
      BY <1>4, <2>1 DEF ReceiveAnswer, Answers, StackInv, UnderWay
    <2>4. \A x, z : Entry(x, z).trxn = x /\ Entry(x, z).seq = z
      BY DEF Entry
    <2>5. p.trxn \in started => p.trxn = m.rid
      <3>1. ASSUME p.trxn \in started
            PROVE  Entry(p.trxn, p.seq) = Entry(m.rid, m.seq)
        BY <2>2, <2>3, <2>4, <3>1 DEF OneSeq
      <3> QED
        BY <2>4, <3>1
    <2> QED
      BY <2>1, <2>5 DEF AnswersOwn
  <1>5. ASSUME NEW n \in Nodes,
               Serve(n) \/ Expire(n) \/ TaskTimeOut(n) \/ \E m \in net : Discard(n, m)
        PROVE  UNCHANGED <<answers, started>>
    BY <1>5 DEF Serve, SendResponse, Discard, Expire, TaskTimeOut, DropTimeOut,
       TimeOutEvent, Resend, Abort, CleanUp, StaleTimeOut, stackVars, history
  <1>6. Tick \/ UNCHANGED vars => UNCHANGED <<answers, started>>
    BY DEF Tick, vars, history
  <1> QED
    BY <1>1, <1>2, <1>3, <1>4, <1>5, <1>6 DEF Next, Receive

(* AnswersOwn: as long as a node has not sent more requests than there are *)
(* sequence numbers, what it takes for the answer to one is the answer to  *)
(* that one, whichever messages are late, lost or repeated, whatever       *)
(* requests of its peers carry the same numbers, and whether time-outs are *)
(* dropped or not (handle_receive_message_cb).                             *)
THEOREM OwnAnswers == ASSUME MaxRequests <= SeqMod PROVE Spec => []AnswersOwn
  <1>1. Init => Window /\ OneSeq /\ AnswersOwn
    BY DEF Init, Window, OneSeq, AnswersOwn
  <1>2. StackInv /\ StackInv' /\ Window /\ OneSeq /\ [Next]_vars => (Window /\ OneSeq)'
    BY StepWindow
  <1>3. StackInv /\ OneSeq /\ AnswersOwn /\ [Next]_vars => AnswersOwn'
    BY StepAnswersOwn
  <1> QED
    BY <1>1, <1>2, <1>3, InitInv, StepInv, PTL DEF Spec
------------------------------------------------------------------------------
(* A timer in msg_out_retry_timers waits for the answer to the last        *)
(* transmission of its own transaction, which has had none.                *)
Waits(n, t) ==
    /\ t.kind = "retry"
    /\ t.trxn \in started
    /\ Entry(t.trxn, t.seq) \in seqOf[n]
    /\ \A p \in procs[n] : p.trxn = t.trxn => t.count = p.retries /\ ~p.triggered

Waited == \A n \in Nodes : \A t \in retryMap[n] : Waits(n, t)

(* Two such timers of one procedure are the same.                          *)
LEMMA OneRetryTimer ==
    ASSUME StackInv, Waited, NEW n \in Nodes, NEW t \in retryMap[n],
           NEW p \in procs[n], p.trxn = t.trxn
    PROVE  t = RetryTimer(p, p.retries)
  <1>1. \A x, z : Entry(x, z).trxn = x /\ Entry(x, z).seq = z
    BY DEF Entry
  <1>2. t \in Timers /\ t.kind = "retry" /\ t.count = p.retries
    BY DEF StackInv, Typed, StackTyped, Waited, Waits
  <1>3. Entry(t.trxn, t.seq) = Entry(p.trxn, p.seq)
    BY <1>1 DEF StackInv, Numbered, Waited, Waits
  <1>4. t.seq = p.seq
    BY <1>1, <1>3
  <1> QED
    BY <1>2, <1>4 DEF Timers, RetryTimer

(* A step that keeps the entries of own transactions, starts no timer and  *)
(* changes no procedure but for removing it or beginning a new one.        *)
LEMMA WaitedStays ==
    ASSUME StackInv, Waited,
           started' = started,
           \A k \in Nodes : retryMap'[k] \subseteq retryMap[k],
           \A k \in Nodes : \A e \in seqOf[k] : e.trxn \in started => e \in seqOf'[k],
           \A k \in Nodes : \A p \in procs'[k] : p \in procs[k] \/ p.trxn \notin started
    PROVE  Waited'
  <1>1. ASSUME NEW n \in Nodes, NEW t \in retryMap'[n] PROVE Waits(n, t)'
    <2>1. Waits(n, t) /\ Entry(t.trxn, t.seq).trxn = t.trxn
      BY DEF Waited, Entry
    <2> QED
      BY <2>1 DEF Waits
  <1> QED
    BY <1>1 DEF Waited

LEMMA SendRequestWaited ==
    ASSUME StackInv, Waited, NEW n \in Nodes, NEW to \in Nodes, NEW y \in Types,
           SendRequest(n, to, y)
    PROVE  Waited'
  <1> DEFINE s == NextSeq(n)
             x == Trxn(n, lastTrxn[n] + 1)
             p == Procedure(s, x, Message("request", y, s, n, to, x), TRUE)
             e == Entry(x, s)
             u == RetryTimer(p, 0)
  <1>1. /\ retryMap' = [retryMap EXCEPT ![n] = @ \cup {u}]
        /\ procs' = [procs EXCEPT ![n] = Insert(n, p)]
        /\ seqOf' = [seqOf EXCEPT ![n] = @ \cup {e}]
        /\ started' = started \cup {x}
    BY DEF SendRequest, Entry
  <1>2. x \notin started /\ \A k \in Nodes : \A q \in procs[k] : q.trxn # x
    BY FreshTrxn DEF StackInv
  <1>3. /\ p.trxn = x /\ p.seq = s /\ p.retries = 0 /\ ~p.triggered
        /\ u.kind = "retry" /\ u.trxn = x /\ u.seq = s /\ u.count = 0
    BY DEF Procedure, RetryTimer
  <1>4. e = Entry(x, s)
    OBVIOUS
  <1> HIDE DEF s, x, p, e, u
  <1>5. /\ \A k \in Nodes : \A t \in retryMap'[k] : t \in retryMap[k] \/ (k = n /\ t = u)
        /\ \A k \in Nodes : \A q \in procs'[k] : q \in procs[k] \/ (k = n /\ q = p)
        /\ \A k \in Nodes : seqOf[k] \subseteq seqOf'[k]
        /\ e \in seqOf'[n]
    BY <1>1 DEF Insert, StackInv, Typed, StackTyped
  <1>6. ASSUME NEW k \in Nodes, NEW t \in retryMap[k] PROVE Waits(k, t)'
    <2>1. Waits(k, t) /\ t.trxn # x
      BY <1>2 DEF Waited, Waits
    <2> QED
      BY <1>1, <1>3, <1>5, <2>1 DEF Waits
  <1>7. /\ u.kind = "retry" /\ u.trxn \in started'
        /\ Entry(u.trxn, u.seq) \in seqOf'[n]
        /\ \A q \in procs'[n] : q.trxn = u.trxn => u.count = q.retries /\ ~q.triggered
    BY <1>1, <1>2, <1>3, <1>4, <1>5
  <1>8. ASSUME NEW k \in Nodes, NEW t \in retryMap'[k] PROVE Waits(k, t)'
    <2>1. CASE t \in retryMap[k]
      BY <1>6, <2>1
    <2>2. CASE k = n /\ t = u
      BY <1>7, <2>2 DEF Waits
    <2> QED
      BY <1>5, <2>1, <2>2
  <1> QED
    BY <1>8 DEF Waited

LEMMA ReceiveAnswerWaited ==
    ASSUME StackInv, Waited, NEW n \in Nodes, NEW m \in net, ReceiveAnswer(n, m)
    PROVE  Waited'
  <1>1. PICK p \in Found(n, m.seq) :
          /\ procs' = [procs EXCEPT ![n] = (@ \ {p}) \cup {[p EXCEPT !.triggered = TRUE]}]
          /\ retryMap' = [retryMap EXCEPT ![n] = @ \ {RetryTimer(p, p.retries)}]
          /\ UNCHANGED <<seqOf, started>>
    BY DEF ReceiveAnswer, StopMsgRetryTimer
  <1> DEFINE q == [p EXCEPT !.triggered = TRUE]
  <1>2. p \in procs[n] /\ q.trxn = p.trxn
    BY <1>1 DEF Found, StackInv, Typed, StackTyped, Procedures
  <1>3. procs' = [procs EXCEPT ![n] = (@ \ {p}) \cup {q}]
    BY <1>1
  <1> HIDE DEF q
  <1>4. /\ \A k \in Nodes : \A r \in procs'[k] : r \in procs[k] \/ (k = n /\ r = q)
        /\ \A k \in Nodes : \A t \in retryMap'[k] :
              t \in retryMap[k] /\ (k = n => t # RetryTimer(p, p.retries))
    BY <1>1, <1>3 DEF StackInv, Typed, StackTyped
  <1>5. ASSUME NEW k \in Nodes, NEW t \in retryMap'[k] PROVE Waits(k, t)'
    <2>1. Waits(k, t) /\ (k = n => t.trxn # p.trxn)
      BY <1>2, <1>4, OneRetryTimer DEF Waited
    <2> QED
      BY <1>1, <1>2, <1>4, <2>1 DEF Waits
  <1> QED
    BY <1>5 DEF Waited

(* The procedure a time-out finds, if it is an own one, is the one the     *)
(* timer was set up for.                                                   *)
LEMMA OwnProcedureFound ==
    ASSUME StackInv, OneSeq, Waited, NEW n \in Nodes, NEW t \in retryMap[n],
           NEW p \in Found(n, t.seq), p.trxn \in started
    PROVE  p \in procs[n] /\ p.trxn = t.trxn /\ ~p.triggered /\ ~Answered(p.trxn)
  <1>1. \A x, z : Entry(x, z).trxn = x /\ Entry(x, z).seq = z
    BY DEF Entry
  <1>2. p \in procs[n] /\ p.seq = t.seq
    BY DEF Found
  <1>3. Entry(p.trxn, p.seq) = Entry(t.trxn, t.seq)
    BY <1>1, <1>2 DEF StackInv, Numbered, OneSeq, Waited, Waits
  <1>4. p.trxn = t.trxn
    BY <1>1, <1>3
  <1>5. ~p.triggered /\ p.kind = "request"
    BY <1>2, <1>4 DEF Waited, Waits, StackInv, Owned
  <1> QED
    BY <1>2, <1>4, <1>5 DEF StackInv, Unanswered

LEMMA ResendWaited ==
    ASSUME StackInv, OneSeq, Waited, NEW n \in Nodes, NEW t, Resend(n, t)
    PROVE  Waited'
  <1>1. PICK p \in Found(n, t.seq) :
          /\ p.own
          /\ LET q == [p EXCEPT !.retries = @ + 1]
                 u == RetryTimer(q, q.retries)
             IN  /\ procs' = [procs EXCEPT ![n] = (@ \ {p}) \cup {q}]
                 /\ retryMap' = [retryMap EXCEPT ![n] = (@ \ {t}) \cup {u}]
    BY DEF Resend
  <1> DEFINE q == [p EXCEPT !.retries = @ + 1]
             u == RetryTimer(q, q.retries)
  <1>2. t \in retryMap[n] /\ UNCHANGED <<seqOf, started>>
    BY DEF Resend, history
  <1>3. p \in procs[n] /\ p \in Procedures /\ p.trxn \in started
    BY <1>1 DEF Found, StackInv, Typed, StackTyped, Owned
  <1>4. p.trxn = t.trxn /\ ~p.triggered
    BY <1>2, <1>3, OwnProcedureFound
  <1>5. /\ q.trxn = p.trxn /\ q.seq = p.seq /\ ~q.triggered
        /\ u.kind = "retry" /\ u.trxn = q.trxn /\ u.seq = q.seq /\ u.count = q.retries
    BY <1>3, <1>4 DEF Procedures, RetryTimer
  <1>6. /\ procs' = [procs EXCEPT ![n] = (@ \ {p}) \cup {q}]
        /\ retryMap' = [retryMap EXCEPT ![n] = (@ \ {t}) \cup {u}]
    BY <1>1
  <1> HIDE DEF q, u
  <1>7. /\ \A k \in Nodes : \A r \in procs'[k] :
              (r \in procs[k] /\ (k = n => r # p)) \/ (k = n /\ r = q)
        /\ \A k \in Nodes : \A z \in retryMap'[k] :
              (z \in retryMap[k] /\ (k = n => z # t)) \/ (k = n /\ z = u)
    BY <1>6 DEF StackInv, Typed, StackTyped
  <1>8. \A r \in procs[n] : r.trxn = p.trxn => r = p
    <2>1. \A x, z : Entry(x, z).trxn = x /\ Entry(x, z).seq = z
      BY DEF Entry
    <2>2. \A r \in procs[n] : r.trxn = p.trxn => r.seq = p.seq
      BY <1>3, <2>1 DEF StackInv, Numbered
    <2> QED
      BY <1>3, <2>2 DEF StackInv, Typed, Keyed
  <1>9. Waits(n, u)'
    <2>1. Entry(p.trxn, p.seq) \in seqOf[n]
      BY <1>3 DEF StackInv, Numbered
    <2> QED
      BY <1>2, <1>3, <1>5, <1>7, <1>8, <2>1 DEF Waits
  <1>10. ASSUME NEW k \in Nodes, NEW z \in retryMap[k], k = n => z # t
         PROVE  Waits(k, z)'
    <2>1. Waits(k, z)
      BY DEF Waited
    <2>2. k = n => z.trxn # p.trxn
      BY <1>2, <1>3, <1>4, <1>10, OneRetryTimer
    <2> QED
      BY <1>2, <1>5, <1>7, <2>1, <2>2 DEF Waits
  <1> QED
    BY <1>7, <1>9, <1>10 DEF Waited

LEMMA StepWaited ==
    ASSUME StackInv, OneSeq, Waited, [Next]_vars
    PROVE  Waited'
  <1>1. CASE UNCHANGED vars
    BY <1>1, WaitedStays DEF vars, stackVars, history
  <1>2. CASE Tick
    BY <1>2, WaitedStays DEF Tick, stackVars, history
  <1>3. ASSUME NEW n \in Requesters, NEW to \in Nodes, NEW y \in Types,
               SendRequest(n, to, y)
        PROVE  Waited'
    BY <1>3, SendRequestWaited, StackAssumption
  <1>4. ASSUME NEW n \in Nodes, NEW m \in net, ReceiveInitial(n, m)
        PROVE  Waited'
    <2> DEFINE x == Trxn(n, lastTrxn[n] + 1)
               p == Procedure(m.seq, x, m, FALSE)
    <2>1. /\ seqOf' = [seqOf EXCEPT ![n] = @ \cup {Entry(x, m.seq)}]
          /\ procs' = [procs EXCEPT ![n] = Insert(n, p)]
          /\ retryMap' = retryMap /\ started' = started
      BY <1>4 DEF ReceiveInitial, Entry
    <2>2. p.trxn = x /\ x \notin started
      BY FreshTrxn DEF StackInv, Procedure
    <2> HIDE DEF x, p
    <2>3. /\ \A k \in Nodes : seqOf[k] \subseteq seqOf'[k]
          /\ \A k \in Nodes : \A q \in procs'[k] : q \in procs[k] \/ q.trxn \notin started
      BY <2>1, <2>2 DEF Insert, StackInv, Typed, StackTyped
    <2> QED
      BY <2>1, <2>3, WaitedStays
  <1>5. ASSUME NEW n \in Nodes, NEW m \in net, ReceiveAnswer(n, m)
        PROVE  Waited'
    BY <1>5, ReceiveAnswerWaited
  <1>6. ASSUME NEW n \in Nodes, NEW m \in net, Discard(n, m)
        PROVE  Waited'
    BY <1>6, WaitedStays DEF Discard, stackVars, history
  <1>7. ASSUME NEW n \in Nodes, NEW v \in serving[n], SendResponse(n, v)
        PROVE  Waited'
    <2>1. v.trxn \notin started
      BY DEF StackInv, BeingServed
    <2>2. /\ \A k \in Nodes : procs'[k] \subseteq procs[k]
          /\ \A k \in Nodes : \A e \in seqOf[k] : e.trxn \in started => e \in seqOf'[k]
      BY <1>7, <2>1 DEF SendResponse, StackInv, Typed, StackTyped
    <2>3. retryMap' = retryMap /\ started' = started
      BY <1>7 DEF SendResponse, history
    <2> QED
      BY <2>2, <2>3, WaitedStays
  <1>8. ASSUME NEW n \in Nodes, Expire(n)
        PROVE  Waited'
    BY <1>8, WaitedStays DEF Expire, stackVars, history
  <1>9. ASSUME NEW n \in Nodes, TaskTimeOut(n)
        PROVE  Waited'
    <2> DEFINE t == Head(queue[n])
    <2>1. CASE Resend(n, t)
      BY <2>1, ResendWaited
    <2>2. CASE DropTimeOut(n) \/ Abort(n, t) \/ CleanUp(n, t) \/ StaleTimeOut(n, t)
      <3>1. /\ \A k \in Nodes : retryMap'[k] \subseteq retryMap[k]
            /\ \A k \in Nodes : procs'[k] \subseteq procs[k]
            /\ seqOf' = seqOf /\ started' = started
        BY <2>2 DEF DropTimeOut, Abort, CleanUp, StaleTimeOut, stackVars, history,
           StackInv, Typed, StackTyped
      <3> QED
        BY <3>1, WaitedStays
    <2> QED
      BY <1>9, <2>1, <2>2 DEF TaskTimeOut, TimeOutEvent
  <1> QED
    BY <1>1, <1>2, <1>3, <1>4, <1>5, <1>6, <1>7, <1>8, <1>9 DEF Next, Receive, Serve

(* Once a request is answered, no step sends it again or gives it up.      *)
LEMMA StepQuiet ==
    ASSUME StackInv, OneSeq, Waited, [Next]_vars,
           NEW x \in started, Answered(x)
    PROVE  /\ x \in aborted' => x \in aborted
           /\ \A m \in net' \ net : m.kind = "request" => m.rid # x
  <1>1. CASE aborted' = aborted /\ net' \subseteq net
    BY <1>1
  <1>2. ASSUME NEW n \in Requesters, NEW to \in Nodes, NEW y \in Types,
               SendRequest(n, to, y)
        PROVE  aborted' = aborted /\ \A m \in net' \ net : m.rid # x
    <2>1. n \in Nodes
      BY StackAssumption
    <2> DEFINE z == Trxn(n, lastTrxn[n] + 1)
               m == Message("request", y, NextSeq(n), n, to, z)
    <2>2. aborted' = aborted /\ net' = net \cup {m}
      BY <1>2 DEF SendRequest
    <2>3. m.rid = z /\ z \notin started
      BY <2>1, FreshTrxn DEF StackInv, Message
    <2> HIDE DEF z, m
    <2> QED
      BY <2>2, <2>3
  <1>3. ASSUME NEW n \in Nodes, NEW v \in serving[n], SendResponse(n, v)
        PROVE  aborted' = aborted /\ \A m \in net' \ net : m.kind = "response"
    BY <1>3 DEF SendResponse, Message, history
  <1>4. ASSUME NEW n \in Nodes, NEW t, Resend(n, t)
        PROVE  aborted' = aborted /\ \A m \in net' \ net : m.rid # x
    <2>1. PICK p \in Found(n, t.seq) :
            /\ p.own
            /\ net' = net \cup {Message("request", p.type, p.seq, n, p.peer, p.trxn)}
      BY <1>4 DEF Resend
    <2>2. t \in retryMap[n] /\ aborted' = aborted
      BY <1>4 DEF Resend, history
    <2>3. p.trxn \in started
      BY <2>1 DEF Found, StackInv, Owned
    <2>4. ~Answered(p.trxn)
      BY <2>2, <2>3, OwnProcedureFound
    <2> QED
      BY <2>1, <2>2, <2>4 DEF Message
  <1>5. ASSUME NEW n \in Nodes, NEW t, Abort(n, t)
        PROVE  net' = net /\ (x \in aborted' => x \in aborted)
    <2>1. PICK p \in Found(n, t.seq) : aborted' = aborted \cup {p.trxn}
      BY <1>5 DEF Abort
    <2>2. t \in retryMap[n] /\ net' = net
      BY <1>5 DEF Abort
    <2>3. p.trxn \in started => ~Answered(p.trxn)
      BY <2>2, OwnProcedureFound
    <2> QED
      BY <2>1, <2>2, <2>3
  <1>6. ASSUME NEW n \in Nodes, NEW m \in net,
               ReceiveInitial(n, m) \/ ReceiveAnswer(n, m) \/ Discard(n, m)
        PROVE  aborted' = aborted /\ net' \subseteq net
    BY <1>6 DEF ReceiveInitial, ReceiveAnswer, Discard, Arrive, history
  <1>7. ASSUME NEW n \in Nodes, Expire(n)
        PROVE  aborted' = aborted /\ net' = net
    BY <1>7 DEF Expire, history
  <1>8. ASSUME NEW n \in Nodes, NEW t,
               DropTimeOut(n) \/ CleanUp(n, t) \/ StaleTimeOut(n, t)
        PROVE  aborted' = aborted /\ net' = net
    BY <1>8 DEF DropTimeOut, CleanUp, StaleTimeOut, history
  <1>9. Tick \/ UNCHANGED vars => aborted' = aborted /\ net' = net
    BY DEF Tick, vars, history
  <1>10. ASSUME NEW n \in Nodes, Serve(n)
         PROVE  aborted' = aborted /\ \A m \in net' \ net : m.kind = "response"
    BY <1>3, <1>10 DEF Serve
  <1>11. ASSUME NEW n \in Nodes, TaskTimeOut(n)
         PROVE  /\ x \in aborted' => x \in aborted
                /\ \A m \in net' \ net : m.rid # x
    BY <1>4, <1>5, <1>8, <1>11 DEF TaskTimeOut, TimeOutEvent
  <1> QED
    BY <1>1, <1>2, <1>6, <1>7, <1>9, <1>10, <1>11 DEF Next, Receive

(* QuietAfterAnswer: a request that was answered is not sent again nor     *)
(* given up, although the time-out of its answer may already be in the     *)
(* queue of the task (time_out_event).                                     *)
THEOREM Quiet == ASSUME MaxRequests <= SeqMod PROVE Spec => QuietAfterAnswer
  <1>1. Init => Window /\ OneSeq /\ Waited
    BY DEF Init, Window, OneSeq, Waited
  <1>2. StackInv /\ StackInv' /\ Window /\ OneSeq /\ [Next]_vars => (Window /\ OneSeq)'
    BY StepWindow
  <1>3. StackInv /\ OneSeq /\ Waited /\ [Next]_vars => Waited'
    BY StepWaited
  <1>4. StackInv /\ OneSeq /\ Waited /\ [Next]_vars =>
           [\A x \in started : Answered(x) =>
              /\ x \in aborted' => x \in aborted
              /\ \A m \in net' \ net : m.kind = "request" => m.rid # x]_vars
    BY StepQuiet
  <1> QED
    BY <1>1, <1>2, <1>3, <1>4, InitInv, StepInv, PTL DEF Spec, QuietAfterAnswer
==============================================================================
