------------------------------ MODULE PfcpStack -------------------------------
(***************************************************************************)
(* The transaction layer of PFCP (src/pfcp/pfcp.cpp, the same in SMF and   *)
(* UPF): class pfcp_l4_stack, which numbers the requests of its node,      *)
(* pairs the messages that arrive with its pending procedures, and is      *)
(* meant to send a request again that nobody answers.                      *)
(*                                                                         *)
(* Each call into the stack is one action: its maps are used without a     *)
(* lock by the UDP thread and by the N4 task, and a step of one of them is *)
(* taken to end before the other begins one.                               *)
(*                                                                         *)
(* Time is counted in units of PFCP_T1_RESPONSE_MS.  A timer that expires  *)
(* puts a TIME_OUT message into the queue of its task; none is lost.  The tasks of both  *)
(* programs drop the time-outs of the stack, whose arg1_user is 0          *)
(* (smf_n4.cpp:171, spgwu_sx.cpp:173): DispatchTimeouts is FALSE.  With    *)
(* TRUE the module is the stack as its interface asks to be called.        *)
(*                                                                         *)
(* Network.  A message in net arrives some time later or never; MaxDups of *)
(* them arrive twice.                                                      *)
(***************************************************************************)
EXTENDS Naturals, Sequences

CONSTANTS
    Nodes,             \* the PFCP entities: an SMF and its UPFs
    Requesters,        \* those that start transactions
    Types,             \* what a request asks for
    ReportTypes,       \* types whose responses check_request_type lets pass
    SeqMod,            \* sequence numbers of a message: 2^24
    N1,                \* PFCP_N1_REQUESTS
    DispatchTimeouts,  \* a time-out is passed to time_out_event
    MaxRequests,       \* bound on the requests of a node
    MaxDups            \* bound on the messages that arrive twice

T1 == 1                \* PFCP_T1_RESPONSE_MS
ProcTimeOut == T1 * (N1 + 1 + 1)

ASSUME StackAssumption ==
    /\ Requesters \subseteq Nodes
    /\ ReportTypes \subseteq Types
    /\ SeqMod \in Nat \ {0}
    /\ N1 \in Nat
    /\ DispatchTimeouts \in BOOLEAN
    /\ MaxRequests \in Nat
    /\ MaxDups \in Nat

VARIABLES
    seqNum,     \* seq_num of each node, as it goes into a message
    lastTrxn,   \* what generate_trxn_id gave out last
    procs,      \* pending_procedures: at most one per sequence number
    seqOf,      \* trxn_id2seq_num, as a set of records
    retryMap,   \* msg_out_retry_timers, as a set of timers
    cleanupMap, \* proc_cleanup_timers
    armed,      \* ITTI timers running, with the time left
    queue,      \* time-outs queued for the task of each node
    serving,    \* requests handed to the tasks of a node and not answered yet
    net,        \* messages under way
    requests,   \* number of requests each node has sent
    dups,       \* number of messages that arrived twice
    started,    \* history: transactions begun by send_request
    answers,    \* history: answers handed to the tasks, with their transaction
    repeated,   \* history: transactions that were answered more than once
    aborted     \* history: transactions given up

stackVars == <<seqNum, lastTrxn, procs, seqOf, retryMap, cleanupMap>>
history == <<started, answers, repeated, aborted>>
vars == <<stackVars, armed, queue, serving, net, requests, dups, history>>

(* A transaction is named by its node and its number: trxn_id is unique in *)
(* a process.                                                              *)
Trxn(n, k) == [node |-> n, number |-> k]

(* The timers of procedure p: the one that waits for the answer to its     *)
(* k-th transmission, and the one that ends it.                            *)
RetryTimer(p, k) == [kind |-> "retry", trxn |-> p.trxn, seq |-> p.seq, count |-> k]
CleanupTimer(p) == [kind |-> "cleanup", trxn |-> p.trxn, seq |-> p.seq, count |-> 0]
Running(t, time) == [timer |-> t, left |-> time]

Stop(S, T) == {r \in S : r.timer \notin T}

Found(n, s) == {p \in procs[n] : p.seq = s}

(* Fault: procedures of the same sequence number are kept side by side.    *)
InsertBeside(n, p) == procs[n] \cup {p}

(* std::map::insert: an entry of the same key stays.                       *)
Insert(n, p) == IF Found(n, p.seq) = {} THEN procs[n] \cup {p} ELSE procs[n]

Init ==
    /\ seqNum \in [Nodes -> 0 .. SeqMod - 1]
    /\ lastTrxn = [n \in Nodes |-> 0]
    /\ procs = [n \in Nodes |-> {}]
    /\ seqOf = [n \in Nodes |-> {}]
    /\ retryMap = [n \in Nodes |-> {}]
    /\ cleanupMap = [n \in Nodes |-> {}]
    /\ armed = [n \in Nodes |-> {}]
    /\ queue = [n \in Nodes |-> <<>>]
    /\ serving = [n \in Nodes |-> {}]
    /\ net = {}
    /\ requests = [n \in Nodes |-> 0]
    /\ dups = 0
    /\ started = {}
    /\ answers = {}
    /\ repeated = {}
    /\ aborted = {}
------------------------------------------------------------------------------
Message(kind, type, s, from, to, rid) ==
    [kind |-> kind, type |-> type, seq |-> s, from |-> from, to |-> to, rid |-> rid]

(* pfcp_procedure.  own: it has a retry_msg, which is a request to peer.   *)
Procedure(s, x, m, own) ==
    [seq |-> s, trxn |-> x, kind |-> m.kind, type |-> m.type, own |-> own,
     peer |-> IF own THEN m.to ELSE m.from, triggered |-> FALSE, retries |-> 0]

(* Fault: the sequence number is not incremented.                          *)
SameSeq(n) == seqNum[n]

NextSeq(n) == (seqNum[n] + 1) % SeqMod

(* send_request.                                                           *)
SendRequest(n, to, type) ==
    LET s == NextSeq(n)
        x == Trxn(n, lastTrxn[n] + 1)
        m == Message("request", type, s, n, to, x)
        p == Procedure(s, x, m, TRUE)
    IN  /\ requests[n] < MaxRequests
        /\ requests' = [requests EXCEPT ![n] = @ + 1]
        /\ seqNum' = [seqNum EXCEPT ![n] = s]
        /\ lastTrxn' = [lastTrxn EXCEPT ![n] = @ + 1]
        /\ retryMap' = [retryMap EXCEPT ![n] = @ \cup {RetryTimer(p, 0)}]
        /\ cleanupMap' = [cleanupMap EXCEPT ![n] = @ \cup {CleanupTimer(p)}]
        /\ armed' = [armed EXCEPT ![n] = @ \cup {Running(RetryTimer(p, 0), T1),
                                                 Running(CleanupTimer(p), ProcTimeOut)}]
        /\ procs' = [procs EXCEPT ![n] = Insert(n, p)]
        /\ seqOf' = [seqOf EXCEPT ![n] = @ \cup {[trxn |-> x, seq |-> s]}]
        /\ net' = net \cup {m}
        /\ started' = started \cup {x}
        /\ UNCHANGED <<queue, serving, dups, answers, repeated, aborted>>

(* A message arrives, and may arrive again.                                *)
Arrive(m) ==
    \/ net' = net \ {m} /\ UNCHANGED dups
    \/ dups < MaxDups /\ dups' = dups + 1 /\ UNCHANGED net

(* Fault: a request is taken for a new one while it is being served.       *)
BeginsAgain(n, m) ==
    /\ m.kind = "request"
    /\ \A p \in Found(n, m.seq) : ~p.own

(* No procedure has the sequence number, and check_request_type agrees.    *)
Begins(n, m) ==
    /\ Found(n, m.seq) = {}
    /\ m.kind = "request" \/ m.type \in ReportTypes

(* handle_receive_message_cb, an initial message.  A request goes to the   *)
(* tasks; a report response that comes too late is taken for an initial    *)
(* message as well, and goes to them with a transaction of its own.        *)
ReceiveInitial(n, m) ==
    LET x == Trxn(n, lastTrxn[n] + 1)
        p == Procedure(m.seq, x, m, FALSE)
    IN  /\ m.to = n
        /\ Begins(n, m)
        /\ Arrive(m)
        /\ lastTrxn' = [lastTrxn EXCEPT ![n] = @ + 1]
        /\ cleanupMap' = [cleanupMap EXCEPT ![n] = @ \cup {CleanupTimer(p)}]
        /\ armed' = [armed EXCEPT ![n] = @ \cup {Running(CleanupTimer(p), ProcTimeOut)}]
        /\ procs' = [procs EXCEPT ![n] = Insert(n, p)]
        /\ seqOf' = [seqOf EXCEPT ![n] = @ \cup {[trxn |-> x, seq |-> m.seq]}]
        /\ IF m.kind = "request"
           THEN /\ serving' = [serving EXCEPT ![n] = @ \cup
                     {[trxn |-> x, type |-> m.type, to |-> m.from, rid |-> m.rid]}]
                /\ UNCHANGED answers
           ELSE /\ answers' = answers \cup {[trxn |-> x, rid |-> m.rid]}
                /\ UNCHANGED serving
        /\ UNCHANGED <<seqNum, retryMap, queue, requests, started, repeated, aborted>>

(* Fault: a procedure that was answered takes another answer.              *)
AnswersAgain(m, p) ==
    /\ m.kind = "response"
    /\ p.kind = "request"
    /\ m.type = p.type

(* check_response_type, with initial_msg_type as long as nothing was       *)
(* triggered: after that only a version-not-supported response would pass, *)
(* which no node sends.                                                    *)
Answers(m, p) ==
    /\ m.kind = "response"
    /\ p.kind = "request"
    /\ m.type = p.type
    /\ ~p.triggered

Answered(x) == \E a \in answers : a.trxn = x

(* Fault: the entry of the retry timer stays when the timer is stopped.    *)
StopTimerOnly(n, p) ==
    /\ armed' = [armed EXCEPT ![n] = Stop(@, {RetryTimer(p, p.retries)})]
    /\ UNCHANGED retryMap

StopMsgRetryTimer(n, p) ==
    /\ armed' = [armed EXCEPT ![n] = Stop(@, {RetryTimer(p, p.retries)})]
    /\ retryMap' = [retryMap EXCEPT ![n] = @ \ {RetryTimer(p, p.retries)}]

ReceiveAnswer(n, m) ==
    \E p \in Found(n, m.seq) :
        /\ m.to = n
        /\ Answers(m, p)
        /\ Arrive(m)
        /\ procs' = [procs EXCEPT ![n] = (@ \ {p}) \cup {[p EXCEPT !.triggered = TRUE]}]
        /\ StopMsgRetryTimer(n, p)
        /\ repeated' = IF Answered(p.trxn) THEN repeated \cup {p.trxn} ELSE repeated
        /\ answers' = answers \cup {[trxn |-> p.trxn, rid |-> m.rid]}
        /\ UNCHANGED <<seqNum, lastTrxn, seqOf, cleanupMap, queue, serving,
                       requests, started, aborted>>

(* Whatever else arrives is silently discarded.                            *)
Discard(n, m) ==
    /\ m.to = n
    /\ ~Begins(n, m)
    /\ \A p \in Found(n, m.seq) : ~Answers(m, p)
    /\ Arrive(m)
    /\ UNCHANGED <<stackVars, armed, queue, serving, requests, history>>

(* send_response with DELETE_TX, as every caller has it: the procedure     *)
(* that has the sequence number goes, with its clean-up timer; the entry   *)
(* of that timer is looked for in the wrong map and stays.                 *)
SendResponse(n, v) ==
    /\ v \in serving[n]
    /\ serving' = [serving EXCEPT ![n] = @ \ {v}]
    /\ LET entries == {e \in seqOf[n] : e.trxn = v.trxn}
           ended == UNION {Found(n, e.seq) : e \in entries}
       IN  /\ net' = net \cup {Message("response", v.type, e.seq, n, v.to, v.rid) :
                                 e \in entries}
           /\ procs' = [procs EXCEPT ![n] = @ \ ended]
           /\ armed' = [armed EXCEPT ![n] = Stop(@, {CleanupTimer(p) : p \in ended})]
           /\ seqOf' = [seqOf EXCEPT ![n] = @ \ entries]
    /\ UNCHANGED <<seqNum, lastTrxn, retryMap, cleanupMap, queue, requests, dups,
                   history>>
------------------------------------------------------------------------------
(* The timers.                                                             *)
Due(n) == {r \in armed[n] : r.left = 0}

Tick ==
    /\ \E n \in Nodes : armed[n] # {}
    /\ \A n \in Nodes : Due(n) = {}
    /\ armed' = [n \in Nodes |-> {[r EXCEPT !.left = @ - 1] : r \in armed[n]}]
    /\ UNCHANGED <<stackVars, queue, serving, net, requests, dups, history>>

Expire(n) ==
    /\ \E r \in Due(n) :
          /\ armed' = [armed EXCEPT ![n] = @ \ {r}]
          /\ queue' = [queue EXCEPT ![n] = Append(@, r.timer)]
    /\ UNCHANGED <<stackVars, serving, net, requests, dups, history>>

(* The task takes a time-out from its queue.                               *)
Take(n) == queue' = [queue EXCEPT ![n] = Tail(@)]

(* switch (arg1_user) ... default:;                                        *)
DropTimeOut(n) ==
    /\ ~DispatchTimeouts
    /\ Take(n)
    /\ UNCHANGED <<stackVars, armed, serving, net, requests, dups, history>>

(* time_out_event, the timer of an answer: the request is sent again, or   *)
(* given up after N1 times.                                                *)
Resend(n, t) ==
    /\ Take(n)
    /\ t \in retryMap[n]
    /\ \E p \in Found(n, t.seq) :
          /\ p.own
          /\ p.retries < N1
          /\ LET q == [p EXCEPT !.retries = @ + 1]
                 u == RetryTimer(q, q.retries)
             IN  /\ procs' = [procs EXCEPT ![n] = (@ \ {p}) \cup {q}]
                 /\ retryMap' = [retryMap EXCEPT ![n] = (@ \ {t}) \cup {u}]
                 /\ armed' = [armed EXCEPT ![n] = @ \cup {Running(u, T1)}]
          /\ net' = net \cup {Message("request", p.type, p.seq, n, p.peer, p.trxn)}
    /\ UNCHANGED <<seqNum, lastTrxn, seqOf, cleanupMap, serving, requests, dups,
                   history>>

Abort(n, t) ==
    /\ Take(n)
    /\ t \in retryMap[n]
    /\ \E p \in Found(n, t.seq) :
          /\ p.retries >= N1
          /\ aborted' = aborted \cup {p.trxn}
    /\ retryMap' = [retryMap EXCEPT ![n] = @ \ {t}]
    /\ UNCHANGED <<seqNum, lastTrxn, procs, seqOf, cleanupMap, armed, serving, net,
                   requests, dups, started, answers, repeated>>

(* Fault: the timer of the procedure is forgotten, the procedure is not.   *)
CleanUpTimerOnly(n, t) ==
    /\ Take(n)
    /\ t \in cleanupMap[n]
    /\ cleanupMap' = [cleanupMap EXCEPT ![n] = @ \ {t}]
    /\ UNCHANGED <<seqNum, lastTrxn, procs, seqOf, retryMap, armed, serving, net,
                   requests, dups, history>>

(* time_out_event, the timer of a procedure: whichever procedure has the   *)
(* sequence number now is deleted.                                         *)
CleanUp(n, t) ==
    /\ Take(n)
    /\ t \in cleanupMap[n]
    /\ cleanupMap' = [cleanupMap EXCEPT ![n] = @ \ {t}]
    /\ procs' = [procs EXCEPT ![n] = @ \ Found(n, t.seq)]
    /\ UNCHANGED <<seqNum, lastTrxn, seqOf, retryMap, armed, serving, net, requests,
                   dups, history>>

(* A timer that was stopped, or whose procedure is gone.                   *)
StaleTimeOut(n, t) ==
    /\ Take(n)
    /\ t \notin cleanupMap[n]
    /\ t \in retryMap[n] => Found(n, t.seq) = {}
    /\ retryMap' = [retryMap EXCEPT ![n] = @ \ {t}]
    /\ UNCHANGED <<seqNum, lastTrxn, procs, seqOf, cleanupMap, armed, serving, net,
                   requests, dups, history>>
------------------------------------------------------------------------------
(* A time-out for a procedure the peer began, which has no message to send *)
(* again, is not modelled: no run that dispatches time-outs meets one.     *)
TimeOutEvent(n, t) ==
    /\ DispatchTimeouts
    /\ Resend(n, t) \/ Abort(n, t) \/ CleanUp(n, t) \/ StaleTimeOut(n, t)

TaskTimeOut(n) ==
    /\ queue[n] # <<>>
    /\ DropTimeOut(n) \/ TimeOutEvent(n, Head(queue[n]))

Serve(n) == \E v \in serving[n] : SendResponse(n, v)

Receive(n) ==
    \E m \in net : ReceiveInitial(n, m) \/ ReceiveAnswer(n, m) \/ Discard(n, m)

Next ==
    \/ Tick
    \/ \E n \in Requesters, to \in Nodes, y \in Types : n # to /\ SendRequest(n, to, y)
    \/ \E n \in Nodes : Receive(n) \/ Serve(n) \/ Expire(n) \/ TaskTimeOut(n)

(* Time passes and the threads of a node run; the network promises         *)
(* nothing.                                                                *)
Fairness ==
    /\ WF_vars(Tick)
    /\ \A n \in Nodes : WF_vars(Serve(n)) /\ WF_vars(Expire(n)) /\ WF_vars(TaskTimeOut(n))

Spec == Init /\ [][Next]_vars
FairSpec == Spec /\ Fairness
------------------------------------------------------------------------------
Trxns == [node : Nodes, number : Nat]
Seqs == 0 .. SeqMod - 1
Kinds == {"request", "response"}
Timers == [kind : {"retry", "cleanup"}, trxn : Trxns, seq : Seqs, count : 0 .. N1]
Procedures == [seq : Seqs, trxn : Trxns, kind : Kinds, type : Types, own : BOOLEAN,
               peer : Nodes, triggered : BOOLEAN, retries : 0 .. N1]

TypeOK ==
    /\ seqNum \in [Nodes -> Seqs]
    /\ lastTrxn \in [Nodes -> Nat]
    /\ requests \in [Nodes -> 0 .. MaxRequests]
    /\ dups \in 0 .. MaxDups
    /\ \A n \in Nodes :
          /\ procs[n] \subseteq Procedures
          /\ \A p, q \in procs[n] : p.seq = q.seq => p = q
          /\ seqOf[n] \subseteq [trxn : Trxns, seq : Seqs]
          /\ retryMap[n] \cup cleanupMap[n] \subseteq Timers
          /\ armed[n] \subseteq [timer : Timers, left : 0 .. ProcTimeOut]
          /\ queue[n] \in Seq(Timers)
          /\ serving[n] \subseteq [trxn : Trxns, type : Types, to : Nodes, rid : Trxns]
    /\ net \subseteq [kind : Kinds, type : Types, seq : Seqs, from : Nodes,
                      to : Nodes, rid : Trxns]
    /\ started \cup repeated \cup aborted \subseteq Trxns
    /\ answers \subseteq [trxn : Trxns, rid : Trxns]

(* The tasks get one answer to a transaction, however often its response   *)
(* arrives.                                                                *)
OneAnswer ==
    /\ repeated = {}
    /\ \A a, b \in answers : a.trxn = b.trxn => a = b

(* What a node takes for the answer to a request of its own is the answer  *)
(* to that request: also when requests of both nodes carry the same        *)
(* sequence number, and messages are late, lost or repeated.  A node has a *)
(* number for each of its requests that may be pending; a wrap that gives  *)
(* one of them to a new request breaks it.                                 *)
AnswersOwn == \A a \in answers : a.trxn \in started => a.rid = a.trxn

(* A request that arrives again while the tasks work on it is not given to *)
(* them a second time.                                                     *)
NoDoubleService ==
    \A n \in Nodes : \A v, w \in serving[n] : v.rid = w.rid => v = w

(* Once a request is answered it is not sent again nor given up, although  *)
(* the time-out of its answer may already be in the queue of the task.     *)
QuietAfterAnswer ==
    [][\A x \in started : Answered(x) =>
          /\ x \in aborted' => x \in aborted
          /\ \A m \in net' \ net : m.kind = "request" => m.rid # x]_vars

Waiting(x) == \E p \in procs[x.node] : p.trxn = x /\ p.own /\ ~p.triggered

(* A procedure does not wait for its answer for ever: it is answered, or   *)
(* deleted after PFCP_PROC_TIME_OUT_MS (pfcp.cpp:909, "abort procedure").  *)
ProcedureEnds ==
    \A n \in Requesters, k \in 1 .. MaxRequests :
        Waiting(Trxn(n, k)) ~> ~Waiting(Trxn(n, k))
==============================================================================
