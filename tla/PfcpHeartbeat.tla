---------------------------- MODULE PfcpHeartbeat -----------------------------
(***************************************************************************)
(* How the SMF watches a UPF over N4 (smf_pfcp_association.cpp and the     *)
(* handlers of smf_n4.cpp): the association a setup request creates, the   *)
(* heartbeats sent on it, their retries, and its removal.                  *)
(*                                                                         *)
(* Two threads work on the association without a lock: the UDP thread,     *)
(* which receives setup requests and heartbeat responses, and the N4 task, *)
(* which takes the time-outs of the ITTI timers from its queue and sends   *)
(* the heartbeat requests.  Every access of theirs to the association is a *)
(* step of its own.                                                        *)
(*                                                                         *)
(* Time.  A timer counts down in units of the heartbeat response time (5   *)
(* s); timers keep the contract of TimerService, none is lost, and an      *)
(* expired timer waits in the queue of the N4 task as long as that task    *)
(* takes.                                                                  *)
(*                                                                         *)
(* Network.  A message in net may arrive at any later time or never; a     *)
(* setup request may arrive again, since the PFCP layer forgets a request  *)
(* once it is answered.  Heartbeat responses arrive at most once, their    *)
(* procedure stays pending (pfcp.cpp, handle_receive_message_cb).          *)
(***************************************************************************)
EXTENDS Naturals, Sequences

CONSTANTS
    Interval,    \* PFCP_ASSOCIATION_HEARTBEAT_INTERVAL_SEC, in response times
    MaxRetries,  \* PFCP_ASSOCIATION_HEARTBEAT_MAX_RETRIES
    MaxSetups,   \* bound on the setup requests that arrive
    MaxAnswers   \* bound on the heartbeat responses the UPF sends

ResponseTime == 1

ASSUME HeartbeatAssumption ==
    /\ Interval \in Nat \ {0}
    /\ MaxRetries \in Nat
    /\ MaxSetups \in Nat
    /\ MaxAnswers \in Nat

NoTimer == 0     \* ITTI_INVALID_TIMER_ID
NoTrxn == 0      \* the trxn_id_heartbeat of a new association

VARIABLES
    present,   \* associations holds an entry for the UPF
    timer,     \* timer_heartbeat of the last association object
    retries,   \* its num_retries_timer_heartbeat
    trxn,      \* its trxn_id_heartbeat
    armed,     \* the ITTI timers running: records of id, kind and time left
    lastId,    \* the last timer id given out
    lastTrxn,  \* the last transaction id given out
    queue,     \* time-outs in the queue of the N4 task
    n4,        \* where the N4 task is in send_heartbeat_request, and its timer
    udp,       \* where the UDP thread is in its handler, and its timer
    net,       \* transaction ids of heartbeat requests and of responses
    setups,    \* setup requests that arrived
    answers,   \* heartbeat responses sent
    silent,    \* history: heartbeats sent since the last setup or response
    failures   \* history: the value of silent at each removal

assocVars == <<present, timer, retries, trxn>>
timerVars == <<armed, lastId, queue>>
envVars == <<net, setups, answers>>
history == <<silent, failures>>
vars == <<assocVars, timerVars, lastTrxn, n4, udp, envVars, history>>

Kinds == {"trigger", "timeout"}
At(label, id) == [pc |-> label, id |-> id]
Idle == At("idle", NoTimer)

Init ==
    /\ present = FALSE
    /\ timer = NoTimer
    /\ retries = 0
    /\ trxn = NoTrxn
    /\ armed = {}
    /\ lastId = 0
    /\ lastTrxn = NoTrxn
    /\ queue = <<>>
    /\ n4 = Idle
    /\ udp = Idle
    /\ net = [requests |-> {}, responses |-> {}]
    /\ setups = 0
    /\ answers = 0
    /\ silent = 0
    /\ failures = {}
------------------------------------------------------------------------------
(* timer_setup and timer_remove, as TimerService has them.                 *)
Arm(kind, ticks) ==
    /\ lastId' = lastId + 1
    /\ armed' = armed \cup {[id |-> lastId + 1, kind |-> kind, left |-> ticks]}

Disarm(id) == armed' = {t \in armed : t.id # id}

(* Time passes only when no timer is due.                                  *)
Tick ==
    /\ armed # {}
    /\ \A t \in armed : t.left > 0
    /\ armed' = {[t EXCEPT !.left = @ - 1] : t \in armed}
    /\ UNCHANGED <<assocVars, lastId, queue, lastTrxn, n4, udp, envVars, history>>

Expire ==
    /\ \E t \in armed :
          /\ t.left = 0
          /\ armed' = armed \ {t}
          /\ queue' = Append(queue, t.kind)
    /\ UNCHANGED <<assocVars, lastId, lastTrxn, n4, udp, envVars, history>>
------------------------------------------------------------------------------
(* The UPF answers the heartbeat requests that reach it, as long as it     *)
(* likes.                                                                  *)
UpfAnswers ==
    /\ answers < MaxAnswers
    /\ answers' = answers + 1
    /\ \E x \in net.requests :
          net' = [requests |-> net.requests \ {x},
                  responses |-> net.responses \cup {x}]
    /\ UNCHANGED <<assocVars, timerVars, lastTrxn, n4, udp, setups, history>>
------------------------------------------------------------------------------
(* UDP thread.  handle_receive_association_setup_request: add_association  *)
(* either finds the association of the node, or inserts a new one, or      *)
(* cannot resolve the name of the node.  Only this thread inserts, so the  *)
(* object it works on stays the last one until its handler returns.        *)
ReceiveSetup ==
    /\ udp.pc = "idle"
    /\ setups < MaxSetups
    /\ setups' = setups + 1
    /\ \/ /\ present
          /\ udp' = At("disarm", NoTimer)
          /\ UNCHANGED assocVars
       \/ /\ ~present
          /\ present' = TRUE
          /\ timer' = NoTimer
          /\ retries' = 0
          /\ trxn' = NoTrxn
          /\ udp' = At("trigger", NoTimer)
       \/ /\ ~present
          /\ UNCHANGED <<assocVars, udp>>
    /\ silent' = 0
    /\ UNCHANGED <<timerVars, lastTrxn, n4, net, answers, failures>>

(* handle_receive_heartbeat_response: only the response to the last        *)
(* request of an association counts.                                       *)
ReceiveResponse(x) ==
    /\ udp.pc = "idle"
    /\ x \in net.responses
    /\ net' = [net EXCEPT !.responses = @ \ {x}]
    /\ IF present /\ trxn = x
       THEN udp' = At("disarm", NoTimer) /\ silent' = 0
       ELSE UNCHANGED <<udp, silent>>
    /\ UNCHANGED <<assocVars, timerVars, lastTrxn, n4, setups, answers, failures>>

(* Fault: the handler stops the timer and starts no new period.            *)
StopTimerOnly ==
    /\ udp.pc = "disarm"
    /\ Disarm(timer)
    /\ udp' = Idle
    /\ UNCHANGED <<assocVars, lastId, queue, lastTrxn, n4, envVars, history>>

(* Both handlers stop the timer the association names now.                 *)
StopTimer ==
    /\ udp.pc = "disarm"
    /\ Disarm(timer)
    /\ udp' = At("trigger", NoTimer)
    /\ UNCHANGED <<assocVars, lastId, queue, lastTrxn, n4, envVars, history>>

(* trigger_heartbeat_request_procedure: the timer is running before its id *)
(* is in the association.                                                  *)
TriggerArm ==
    /\ udp.pc = "trigger"
    /\ Arm("trigger", Interval)
    /\ udp' = At("assign", lastId')
    /\ UNCHANGED <<assocVars, queue, lastTrxn, n4, envVars, history>>

TriggerAssign ==
    /\ udp.pc = "assign"
    /\ timer' = udp.id
    /\ udp' = Idle
    /\ UNCHANGED <<present, retries, trxn, timerVars, lastTrxn, n4, envVars,
                   history>>
------------------------------------------------------------------------------
(* N4 task.  initiate_heartbeat_request.                                   *)
Begin(kind) ==
    /\ n4.pc = "idle"
    /\ queue # <<>>
    /\ Head(queue) = kind
    /\ queue' = Tail(queue)

(* The association is found by the hash in the timer: neither the id of    *)
(* the timer nor the association it was set up for is compared.            *)
InitiateHeartbeat ==
    /\ Begin("trigger")
    /\ present
    /\ retries' = 0
    /\ n4' = At("arm", NoTimer)
    /\ UNCHANGED <<present, timer, trxn, armed, lastId, lastTrxn, udp,
                   envVars, history>>

(* Fault: one retry too many.                                              *)
RetryOnceMore ==
    /\ Begin("timeout")
    /\ present
    /\ retries <= MaxRetries
    /\ retries' = retries + 1
    /\ n4' = At("arm", NoTimer)
    /\ UNCHANGED <<present, timer, trxn, armed, lastId, lastTrxn, udp, envVars,
                   history>>

RetryHeartbeat ==
    /\ Begin("timeout")
    /\ present
    /\ retries < MaxRetries
    /\ retries' = retries + 1
    /\ n4' = At("arm", NoTimer)
    /\ UNCHANGED <<present, timer, trxn, armed, lastId, lastTrxn, udp,
                   envVars, history>>

(* Fault: the failure is reported and the association kept.                *)
FailWithoutRemoval ==
    /\ Begin("timeout")
    /\ present
    /\ retries >= MaxRetries
    /\ failures' = failures \cup {silent}
    /\ UNCHANGED <<assocVars, armed, lastId, lastTrxn, n4, udp, envVars, silent>>

(* timeout_heartbeat_request, out of retries: the node failure is reported *)
(* to the SMF application and the association removed.                     *)
FailAssociation ==
    /\ Begin("timeout")
    /\ present
    /\ retries >= MaxRetries
    /\ present' = FALSE
    /\ failures' = failures \cup {silent}
    /\ UNCHANGED <<timer, retries, trxn, armed, lastId, lastTrxn, n4,
                   udp, envVars, silent>>

StaleTimeout ==
    /\ \E kind \in Kinds : Begin(kind)
    /\ ~present
    /\ UNCHANGED <<assocVars, armed, lastId, lastTrxn, n4, udp, envVars, history>>

(* send_heartbeat_request.                                                 *)
HeartbeatArm ==
    /\ n4.pc = "arm"
    /\ Arm("timeout", ResponseTime)
    /\ n4' = At("assign", lastId')
    /\ UNCHANGED <<assocVars, queue, lastTrxn, udp, envVars, history>>

HeartbeatAssign ==
    /\ n4.pc = "assign"
    /\ timer' = n4.id
    /\ n4' = At("send", NoTimer)
    /\ UNCHANGED <<present, retries, trxn, timerVars, lastTrxn, udp,
                   envVars, history>>

HeartbeatSend ==
    /\ n4.pc = "send"
    /\ lastTrxn' = lastTrxn + 1
    /\ trxn' = lastTrxn'
    /\ net' = [net EXCEPT !.requests = @ \cup {lastTrxn'}]
    /\ silent' = silent + 1
    /\ n4' = Idle
    /\ UNCHANGED <<present, timer, retries, timerVars, udp, setups,
                   answers, failures>>
------------------------------------------------------------------------------
N4Task ==
    \/ InitiateHeartbeat \/ RetryHeartbeat \/ FailAssociation \/ StaleTimeout
    \/ HeartbeatArm \/ HeartbeatAssign \/ HeartbeatSend

UdpThread == StopTimer \/ TriggerArm \/ TriggerAssign

Receive == ReceiveSetup \/ \E x \in net.responses : ReceiveResponse(x)

Next == Tick \/ Expire \/ UpfAnswers \/ Receive \/ N4Task \/ UdpThread

(* Time passes, timers expire and both threads run; the network and the    *)
(* UPF promise nothing.                                                    *)
Fairness == WF_vars(Tick) /\ WF_vars(Expire) /\ WF_vars(N4Task) /\ WF_vars(UdpThread)

Spec == Init /\ [][Next]_vars
FairSpec == Spec /\ Fairness
------------------------------------------------------------------------------
Timer == [id : Nat, kind : Kinds, left : Nat]

TypeOK ==
    /\ present \in BOOLEAN
    /\ retries \in 0 .. MaxRetries
    /\ timer \in 0 .. lastId /\ lastId \in Nat
    /\ trxn \in 0 .. lastTrxn /\ lastTrxn \in Nat
    /\ armed \subseteq Timer /\ \A t \in armed : t.id \in 1 .. lastId
    /\ queue \in Seq(Kinds)
    /\ n4 \in [pc : {"idle", "arm", "assign", "send"}, id : 0 .. lastId]
    /\ udp \in [pc : {"idle", "disarm", "trigger", "assign"}, id : 0 .. lastId]
    /\ net.requests \cup net.responses \subseteq 1 .. lastTrxn
    /\ setups \in 0 .. MaxSetups /\ answers \in 0 .. MaxAnswers
    /\ silent \in Nat /\ failures \subseteq Nat

(* A UPF the SMF is associated with is being watched: a heartbeat timer is *)
(* running, or has expired and is queued, or a thread is about to set one  *)
(* up.  Otherwise a UPF that dies would keep its association for ever.     *)
Monitored ==
    present => \/ armed # {}
               \/ queue # <<>>
               \/ n4.pc = "arm"
               \/ udp.pc \in {"disarm", "trigger"}

(* An association is given up because the heartbeat procedure failed       *)
(* (smf_pfcp_association.cpp:364, "FAILED after %d retries, remove the     *)
(* association"), never when the last heartbeat was answered and the SMF   *)
(* has found the answer to be that.                                        *)
FailsOnlyWhenSilent == 0 \notin failures

(* A UPF that falls silent, as every UPF does here once it has given its   *)
(* MaxAnswers answers, loses its association.                              *)
SilentUpfRemoved == present ~> ~present
==============================================================================
