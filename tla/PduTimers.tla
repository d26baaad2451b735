------------------------------ MODULE PduTimers ------------------------------
(***************************************************************************)
(* The status of one PDU session in the SMF and the timers T3591 and T3592 *)
(* that watch the commands to its UE (handlers of N1 and N2 messages in    *)
(* smf_context.cpp, the update procedure in smf_procedure.cpp, time-outs   *)
(* in smf_app.cpp).                                                        *)
(*                                                                         *)
(* Workers of the HTTP servers handle the messages of the UE, which the    *)
(* AMF relays; TASK_SMF_APP handles, in the order of its queue, answers of *)
(* the UPF and of the AMF and time-outs.  Nothing keeps the two apart: a   *)
(* time-out stays in the queue when its timer is removed.  A handler is    *)
(* one step.  Timers keep the contract of TimerService, without clock: an  *)
(* armed timer may expire at any time, and none is lost.                   *)
(*                                                                         *)
(* The UE sends a request as long as it knows the session, and answers a   *)
(* command at most once.  The first transmission of a command is the body  *)
(* of the HTTP response that ends the update request; handing the same     *)
(* message to TASK_SMF_APP again, which is what a time-out does, reaches   *)
(* nobody, since the promise of the request is gone by then.               *)
(***************************************************************************)
EXTENDS Naturals, Sequences, FiniteSets

CONSTANTS
    MaxResend,    \* NUMBER_RETRANSMISSION_TIMES_T3591, 4 in the code
    MaxRequests,  \* bound on the requests of the UE and the AMF
    TimerIds      \* ids for timers; their number bounds those in use

NoTimer == 0      \* ITTI_INVALID_TIMER_ID

ASSUME TimersAssumption ==
    /\ MaxResend \in Nat
    /\ MaxRequests \in Nat
    /\ NoTimer \notin TimerIds

VARIABLES
    status,    \* pdu_session_status
    upCnx,     \* upCnx_state is UPCNX_STATE_ACTIVATED
    flows,     \* the session has its QoS flow
    pending,   \* the command in pending_n11_msg
    t3591,     \* the timer ids in the session
    t3592,
    resends,   \* number_retransmission_T3591
    armed,     \* the ITTI timers running: records of id and kind
    queue,     \* of TASK_SMF_APP
    n4,        \* of each operation, N4 exchanges waiting for the UPF
    transfer,  \* the AMF has yet to answer the N1N2MessageTransfer
    ue,        \* commands the UE and the gNB have yet to answer
    ueKnows,   \* the UE has the session
    requests,  \* requests of the UE and the AMF so far
    final      \* history: the UE completed a release when nothing else of
               \* the session was under way

session == <<status, upCnx, flows, pending, t3591, t3592, resends>>
timers == <<armed, queue>>
peers == <<n4, transfer, ue, ueKnows, requests>>
vars == <<session, timers, peers, final>>

Statuses == {"INACTIVE", "INACTIVE_PENDING", "MODIFICATION_PENDING",
             "ESTABLISHMENT_PENDING", "ACTIVE"}
Kinds == {"T3591", "T3592"}
Operations == {"setup", "release", "dispose"}
Answers == {"accepted", "rejected"}
Timeout(k) == [from |-> "itti", what |-> k, cause |-> "accepted"]
Status == [from |-> "amf", what |-> "transfer", cause |-> "accepted"]
N4Answer(op, c) == [from |-> "upf", what |-> op, cause |-> c]
Messages ==
    [from : {"itti", "amf", "upf"},
     what : Kinds \cup {"transfer"} \cup Operations,
     cause : Answers]
Timers == [id : TimerIds, kind : Kinds]

(* The UPF has accepted the session, and the SMF has sent the accept to    *)
(* the UE and the N2 setup request to the gNB.                             *)
Init ==
    /\ status = "INACTIVE"
    /\ upCnx = FALSE
    /\ flows = TRUE
    /\ pending = "none"
    /\ t3591 = NoTimer
    /\ t3592 = NoTimer
    /\ resends = 0
    /\ armed = {}
    /\ queue = <<>>
    /\ n4 = [op \in Operations |-> 0]
    /\ transfer = TRUE
    /\ ue = {"setup"}
    /\ ueKnows = TRUE
    /\ requests = 0
    /\ final = FALSE
------------------------------------------------------------------------------
(* timer_setup gives an id that no timer in use has; timer_remove.         *)
Unused == {i \in TimerIds \ {t3591, t3592} : \A t \in armed : t.id # i}

Armed(i, k) == [id |-> i, kind |-> k]

Disarm(i) == armed' = {t \in armed : t.id # i}

Expire(t) ==
    /\ armed' = armed \ {t}
    /\ queue' = Append(queue, Timeout(t.kind))
    /\ UNCHANGED <<session, peers, final>>
------------------------------------------------------------------------------
(* Messages of the UE and the AMF.  Requests that are ignored or rejected  *)
(* for the status of the session change nothing.                           *)
Request ==
    /\ requests < MaxRequests
    /\ requests' = requests + 1

(* PDU_SESSION_MODIFICATION_REQUEST; an inactive session is no exception.  *)
ModificationRequest ==
    /\ ueKnows
    /\ status \notin {"INACTIVE_PENDING", "MODIFICATION_PENDING"}
    /\ Request
    /\ status' = "MODIFICATION_PENDING"
    /\ pending' = "modify"
    /\ \E i \in Unused :
          /\ t3591' = i
          /\ armed' = armed \cup {Armed(i, "T3591")}
    /\ ue' = ue \cup {"modify"}
    /\ UNCHANGED <<upCnx, flows, t3592, resends, queue, n4, transfer, ueKnows,
                   final>>

(* PDU_SESSION_MODIFICATION_COMPLETE                                       *)
ModificationComplete ==
    /\ "modify" \in ue /\ ueKnows
    /\ ue' = ue \ {"modify"}
    /\ status' = "ACTIVE"
    /\ Disarm(t3591)
    /\ UNCHANGED <<upCnx, flows, pending, t3591, t3592, resends, queue, n4,
                   transfer, ueKnows, requests, final>>

(* PDU_SESSION_MODIFICATION_COMMAND_REJECT; the cause is #43 when the UE   *)
(* has no such session.                                                    *)
ModificationCommandReject ==
    /\ "modify" \in ue
    /\ ue' = ue \ {"modify"}
    /\ status' = IF ~ueKnows THEN "INACTIVE"
                 ELSE IF status = "MODIFICATION_PENDING" THEN "ACTIVE"
                 ELSE status
    /\ Disarm(t3591)
    /\ UNCHANGED <<upCnx, flows, pending, t3591, t3592, resends, queue, n4,
                   transfer, ueKnows, requests, final>>

(* PDU_SESSION_RELEASE_REQUEST, and the update of the N4 session.  Without *)
(* a flow there is nothing to update.                                      *)
ReleaseRequest ==
    /\ ueKnows
    /\ status \notin {"INACTIVE", "INACTIVE_PENDING"}
    /\ flows
    /\ Request
    /\ n4' = [n4 EXCEPT !["release"] = @ + 1]
    /\ UNCHANGED <<session, timers, transfer, ue, ueKnows, final>>

(* Nothing that could still change the status is on its way.               *)
NothingUnderWay ==
    /\ ~transfer
    /\ queue = <<>>
    /\ \A op \in Operations : n4[op] = 0
    /\ ue = {"release"}
    /\ \A t \in armed : t.kind # "T3591"

(* PDU_SESSION_RELEASE_COMPLETE                                            *)
ReleaseComplete ==
    /\ "release" \in ue
    /\ ue' = ue \ {"release"}
    /\ ueKnows' = FALSE
    /\ status' = "INACTIVE"
    /\ Disarm(t3592)
    /\ final' = NothingUnderWay
    /\ UNCHANGED <<upCnx, flows, pending, t3591, t3592, resends, queue, n4,
                   transfer, requests>>

(* PDU_RES_REL_RSP of the gNB                                              *)
ResourceReleaseResponse ==
    /\ "n2 release" \in ue
    /\ ue' = ue \ {"n2 release"}
    /\ status' = "INACTIVE"
    /\ UNCHANGED <<upCnx, flows, pending, t3591, t3592, resends, timers, n4,
                   transfer, ueKnows, requests, final>>

(* PDU_RES_SETUP_RSP of the gNB                                            *)
ResourceSetupResponse ==
    /\ "setup" \in ue
    /\ ue' = ue \ {"setup"}
    /\ n4' = IF flows THEN [n4 EXCEPT !["setup"] = @ + 1] ELSE n4
    /\ UNCHANGED <<session, timers, transfer, ueKnows, requests, final>>

(* A release indication or a release request of the AMF.                   *)
AmfRelease ==
    /\ flows
    /\ Request
    /\ n4' = [n4 EXCEPT !["dispose"] = @ + 1]
    /\ UNCHANGED <<session, timers, transfer, ue, ueKnows, final>>
------------------------------------------------------------------------------
(* The UPF answers, or a message is lost; the AMF answers the transfer.    *)
UpfAnswers(op) ==
    /\ n4[op] > 0
    /\ n4' = [n4 EXCEPT ![op] = @ - 1]
    /\ \/ \E c \in Answers : queue' = Append(queue, N4Answer(op, c))
       \/ UNCHANGED queue
    /\ UNCHANGED <<session, armed, transfer, ue, ueKnows, requests, final>>

AmfAnswers ==
    /\ transfer
    /\ transfer' = FALSE
    /\ queue' = Append(queue, Status) \/ UNCHANGED queue
    /\ UNCHANGED <<session, armed, n4, ue, ueKnows, requests, final>>
------------------------------------------------------------------------------
(* TASK_SMF_APP takes a message from its queue.                            *)
Take(m) ==
    /\ queue # <<>>
    /\ m = Head(queue)
    /\ queue' = Tail(queue)

(* The answer to the transfer of the accept.                               *)
TransferResponse ==
    /\ Take(Status)
    /\ status' = "ESTABLISHMENT_PENDING"
    /\ upCnx' = FALSE
    /\ UNCHANGED <<flows, pending, t3591, t3592, resends, armed, peers, final>>

SetupResponse(c) ==
    /\ Take(N4Answer("setup", c))
    /\ IF c = "accepted" THEN status' = "ACTIVE" /\ upCnx' = TRUE
       ELSE UNCHANGED <<status, upCnx>>
    /\ UNCHANGED <<flows, pending, t3591, t3592, resends, armed, peers, final>>

(* deallocate_ressources: the timers go on, only their ids are forgotten.  *)
Clear ==
    /\ status' = "INACTIVE"
    /\ upCnx' = FALSE
    /\ flows' = FALSE
    /\ t3591' = NoTimer
    /\ t3592' = NoTimer
    /\ resends' = 0

DisposeResponse(c) ==
    /\ Take(N4Answer("dispose", c))
    /\ IF c = "accepted" THEN Clear
       ELSE UNCHANGED <<status, upCnx, flows, t3591, t3592, resends>>
    /\ UNCHANGED <<pending, armed, peers, final>>

(* The release command goes to the UE, with one to the gNB if the session  *)
(* is still there and activated.  Without clear() its parts stay.          *)
ReleaseResponse(c) ==
    /\ Take(N4Answer("release", c))
    /\ status' = "INACTIVE_PENDING"
    /\ upCnx' = FALSE
    /\ IF c = "accepted"
       THEN flows' = FALSE /\ t3591' = NoTimer /\ resends' = 0
       ELSE UNCHANGED <<flows, t3591, resends>>
    /\ pending' = "release"
    /\ \E i \in Unused :
          /\ t3592' = i
          /\ armed' = armed \cup {Armed(i, "T3592")}
    /\ ue' = ue \cup {"release"}
               \cup IF c = "rejected" /\ upCnx THEN {"n2 release"} ELSE {}
    /\ UNCHANGED <<n4, transfer, ueKnows, requests, final>>

(* The pending message goes to the task again, and T3591 starts again.     *)
Resend ==
    /\ resends' = resends + 1
    /\ \E i \in Unused :
          /\ t3591' = i
          /\ armed' = armed \cup {Armed(i, "T3591")}

(* Fault: the last time-out leaves the status as it is.                    *)
T3591GivesUpSilently ==
    /\ Take(Timeout("T3591"))
    /\ IF pending # "none" /\ resends <= MaxResend
       THEN Resend
       ELSE UNCHANGED <<resends, t3591, armed>>
    /\ UNCHANGED <<status, upCnx, flows, pending, t3592, peers, final>>

(* Fault: retransmissions are not counted out.                             *)
T3591ForEver ==
    /\ Take(Timeout("T3591"))
    /\ Resend
    /\ UNCHANGED <<status, upCnx, flows, pending, t3592, peers, final>>

(* timer_t3591_timeout                                                     *)
T3591Timeout ==
    /\ Take(Timeout("T3591"))
    /\ status' = IF pending # "none" /\ resends > MaxResend THEN "ACTIVE"
                 ELSE status
    /\ IF pending # "none" /\ resends <= MaxResend
       THEN Resend
       ELSE UNCHANGED <<resends, t3591, armed>>
    /\ UNCHANGED <<upCnx, flows, pending, t3592, peers, final>>

(* Fault: the time-out of T3592 is the last one of T3591.                  *)
T3592EndsActive ==
    /\ Take(Timeout("T3592"))
    /\ status' = "ACTIVE"
    /\ UNCHANGED <<upCnx, flows, pending, t3591, t3592, resends, armed, peers,
                   final>>

(* smf_app_task has no case for the time-out of T3592.                     *)
T3592Dropped ==
    /\ Take(Timeout("T3592"))
    /\ UNCHANGED <<session, armed, peers, final>>

SmfApp ==
    \/ TransferResponse
    \/ T3591Timeout
    \/ T3592Dropped
    \/ \E c \in Answers :
          SetupResponse(c) \/ DisposeResponse(c) \/ ReleaseResponse(c)

Time == \E t \in armed : Expire(t)

Next ==
    \/ ModificationRequest
    \/ ModificationComplete
    \/ ModificationCommandReject
    \/ ReleaseRequest
    \/ ReleaseComplete
    \/ ResourceReleaseResponse
    \/ ResourceSetupResponse
    \/ AmfRelease
    \/ \E op \in Operations : UpfAnswers(op)
    \/ AmfAnswers
    \/ SmfApp
    \/ Time

(* Timers expire and the task empties its queue.                           *)
Spec == Init /\ [][Next]_vars /\ WF_vars(Time) /\ WF_vars(SmfApp)
------------------------------------------------------------------------------
TypeOK ==
    /\ status \in Statuses
    /\ upCnx \in BOOLEAN /\ flows \in BOOLEAN
    /\ pending \in {"none", "modify", "release"}
    /\ t3591 \in TimerIds \cup {NoTimer} /\ t3592 \in TimerIds \cup {NoTimer}
    /\ resends \in 0 .. MaxResend + 1
    /\ armed \subseteq Timers
    /\ queue \in Seq(Messages)
    /\ n4 \in [Operations -> Nat]
    /\ transfer \in BOOLEAN
    /\ ue \subseteq {"setup", "modify", "release", "n2 release"}
    /\ ueKnows \in BOOLEAN
    /\ requests \in 0 .. MaxRequests
    /\ final \in BOOLEAN

(* A session that waits for the answer to a modification command is always *)
(* watched: its T3591 runs or has expired and is about to be handled,      *)
(* whatever answers, releases and late time-outs came in between           *)
(* (handle_pdu_session_modification_request, timer_t3591_timeout).  In     *)
(* this state the session ignores every modification request.              *)
ModificationWatched ==
    status = "MODIFICATION_PENDING" =>
        \/ Armed(t3591, "T3591") \in armed
        \/ \E i \in DOMAIN queue : queue[i] = Timeout("T3591")

(* So it leaves that state even if the UE never answers.                   *)
ModificationEnds ==
    status = "MODIFICATION_PENDING" ~> status # "MODIFICATION_PENDING"

(* A release is final: once the UE has completed it with nothing else of   *)
(* the session under way, no time-out or answer gives the session another  *)
(* status (handle_pdu_session_release_complete).  With a T3591 still       *)
(* running or queued it would not be: its time-outs end with ACTIVE.       *)
ReleaseIsFinal == final => status = "INACTIVE"
==============================================================================
