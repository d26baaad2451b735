------------------------ MODULE PfcpHeartbeat_proofs --------------------------
(***************************************************************************)
(* Proofs about PfcpHeartbeat, for every heartbeat interval, number of     *)
(* retries, and number of setup requests and answers.                      *)
(***************************************************************************)
EXTENDS PfcpHeartbeat, TLAPS

(* The thread that takes a time-out removes the head of the queue.         *)
LEMMA BeginTypes ==
    ASSUME TypeOK, NEW kind, Begin(kind)
    PROVE  queue' \in Seq(Kinds)
  BY DEF TypeOK, Begin

(* A new timer has a new id; the running ones keep theirs.                 *)
LEMMA ArmTypes ==
    ASSUME TypeOK, NEW kind \in Kinds, NEW ticks \in Nat, Arm(kind, ticks)
    PROVE  /\ lastId' \in Nat
           /\ lastId' = lastId + 1
           /\ armed' \subseteq Timer
           /\ \A t \in armed' : t.id \in 1 .. lastId'
           /\ timer \in 0 .. lastId'
           /\ n4 \in [pc : {"idle", "arm", "assign", "send"}, id : 0 .. lastId']
           /\ udp \in [pc : {"idle", "disarm", "trigger", "assign"}, id : 0 .. lastId']
  <1>1. lastId \in Nat /\ lastId' = lastId + 1
    BY DEF TypeOK, Arm
  <1>2. 0 .. lastId \subseteq 0 .. lastId'
    BY <1>1
  <1>3. [id |-> lastId + 1, kind |-> kind, left |-> ticks] \in Timer
    BY <1>1 DEF Timer
  <1>4. armed' \subseteq Timer /\ \A t \in armed' : t.id \in 1 .. lastId'
    BY <1>1, <1>3 DEF TypeOK, Arm
  <1>5. n4 \in [pc : {"idle", "arm", "assign", "send"}, id : 0 .. lastId']
    BY <1>2 DEF TypeOK
  <1>6. udp \in [pc : {"idle", "disarm", "trigger", "assign"}, id : 0 .. lastId']
    BY <1>2 DEF TypeOK
  <1>7. timer \in 0 .. lastId'
    BY <1>2 DEF TypeOK
  <1> QED
    BY <1>1, <1>4, <1>5, <1>6, <1>7

LEMMA InitTypes == Init => TypeOK
  <1> SUFFICES ASSUME Init
               PROVE  TypeOK
    OBVIOUS
  <1>1. Idle \in [pc : {"idle", "arm", "assign", "send"}, id : 0 .. lastId]
        /\ Idle \in [pc : {"idle", "disarm", "trigger", "assign"}, id : 0 .. lastId]
    <2>1. lastId = 0 /\ Idle = [pc |-> "idle", id |-> 0]
      BY DEF Init, Idle, At, NoTimer
    <2> QED
      BY <2>1
  <1>2. queue \in Seq(Kinds)
    BY DEF Init
  <1>3. net.requests \cup net.responses \subseteq 1 .. lastTrxn
    BY DEF Init
  <1>4. /\ present = FALSE /\ timer = 0 /\ retries = 0 /\ trxn = 0 /\ armed = {}
        /\ lastId = 0 /\ lastTrxn = 0 /\ setups = 0 /\ answers = 0 /\ silent = 0
        /\ failures = {} /\ n4 = Idle /\ udp = Idle
    BY DEF Init, NoTimer, NoTrxn
  <1>5. present \in BOOLEAN
    BY <1>4
  <1>6. /\ armed \subseteq Timer /\ (\A t \in armed : t.id \in 1 .. lastId)
        /\ failures \subseteq Nat
    BY <1>4
  <1>7. /\ retries \in 0 .. MaxRetries /\ timer \in 0 .. lastId /\ lastId \in Nat
        /\ trxn \in 0 .. lastTrxn /\ lastTrxn \in Nat
        /\ setups \in 0 .. MaxSetups /\ answers \in 0 .. MaxAnswers /\ silent \in Nat
    BY <1>4, HeartbeatAssumption
  <1> QED
    BY <1>1, <1>2, <1>3, <1>4, <1>5, <1>6, <1>7 DEF TypeOK

LEMMA NextTypes == TypeOK /\ [Next]_vars => TypeOK'
  <1> SUFFICES ASSUME TypeOK, [Next]_vars
               PROVE  TypeOK'
    OBVIOUS
  <1> USE HeartbeatAssumption
  <1>1. CASE Tick
    <2>1. \A t \in armed : [t EXCEPT !.left = @ - 1] \in Timer
                           /\ [t EXCEPT !.left = @ - 1].id = t.id
      <3> SUFFICES ASSUME NEW t \in armed
                   PROVE  [t EXCEPT !.left = @ - 1] \in Timer
                          /\ [t EXCEPT !.left = @ - 1].id = t.id
        OBVIOUS
      <3>1. t \in Timer /\ t.left > 0
        BY <1>1 DEF Tick, TypeOK
      <3> QED
        BY <3>1 DEF Timer
    <2> QED
      BY <1>1, <2>1 DEF Tick, TypeOK, assocVars, envVars, history
  <1>2. CASE Expire
    <2>1. PICK t \in armed : armed' = armed \ {t} /\ queue' = Append(queue, t.kind)
      BY <1>2 DEF Expire
    <2>2. t.kind \in Kinds
      BY <2>1 DEF TypeOK, Timer
    <2> QED
      BY <1>2, <2>1, <2>2 DEF Expire, TypeOK, assocVars, envVars, history
  <1>3. CASE UpfAnswers
    BY <1>3 DEF UpfAnswers, TypeOK, assocVars, timerVars, history
  <1>4. CASE ReceiveSetup
    <2>1. UNCHANGED <<armed, lastId, queue, lastTrxn, n4, net, answers, failures>>
          /\ silent' = 0 /\ setups' = setups + 1 /\ setups < MaxSetups
      BY <1>4 DEF ReceiveSetup, timerVars
    <2>2. udp' \in {At("disarm", NoTimer), At("trigger", NoTimer), udp}
      BY <1>4 DEF ReceiveSetup
    <2>3. udp' \in [pc : {"idle", "disarm", "trigger", "assign"}, id : 0 .. lastId]
      BY <2>2 DEF At, NoTimer, TypeOK
    <2>4. /\ present' \in BOOLEAN /\ timer' \in {NoTimer, timer}
          /\ retries' \in {0, retries} /\ trxn' \in {NoTrxn, trxn}
      BY <1>4 DEF ReceiveSetup, assocVars, TypeOK
    <2>5. timer' \in 0 .. lastId /\ retries' \in 0 .. MaxRetries /\ trxn' \in 0 .. lastTrxn
      BY <2>4 DEF TypeOK, NoTimer, NoTrxn
    <2> QED
      BY <2>1, <2>3, <2>4, <2>5 DEF TypeOK
  <1>5. ASSUME NEW x \in net.responses, ReceiveResponse(x)
        PROVE  TypeOK'
    <2>1. /\ UNCHANGED <<present, timer, retries, trxn, armed, lastId, queue,
                         lastTrxn, n4, setups, answers, failures>>
          /\ udp' \in {At("disarm", NoTimer), udp} /\ silent' \in {0, silent}
          /\ net' = [net EXCEPT !.responses = @ \ {x}]
      BY <1>5 DEF ReceiveResponse, assocVars, timerVars
    <2>2. udp' \in [pc : {"idle", "disarm", "trigger", "assign"}, id : 0 .. lastId]
      BY <2>1 DEF At, NoTimer, TypeOK
    <2>3. net'.requests \cup net'.responses \subseteq net.requests \cup net.responses
      BY <2>1
    <2>4. silent' \in Nat
      BY <2>1 DEF TypeOK
    <2> QED
      BY <2>1, <2>2, <2>3, <2>4 DEF TypeOK
  <1>6. CASE StopTimer
    BY <1>6 DEF StopTimer, Disarm, TypeOK, assocVars, envVars, history, At, NoTimer
  <1>7. CASE TriggerArm
    <2>1. Arm("trigger", Interval) /\ "trigger" \in Kinds /\ Interval \in Nat
      BY <1>7 DEF TriggerArm, Kinds
    <2> QED
      BY <1>7, <2>1, ArmTypes
         DEF TriggerArm, TypeOK, assocVars, envVars, history, At
  <1>8. CASE TriggerAssign
    BY <1>8 DEF TriggerAssign, TypeOK, timerVars, envVars, history, Idle, At, NoTimer
  <1>9. CASE InitiateHeartbeat
    BY <1>9, BeginTypes
       DEF InitiateHeartbeat, TypeOK, envVars, history, At, NoTimer
  <1>10. CASE RetryHeartbeat
    BY <1>10, BeginTypes
       DEF RetryHeartbeat, TypeOK, envVars, history, At, NoTimer
  <1>11. CASE FailAssociation
    BY <1>11, BeginTypes DEF FailAssociation, TypeOK, envVars
  <1>12. CASE StaleTimeout
    BY <1>12, BeginTypes DEF StaleTimeout, TypeOK, assocVars, envVars, history
  <1>13. CASE HeartbeatArm
    <2>1. Arm("timeout", ResponseTime) /\ "timeout" \in Kinds /\ ResponseTime \in Nat
      BY <1>13 DEF HeartbeatArm, Kinds, ResponseTime
    <2> QED
      BY <1>13, <2>1, ArmTypes
         DEF HeartbeatArm, TypeOK, assocVars, envVars, history, At
  <1>14. CASE HeartbeatAssign
    BY <1>14 DEF HeartbeatAssign, TypeOK, timerVars, envVars, history, At, NoTimer
  <1>15. CASE HeartbeatSend
    <2>1. /\ lastTrxn \in Nat /\ lastTrxn' = lastTrxn + 1 /\ trxn' = lastTrxn'
          /\ net'.requests = net.requests \cup {lastTrxn'}
          /\ net'.responses = net.responses
          /\ n4' = Idle /\ silent' = silent + 1
          /\ UNCHANGED <<present, timer, retries, armed, lastId, queue, udp, setups,
                         answers, failures>>
      BY <1>15 DEF HeartbeatSend, TypeOK, timerVars
    <2>2. n4' \in [pc : {"idle", "arm", "assign", "send"}, id : 0 .. lastId]
      BY <2>1 DEF TypeOK, Idle, At, NoTimer
    <2>3. net'.requests \cup net'.responses \subseteq 1 .. lastTrxn'
      BY <2>1 DEF TypeOK
    <2> QED
      BY <2>1, <2>2, <2>3 DEF TypeOK
  <1>16. CASE UNCHANGED vars
    BY <1>16 DEF TypeOK, vars, assocVars, timerVars, envVars, history
  <1> QED
    BY <1>1, <1>2, <1>3, <1>4, <1>5, <1>6, <1>7, <1>8, <1>9, <1>10, <1>11, <1>12,
       <1>13, <1>14, <1>15, <1>16 DEF Next, Receive, N4Task, UdpThread

(* TypeOK holds in every reachable state.                                  *)
THEOREM HeartbeatTyped == Spec => []TypeOK
  BY InitTypes, NextTypes, PTL DEF Spec
------------------------------------------------------------------------------
LEMMA NextMonitored == TypeOK /\ Monitored /\ [Next]_vars => Monitored'
  <1> SUFFICES ASSUME TypeOK, Monitored, [Next]_vars
               PROVE  Monitored'
    OBVIOUS
  <1>1. CASE Tick
    BY <1>1 DEF Tick, Monitored
  <1>2. CASE Expire
    <2>1. PICK t \in armed : queue' = Append(queue, t.kind)
      BY <1>2 DEF Expire
    <2>2. queue' # <<>>
      BY <2>1 DEF TypeOK, Timer
    <2> QED
      BY <2>2 DEF Monitored
  <1>3. CASE UpfAnswers
    BY <1>3 DEF UpfAnswers, Monitored, assocVars, timerVars
  <1>4. CASE ReceiveSetup
    <2>1. ~present' \/ udp' \in {At("disarm", NoTimer), At("trigger", NoTimer)}
      BY <1>4 DEF ReceiveSetup, assocVars
    <2> QED
      BY <2>1 DEF Monitored, At
  <1>5. ASSUME NEW x \in net.responses, ReceiveResponse(x)
        PROVE  Monitored'
    BY <1>5 DEF ReceiveResponse, Monitored, assocVars, timerVars, At
  <1>6. CASE StopTimer
    BY <1>6 DEF StopTimer, Monitored, At
  <1>7. CASE TriggerArm
    BY <1>7 DEF TriggerArm, Arm, Monitored
  <1>8. CASE TriggerAssign
    BY <1>8 DEF TriggerAssign, Monitored, timerVars
  <1>9. CASE InitiateHeartbeat
    BY <1>9 DEF InitiateHeartbeat, Monitored, At
  <1>10. CASE RetryHeartbeat
    BY <1>10 DEF RetryHeartbeat, Monitored, At
  <1>11. CASE FailAssociation
    BY <1>11 DEF FailAssociation, Monitored
  <1>12. CASE StaleTimeout
    BY <1>12 DEF StaleTimeout, Monitored, assocVars
  <1>13. CASE HeartbeatArm
    BY <1>13 DEF HeartbeatArm, Arm, Monitored
  <1>14. CASE HeartbeatAssign
    BY <1>14 DEF HeartbeatAssign, Monitored, timerVars
  <1>15. CASE HeartbeatSend
    BY <1>15 DEF HeartbeatSend, Monitored, timerVars
  <1>16. CASE UNCHANGED vars
    BY <1>16 DEF Monitored, vars, assocVars, timerVars
  <1> QED
    BY <1>1, <1>2, <1>3, <1>4, <1>5, <1>6, <1>7, <1>8, <1>9, <1>10, <1>11, <1>12,
       <1>13, <1>14, <1>15, <1>16 DEF Next, Receive, N4Task, UdpThread

(* Whatever the two threads do to the one timer field of an association    *)
(* without a lock, an association the SMF has is always being watched.     *)
THEOREM AlwaysMonitored == Spec => []Monitored
  <1>1. Init => Monitored
    BY DEF Init, Monitored
  <1> QED
    BY <1>1, InitTypes, NextTypes, NextMonitored, PTL DEF Spec
==============================================================================
