--------------------------- MODULE PduTimers_proofs ---------------------------
(***************************************************************************)
(* Proofs about PduTimers, for every number of retransmissions, requests   *)
(* and timer ids.                                                          *)
(***************************************************************************)
EXTENDS PduTimers, TLAPS

(* A time-out of T3591 waits in the queue of the task.                     *)
Queued == \E i \in DOMAIN queue : queue[i] = Timeout("T3591")

(* A session that waits for the answer to a command has the command.       *)
CommandKept == status = "MODIFICATION_PENDING" => pending # "none"

(* After a final release the task has nothing left to do that gives the    *)
(* session a status, except to make it inactive once more.                 *)
Harmless(m) == m = Timeout("T3592") \/ m.what = "dispose"

Settled ==
    final =>
        /\ status = "INACTIVE"
        /\ ~ueKnows /\ ~transfer /\ ue = {}
        /\ n4["setup"] = 0 /\ n4["release"] = 0
        /\ \A t \in armed : t.kind # "T3591"
        /\ \A i \in DOMAIN queue : Harmless(queue[i])

WatchInv == TypeOK /\ CommandKept /\ ModificationWatched
------------------------------------------------------------------------------
(* The queue: what a message added or taken leaves of the others.          *)
LEMMA MessagesTyped ==
    /\ \A k \in Kinds : Timeout(k) \in Messages
    /\ Status \in Messages
    /\ \A op \in Operations, c \in Answers : N4Answer(op, c) \in Messages
  BY DEF Messages, Timeout, Status, N4Answer, Kinds, Operations, Answers

LEMMA PutKeeps ==
    ASSUME queue \in Seq(Messages), NEW m \in Messages,
           queue' = Append(queue, m)
    PROVE  /\ queue' \in Seq(Messages)
           /\ Queued => Queued'
           /\ m = Timeout("T3591") => Queued'
           /\ \A i \in DOMAIN queue' : queue'[i] = m \/ (i \in DOMAIN queue /\ queue'[i] = queue[i])
  <1>1. /\ queue' \in Seq(Messages)
        /\ DOMAIN queue = 1 .. Len(queue) /\ Len(queue) \in Nat
        /\ DOMAIN queue' = 1 .. Len(queue) + 1
        /\ queue'[Len(queue) + 1] = m
        /\ \A i \in DOMAIN queue : i \in DOMAIN queue' /\ queue'[i] = queue[i]
    OBVIOUS
  <1>2. Queued => Queued'
    <2> SUFFICES ASSUME Queued PROVE Queued'
      OBVIOUS
    <2>1. PICK i \in DOMAIN queue : queue[i] = Timeout("T3591")
      BY DEF Queued
    <2>2. i \in DOMAIN queue' /\ queue'[i] = Timeout("T3591")
      BY <1>1, <2>1
    <2> QED
      BY <2>2 DEF Queued, Timeout
  <1>3. m = Timeout("T3591") => Queued'
    BY <1>1 DEF Queued, Timeout
  <1> QED
    BY <1>1, <1>2, <1>3

LEMMA TakeKeeps ==
    ASSUME queue \in Seq(Messages), NEW m, Take(m)
    PROVE  /\ queue' \in Seq(Messages)
           /\ m # Timeout("T3591") /\ Queued => Queued'
           /\ 1 \in DOMAIN queue /\ queue[1] = m
           /\ \A i \in DOMAIN queue' : i + 1 \in DOMAIN queue /\ queue'[i] = queue[i + 1]
  <1>1. /\ queue # <<>> /\ m = Head(queue) /\ queue' = Tail(queue)
    BY DEF Take
  <1>2. /\ queue' \in Seq(Messages)
        /\ DOMAIN queue = 1 .. Len(queue) /\ Len(queue) \in Nat \ {0}
        /\ DOMAIN queue' = 1 .. Len(queue) - 1
        /\ queue[1] = m
        /\ \A i \in DOMAIN queue' : queue'[i] = queue[i + 1]
    BY <1>1
  <1>3. m # Timeout("T3591") /\ Queued => Queued'
    <2> SUFFICES ASSUME m # Timeout("T3591"), Queued PROVE Queued'
      OBVIOUS
    <2>1. PICK i \in DOMAIN queue : queue[i] = Timeout("T3591")
      BY DEF Queued
    <2>2. i # 1
      BY <1>2, <2>1
    <2>3. i - 1 \in DOMAIN queue' /\ queue'[i - 1] = Timeout("T3591")
      BY <1>2, <2>1, <2>2
    <2> QED
      BY <2>3 DEF Queued, Timeout
  <1> QED
    BY <1>2, <1>3
------------------------------------------------------------------------------
(* Type correctness.                                                       *)
LEMMA InitTyped == Init => TypeOK
  <1> SUFFICES ASSUME Init PROVE TypeOK
    OBVIOUS
  <1>1. queue \in Seq(Messages) /\ n4 \in [Operations -> Nat]
    BY DEF Init
  <1>2. resends \in 0 .. MaxResend + 1 /\ requests \in 0 .. MaxRequests
    BY TimersAssumption DEF Init
  <1> QED
    BY <1>1, <1>2 DEF Init, TypeOK, Statuses

(* The counters stay within their bounds.                                  *)
LEMMA CountersTyped ==
    ASSUME TypeOK
    PROVE  /\ 0 \in 0 .. MaxResend + 1
           /\ resends <= MaxResend => resends + 1 \in 0 .. MaxResend + 1
           /\ requests < MaxRequests => requests + 1 \in 0 .. MaxRequests
  <1>1. resends \in 0 .. MaxResend + 1 /\ requests \in 0 .. MaxRequests
    BY DEF TypeOK
  <1> QED
    BY <1>1, TimersAssumption

(* A timer set up or removed leaves records of ids and kinds.              *)
LEMMA ArmedTyped ==
    ASSUME TypeOK
    PROVE  /\ \A i \in Unused, k \in Kinds :
                 i \in TimerIds /\ armed \cup {Armed(i, k)} \subseteq Timers
           /\ \A i : {t \in armed : t.id # i} \subseteq Timers
  <1>1. armed \subseteq Timers
    BY DEF TypeOK
  <1>2. \A i \in Unused, k \in Kinds : i \in TimerIds /\ Armed(i, k) \in Timers
    BY DEF Unused, Armed, Timers
  <1> QED
    BY <1>1, <1>2

LEMMA ResendTyped ==
    ASSUME TypeOK, Resend, resends <= MaxResend
    PROVE  /\ resends' \in 0 .. MaxResend + 1
           /\ t3591' \in TimerIds
           /\ armed' \subseteq Timers
           /\ Armed(t3591', "T3591") \in armed'
  <1> USE DEF Timers, Armed, Kinds
  <1>1. PICK i \in Unused : t3591' = i /\ armed' = armed \cup {Armed(i, "T3591")}
    BY DEF Resend
  <1>2. i \in TimerIds /\ armed' \subseteq Timers
    BY <1>1, ArmedTyped DEF Kinds
  <1>3. resends' \in 0 .. MaxResend + 1
    BY CountersTyped DEF Resend
  <1> QED
    BY <1>1, <1>2, <1>3

LEMMA N4Typed ==
    ASSUME TypeOK, NEW op \in Operations
    PROVE  /\ [n4 EXCEPT ![op] = @ + 1] \in [Operations -> Nat]
           /\ n4[op] > 0 => [n4 EXCEPT ![op] = @ - 1] \in [Operations -> Nat]
  <1>1. n4 \in [Operations -> Nat] /\ n4[op] \in Nat
    BY DEF TypeOK
  <1>2. n4[op] + 1 \in Nat /\ (n4[op] > 0 => n4[op] - 1 \in Nat)
    BY <1>1
  <1> QED
    BY <1>1, <1>2

LEMMA NextTyped == TypeOK /\ [Next]_vars => TypeOK'
  <1> SUFFICES ASSUME TypeOK, [Next]_vars PROVE TypeOK'
    OBVIOUS
  <1> USE DEF Timers, Armed, NoTimer, Kinds, Operations, Answers, Messages,
          Timeout, Status, N4Answer
  <1>1. CASE ModificationRequest
    <2>1. PICK i \in Unused : t3591' = i /\ armed' = armed \cup {Armed(i, "T3591")}
      BY <1>1 DEF ModificationRequest
    <2>2. i \in TimerIds /\ armed' \subseteq Timers
      BY <2>1, ArmedTyped DEF Kinds
    <2>8. requests' \in 0 .. MaxRequests
      BY <1>1, CountersTyped DEF ModificationRequest, Request
    <2> QED
      BY <1>1, <2>1, <2>2, <2>8 DEF ModificationRequest, TypeOK, Statuses
  <1>2. CASE ModificationComplete
    <2>1. armed' \subseteq Timers
      BY <1>2, ArmedTyped DEF ModificationComplete, Disarm
    <2> QED
      BY <1>2, <2>1 DEF ModificationComplete, TypeOK, Statuses
  <1>3. CASE ModificationCommandReject
    <2>1. armed' \subseteq Timers
      BY <1>3, ArmedTyped DEF ModificationCommandReject, Disarm
    <2> QED
      BY <1>3, <2>1 DEF ModificationCommandReject, TypeOK, Statuses
  <1>4. CASE ReleaseRequest
    <2>1. n4' \in [Operations -> Nat]
      BY <1>4, N4Typed DEF ReleaseRequest, Operations
    <2>8. requests' \in 0 .. MaxRequests
      BY <1>4, CountersTyped DEF ReleaseRequest, Request
    <2> QED
      BY <1>4, <2>1, <2>8 DEF ReleaseRequest, TypeOK, session, timers
  <1>5. CASE ReleaseComplete
    <2>1. armed' \subseteq Timers
      BY <1>5, ArmedTyped DEF ReleaseComplete, Disarm
    <2>2. final' \in BOOLEAN
      BY <1>5 DEF ReleaseComplete, NothingUnderWay
    <2> QED
      BY <1>5, <2>1, <2>2 DEF ReleaseComplete, TypeOK, Statuses
  <1>6. CASE ResourceReleaseResponse
    BY <1>6 DEF ResourceReleaseResponse, TypeOK, Statuses, timers
  <1>7. CASE ResourceSetupResponse
    <2>1. n4' \in [Operations -> Nat]
      BY <1>7, N4Typed DEF ResourceSetupResponse, Operations, TypeOK
    <2> QED
      BY <1>7, <2>1 DEF ResourceSetupResponse, TypeOK, session, timers
  <1>8. CASE AmfRelease
    <2>1. n4' \in [Operations -> Nat]
      BY <1>8, N4Typed DEF AmfRelease, Operations
    <2>8. requests' \in 0 .. MaxRequests
      BY <1>8, CountersTyped DEF AmfRelease, Request
    <2> QED
      BY <1>8, <2>1, <2>8 DEF AmfRelease, TypeOK, session, timers
  <1>9. ASSUME NEW op \in Operations, UpfAnswers(op)
        PROVE  TypeOK'
    <2>1. n4' \in [Operations -> Nat]
      BY <1>9, N4Typed DEF UpfAnswers
    <2>2. queue' \in Seq(Messages)
      BY <1>9, MessagesTyped, PutKeeps DEF UpfAnswers, TypeOK
    <2> QED
      BY <1>9, <2>1, <2>2 DEF UpfAnswers, TypeOK, session
  <1>10. CASE AmfAnswers
    <2>1. queue' \in Seq(Messages)
      BY <1>10, MessagesTyped, PutKeeps DEF AmfAnswers, TypeOK
    <2> QED
      BY <1>10, <2>1 DEF AmfAnswers, TypeOK, session
  <1>11. CASE TransferResponse
    <2>1. queue' \in Seq(Messages)
      BY <1>11, TakeKeeps DEF TransferResponse, TypeOK
    <2> QED
      BY <1>11, <2>1 DEF TransferResponse, TypeOK, Statuses, peers
  <1>12. CASE T3591Timeout
    <2>1. queue' \in Seq(Messages)
      BY <1>12, TakeKeeps DEF T3591Timeout, TypeOK
    <2>2. CASE pending # "none" /\ resends <= MaxResend
      BY <1>12, <2>1, <2>2, ResendTyped DEF T3591Timeout, TypeOK, Statuses, peers
    <2>3. CASE ~(pending # "none" /\ resends <= MaxResend)
      BY <1>12, <2>1, <2>3 DEF T3591Timeout, TypeOK, Statuses, peers
    <2> QED
      BY <2>2, <2>3
  <1>13. CASE T3592Dropped
    <2>1. queue' \in Seq(Messages)
      BY <1>13, TakeKeeps DEF T3592Dropped, TypeOK
    <2> QED
      BY <1>13, <2>1 DEF T3592Dropped, TypeOK, session, peers
  <1>14. ASSUME NEW c \in Answers, SetupResponse(c)
         PROVE  TypeOK'
    <2>1. queue' \in Seq(Messages)
      BY <1>14, TakeKeeps DEF SetupResponse, TypeOK
    <2> QED
      BY <1>14, <2>1 DEF SetupResponse, TypeOK, Statuses, peers
  <1>15. ASSUME NEW c \in Answers, DisposeResponse(c)
         PROVE  TypeOK'
    <2>1. queue' \in Seq(Messages)
      BY <1>15, TakeKeeps DEF DisposeResponse, TypeOK
    <2>2. resends' \in 0 .. MaxResend + 1
      BY <1>15, CountersTyped DEF DisposeResponse, Clear, TypeOK
    <2> QED
      BY <1>15, <2>1, <2>2 DEF DisposeResponse, Clear, TypeOK, Statuses, peers
  <1>16. ASSUME NEW c \in Answers, ReleaseResponse(c)
         PROVE  TypeOK'
    <2>1. queue' \in Seq(Messages)
      BY <1>16, TakeKeeps DEF ReleaseResponse, TypeOK
    <2>2. PICK i \in Unused : t3592' = i /\ armed' = armed \cup {Armed(i, "T3592")}
      BY <1>16 DEF ReleaseResponse
    <2>3. i \in TimerIds /\ armed' \subseteq Timers
      BY <2>2, ArmedTyped DEF Kinds
    <2>4. /\ flows' \in BOOLEAN
          /\ t3591' \in TimerIds \cup {NoTimer}
          /\ resends' \in 0 .. MaxResend + 1
      BY <1>16, CountersTyped DEF ReleaseResponse, TypeOK
    <2>5. ue' \subseteq {"setup", "modify", "release", "n2 release"}
      BY <1>16 DEF ReleaseResponse, TypeOK
    <2>6. /\ status' \in Statuses /\ upCnx' \in BOOLEAN
          /\ pending' = "release"
          /\ UNCHANGED <<n4, transfer, ueKnows, requests, final>>
      BY <1>16 DEF ReleaseResponse, Statuses
    <2> QED
      BY <2>1, <2>2, <2>3, <2>4, <2>5, <2>6 DEF TypeOK
  <1>17. ASSUME NEW t \in armed, Expire(t)
         PROVE  TypeOK'
    <2>1. t.kind \in Kinds
      BY DEF TypeOK, Armed
    <2>2. queue' \in Seq(Messages)
      BY <1>17, <2>1, MessagesTyped, PutKeeps DEF Expire, TypeOK
    <2> QED
      BY <1>17, <2>2 DEF Expire, TypeOK, session, peers
  <1>18. CASE UNCHANGED vars
    BY <1>18 DEF vars, session, timers, peers, TypeOK
  <1> QED
    BY <1>1, <1>2, <1>3, <1>4, <1>5, <1>6, <1>7, <1>8, <1>9, <1>10, <1>11,
       <1>12, <1>13, <1>14, <1>15, <1>16, <1>17, <1>18 DEF Next, SmfApp, Time

(* The variables of a session keep their types, and T3591 is started again *)
(* at most MaxResend + 1 times in a row (timer_t3591_timeout).             *)
THEOREM TimersTyped == Spec => []TypeOK
  BY InitTyped, NextTyped, PTL DEF Spec
------------------------------------------------------------------------------
(* ModificationWatched.  It is not inductive alone: a time-out of T3591    *)
(* that finds no command would leave the session unwatched.                *)
Watched == Armed(t3591, "T3591") \in armed \/ Queued

LEMMA WatchedDef ==
    ModificationWatched <=> (status = "MODIFICATION_PENDING" => Watched)
  BY DEF ModificationWatched, Watched, Queued

LEMMA InitWatch == Init => WatchInv
  <1>1. Init => CommandKept /\ ModificationWatched
    BY DEF Init, CommandKept, ModificationWatched
  <1> QED
    BY <1>1, InitTyped DEF WatchInv

(* A step that neither enters the state nor stops the timer.               *)
LEMMA StaysWatched ==
    ASSUME WatchInv,
           status' = "MODIFICATION_PENDING" => status = "MODIFICATION_PENDING",
           Watched => Watched',
           pending' # "none" \/ pending' = pending
    PROVE  CommandKept' /\ ModificationWatched'
  <1>1. CommandKept'
    BY DEF WatchInv, CommandKept
  <1>2. status' = "MODIFICATION_PENDING" => Watched'
    BY WatchedDef DEF WatchInv
  <1>3. ModificationWatched'
    BY <1>2 DEF ModificationWatched, Watched, Queued
  <1> QED
    BY <1>1, <1>3

(* The timers and the queue of the session are as they were.               *)
LEMMA SameWatch ==
    ASSUME t3591' = t3591, armed' = armed, queue' = queue
    PROVE  Watched => Watched'
  BY DEF Watched, Queued, Armed, Timeout

LEMMA SessionLeftAlone ==
    ASSUME WatchInv, UNCHANGED <<status, pending, t3591, armed>>,
           queue' = queue \/ (Queued => Queued')
    PROVE  CommandKept' /\ ModificationWatched'
  <1>1. Watched => Watched'
    BY SameWatch DEF Watched, Armed
  <1> QED
    BY <1>1, StaysWatched

LEMMA NextWatch == WatchInv /\ [Next]_vars => WatchInv'
  <1> SUFFICES ASSUME WatchInv, [Next]_vars
               PROVE  CommandKept' /\ ModificationWatched'
    BY NextTyped DEF WatchInv
  <1>0. TypeOK /\ queue \in Seq(Messages)
    BY DEF WatchInv, TypeOK
  <1>1. CASE ModificationRequest
    <2>1. PICK i \in Unused : t3591' = i /\ armed' = armed \cup {Armed(i, "T3591")}
      BY <1>1 DEF ModificationRequest
    <2>2. Watched'
      BY <2>1 DEF Watched, Armed
    <2>3. ModificationWatched'
      BY <2>2 DEF ModificationWatched, Watched, Queued
    <2>4. CommandKept'
      BY <1>1 DEF ModificationRequest, CommandKept
    <2> QED
      BY <2>3, <2>4
  <1>2. CASE ModificationComplete
    BY <1>2 DEF ModificationComplete, CommandKept, ModificationWatched
  <1>3. CASE ModificationCommandReject
    <2>1. status' # "MODIFICATION_PENDING"
      BY <1>3 DEF ModificationCommandReject
    <2> QED
      BY <2>1 DEF CommandKept, ModificationWatched
  <1>4. CASE ReleaseRequest
    BY <1>4, SessionLeftAlone DEF ReleaseRequest, session, timers
  <1>5. CASE ReleaseComplete
    BY <1>5 DEF ReleaseComplete, CommandKept, ModificationWatched
  <1>6. CASE ResourceReleaseResponse
    BY <1>6 DEF ResourceReleaseResponse, CommandKept, ModificationWatched
  <1>7. CASE ResourceSetupResponse
    BY <1>7, SessionLeftAlone DEF ResourceSetupResponse, session, timers
  <1>8. CASE AmfRelease
    BY <1>8, SessionLeftAlone DEF AmfRelease, session, timers
  <1>9. ASSUME NEW op \in Operations, UpfAnswers(op)
        PROVE  CommandKept' /\ ModificationWatched'
    <2>1. queue' = queue \/ (Queued => Queued')
      BY <1>0, <1>9, MessagesTyped, PutKeeps DEF UpfAnswers
    <2> QED
      BY <1>9, <2>1, SessionLeftAlone DEF UpfAnswers, session
  <1>10. CASE AmfAnswers
    <2>1. queue' = queue \/ (Queued => Queued')
      BY <1>0, <1>10, MessagesTyped, PutKeeps DEF AmfAnswers
    <2> QED
      BY <1>10, <2>1, SessionLeftAlone DEF AmfAnswers, session
  <1>11. CASE TransferResponse
    BY <1>11 DEF TransferResponse, CommandKept, ModificationWatched
  <1>12. CASE T3591Timeout
    <2>1. CASE pending # "none" /\ resends <= MaxResend
      <3>1. Watched'
        BY <1>0, <1>12, <2>1, ResendTyped DEF T3591Timeout, Watched
      <3> QED
        BY <1>12, <2>1, <3>1 DEF T3591Timeout, CommandKept,
           ModificationWatched, Watched, Queued
    <2>2. CASE pending # "none" /\ ~(resends <= MaxResend)
      <3>1. resends > MaxResend
        <4>1. resends \in 0 .. MaxResend + 1
          BY <1>0 DEF TypeOK
        <4> QED
          BY <2>2, <4>1, TimersAssumption
      <3> QED
        BY <1>12, <2>2, <3>1 DEF T3591Timeout, CommandKept, ModificationWatched
    <2>3. CASE pending = "none"
      BY <1>12, <2>3 DEF T3591Timeout, CommandKept, ModificationWatched, WatchInv
    <2> QED
      BY <2>1, <2>2, <2>3
  <1>13. CASE T3592Dropped
    <2>1. Queued => Queued'
      BY <1>0, <1>13, TakeKeeps DEF T3592Dropped, Timeout
    <2> QED
      BY <1>13, <2>1, SessionLeftAlone DEF T3592Dropped, session, peers
  <1>14. ASSUME NEW c \in Answers, SetupResponse(c)
         PROVE  CommandKept' /\ ModificationWatched'
    <2>1. Queued => Queued'
      BY <1>0, <1>14, TakeKeeps DEF SetupResponse, N4Answer, Timeout
    <2>2. Watched => Watched'
      BY <1>14, <2>1 DEF SetupResponse, Watched, Armed
    <2> QED
      BY <1>14, <2>2, StaysWatched DEF SetupResponse
  <1>15. ASSUME NEW c \in Answers, DisposeResponse(c)
         PROVE  CommandKept' /\ ModificationWatched'
    <2>1. CASE c = "accepted"
      BY <1>15, <2>1 DEF DisposeResponse, Clear, CommandKept, ModificationWatched
    <2>2. CASE c # "accepted"
      <3>1. Queued => Queued'
        BY <1>0, <1>15, TakeKeeps DEF DisposeResponse, N4Answer, Timeout
      <3> QED
        BY <1>15, <2>2, <3>1, SessionLeftAlone DEF DisposeResponse, peers
    <2> QED
      BY <2>1, <2>2
  <1>16. ASSUME NEW c \in Answers, ReleaseResponse(c)
         PROVE  CommandKept' /\ ModificationWatched'
    BY <1>16 DEF ReleaseResponse, CommandKept, ModificationWatched
  <1>17. ASSUME NEW t \in armed, Expire(t)
         PROVE  CommandKept' /\ ModificationWatched'
    <2>1. t.kind \in Kinds /\ Timeout(t.kind) \in Messages
      BY <1>0, MessagesTyped DEF TypeOK, Timers
    <2>2. (Queued => Queued') /\ (t.kind = "T3591" => Queued')
      BY <1>0, <1>17, <2>1, PutKeeps DEF Expire
    <2>3. Watched => Watched'
      <3>1. CASE t = Armed(t3591, "T3591")
        BY <2>2, <3>1 DEF Watched, Armed
      <3>2. CASE t # Armed(t3591, "T3591")
        BY <1>17, <2>2, <3>2 DEF Expire, session, Watched, Armed
      <3> QED
        BY <3>1, <3>2
    <2> QED
      BY <1>17, <2>3, StaysWatched DEF Expire, session
  <1>18. CASE UNCHANGED vars
    BY <1>18, SessionLeftAlone DEF vars, session, timers
  <1> QED
    BY <1>1, <1>2, <1>3, <1>4, <1>5, <1>6, <1>7, <1>8, <1>9, <1>10, <1>11,
       <1>12, <1>13, <1>14, <1>15, <1>16, <1>17, <1>18 DEF Next, SmfApp, Time

(* A session that waits for the answer to a modification command is always *)
(* watched by a T3591 that runs or has just expired                        *)
(* (handle_pdu_session_modification_request, timer_t3591_timeout).         *)
THEOREM AlwaysWatched == Spec => []ModificationWatched
  <1>1. WatchInv => ModificationWatched
    BY DEF WatchInv
  <1> QED
    BY <1>1, InitWatch, NextWatch, PTL DEF Spec
------------------------------------------------------------------------------
(* ReleaseIsFinal.  What is left after a final release is in Settled.      *)
SettledInv == TypeOK /\ Settled

LEMMA InitSettled == Init => SettledInv
  <1>1. Init => Settled
    BY DEF Init, Settled
  <1> QED
    BY <1>1, InitTyped DEF SettledInv

(* Messages that are added are harmless, and none that is taken matters.   *)
LEMMA PutHarmless ==
    ASSUME queue \in Seq(Messages), NEW m \in Messages, Harmless(m),
           queue' = Append(queue, m),
           \A i \in DOMAIN queue : Harmless(queue[i])
    PROVE  \A i \in DOMAIN queue' : Harmless(queue[i])'
  <1>1. \A i \in DOMAIN queue' : queue'[i] = m \/ (i \in DOMAIN queue /\ queue'[i] = queue[i])
    BY PutKeeps
  <1> QED
    BY <1>1 DEF Harmless, Timeout

LEMMA TakeHarmless ==
    ASSUME queue \in Seq(Messages), NEW m, Take(m),
           \A i \in DOMAIN queue : Harmless(queue[i])
    PROVE  /\ Harmless(m)
           /\ \A i \in DOMAIN queue' : Harmless(queue[i])'
  <1>1. /\ 1 \in DOMAIN queue /\ queue[1] = m
        /\ \A i \in DOMAIN queue' : i + 1 \in DOMAIN queue /\ queue'[i] = queue[i + 1]
    BY TakeKeeps
  <1> QED
    BY <1>1 DEF Harmless, Timeout

LEMMA NextSettled == SettledInv /\ [Next]_vars => SettledInv'
  <1> SUFFICES ASSUME SettledInv, [Next]_vars
               PROVE  Settled'
    BY NextTyped DEF SettledInv
  <1>0. TypeOK /\ queue \in Seq(Messages)
    BY DEF SettledInv, TypeOK
  <1>1. CASE ~final /\ final' = final
    BY <1>1 DEF Settled
  <1>2. CASE ReleaseComplete
    <2> SUFFICES ASSUME NothingUnderWay
                 PROVE  Settled'
      BY <1>2 DEF ReleaseComplete, Settled
    <2>1. queue' = <<>> /\ transfer' = FALSE /\ ue' = {} /\ ueKnows' = FALSE
          /\ status' = "INACTIVE"
      BY <1>2 DEF ReleaseComplete, NothingUnderWay
    <2>2. n4'["setup"] = 0 /\ n4'["release"] = 0
      BY <1>2 DEF ReleaseComplete, NothingUnderWay, Operations
    <2>3. \A t \in armed' : t.kind # "T3591"
      BY <1>2 DEF ReleaseComplete, NothingUnderWay, Disarm
    <2>4. DOMAIN queue' = {}
      BY <2>1
    <2> QED
      BY <2>1, <2>2, <2>3, <2>4 DEF Settled
  <1>3. ASSUME final, final' = final
        PROVE  Settled'
    <2>0. /\ status = "INACTIVE"
          /\ ~ueKnows /\ ~transfer /\ ue = {}
          /\ n4["setup"] = 0 /\ n4["release"] = 0
          /\ \A t \in armed : t.kind # "T3591"
          /\ \A i \in DOMAIN queue : Harmless(queue[i])
      BY <1>3 DEF SettledInv, Settled
    <2>1. ~(ModificationRequest \/ ModificationComplete \/ ReleaseRequest
            \/ AmfAnswers \/ ModificationCommandReject \/ ReleaseComplete
            \/ ResourceReleaseResponse \/ ResourceSetupResponse)
      BY <2>0 DEF ModificationRequest, ModificationComplete, ReleaseRequest,
         AmfAnswers, ModificationCommandReject, ReleaseComplete,
         ResourceReleaseResponse, ResourceSetupResponse
    <2>2. CASE AmfRelease
      <3>1. n4'["setup"] = 0 /\ n4'["release"] = 0
        BY <1>0, <2>0, <2>2 DEF AmfRelease, TypeOK, Operations
      <3>2. UNCHANGED <<status, ueKnows, transfer, ue, armed, queue>>
        BY <2>2 DEF AmfRelease, session, timers
      <3> QED
        BY <2>0, <3>1, <3>2 DEF Settled, Harmless, Timeout
    <2>3. ASSUME NEW op \in Operations, UpfAnswers(op)
          PROVE  Settled'
      <3>1. op = "dispose"
        <4>1. n4[op] > 0
          BY <2>3 DEF UpfAnswers
        <4> QED
          BY <2>0, <4>1 DEF Operations
      <3>2. n4'["setup"] = 0 /\ n4'["release"] = 0
        BY <1>0, <2>0, <2>3, <3>1 DEF UpfAnswers, TypeOK, Operations
      <3>3. \A i \in DOMAIN queue' : Harmless(queue[i])'
        <4>1. CASE queue' = queue
          BY <2>0, <4>1 DEF Harmless, Timeout
        <4>2. ASSUME NEW c \in Answers, queue' = Append(queue, N4Answer(op, c))
              PROVE  \A i \in DOMAIN queue' : Harmless(queue[i])'
          <5>1. N4Answer(op, c) \in Messages /\ Harmless(N4Answer(op, c))
            BY <3>1, MessagesTyped DEF Harmless, N4Answer
          <5> QED
            BY <1>0, <2>0, <4>2, <5>1, PutHarmless
        <4> QED
          BY <2>3, <4>1, <4>2 DEF UpfAnswers
      <3>4. UNCHANGED <<status, ueKnows, transfer, ue, armed>>
        BY <2>3 DEF UpfAnswers, session
      <3> QED
        BY <2>0, <3>2, <3>3, <3>4 DEF Settled
    <2>4. ASSUME NEW m, Take(m), ~Harmless(m)
          PROVE  FALSE
      BY <1>0, <2>0, <2>4, TakeHarmless
    <2>5. ~TransferResponse /\ ~T3591Timeout
      <3>1. ~Harmless(Status) /\ ~Harmless(Timeout("T3591"))
        BY DEF Harmless, Status, Timeout
      <3> QED
        BY <2>4, <3>1 DEF TransferResponse, T3591Timeout
    <2>6. \A c \in Answers : ~SetupResponse(c) /\ ~ReleaseResponse(c)
      <3>1. \A c \in Answers : ~Harmless(N4Answer("setup", c)) /\ ~Harmless(N4Answer("release", c))
        BY DEF Harmless, N4Answer, Timeout
      <3> QED
        BY <2>4, <3>1 DEF SetupResponse, ReleaseResponse
    <2>7. CASE T3592Dropped
      <3>1. \A i \in DOMAIN queue' : Harmless(queue[i])'
        BY <1>0, <2>0, <2>7, TakeHarmless DEF T3592Dropped
      <3> QED
        BY <2>0, <2>7, <3>1 DEF T3592Dropped, session, peers, Settled
    <2>8. ASSUME NEW c \in Answers, DisposeResponse(c)
          PROVE  Settled'
      <3>1. \A i \in DOMAIN queue' : Harmless(queue[i])'
        BY <1>0, <2>0, <2>8, TakeHarmless DEF DisposeResponse
      <3>2. status' = "INACTIVE"
        BY <2>0, <2>8 DEF DisposeResponse, Clear
      <3> QED
        BY <2>0, <2>8, <3>1, <3>2 DEF DisposeResponse, peers, Settled
    <2>9. ASSUME NEW t \in armed, Expire(t)
          PROVE  Settled'
      <3>1. t.kind = "T3592" /\ Timeout(t.kind) \in Messages
        BY <1>0, <2>0, MessagesTyped DEF TypeOK, Timers, Kinds
      <3>2. \A i \in DOMAIN queue' : Harmless(queue[i])'
        BY <1>0, <2>0, <2>9, <3>1, PutHarmless DEF Expire, Harmless
      <3> QED
        BY <2>0, <2>9, <3>2 DEF Expire, session, peers, Settled
    <2>10. CASE UNCHANGED vars
      <3>1. UNCHANGED <<status, ueKnows, transfer, ue, armed, queue, n4>>
        BY <2>10 DEF vars, session, timers, peers
      <3> QED
        BY <2>0, <3>1 DEF Settled, Harmless, Timeout
    <2> QED
      BY <2>1, <2>2, <2>3, <2>5, <2>6, <2>7, <2>8, <2>9, <2>10
         DEF Next, SmfApp, Time
  <1>4. final' = final \/ ReleaseComplete
    BY DEF Next, SmfApp, Time, vars, ModificationRequest, ModificationComplete,
       ModificationCommandReject, ReleaseRequest, ResourceReleaseResponse,
       ResourceSetupResponse, AmfRelease, UpfAnswers, AmfAnswers,
       TransferResponse, T3591Timeout, T3592Dropped, SetupResponse,
       DisposeResponse, ReleaseResponse, Expire
  <1>5. final \in BOOLEAN
    BY <1>0 DEF TypeOK
  <1> QED
    BY <1>1, <1>2, <1>3, <1>4, <1>5

(* No time-out, answer or release revives a session whose release the UE   *)
(* has completed with nothing else under way                               *)
(* (handle_pdu_session_release_complete).                                  *)
THEOREM ReleaseFinal == Spec => []ReleaseIsFinal
  <1>1. SettledInv => ReleaseIsFinal
    BY DEF SettledInv, Settled, ReleaseIsFinal
  <1> QED
    BY <1>1, InitSettled, NextSettled, PTL DEF Spec
==============================================================================
