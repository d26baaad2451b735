------------------------------ MODULE IttiTimer ------------------------------
(***************************************************************************)
(* The timers of the ITTI middleware (src/itti/itti.cpp, the same in AMF,  *)
(* SMF and UPF): one timer thread (timer_manager_task) and the tasks that  *)
(* call timer_setup and timer_remove.                                      *)
(*                                                                         *)
(* Steps.  m_timers is held across several steps of a caller and is a      *)
(* variable.  Every use of m_timeout takes it, does one thing and either   *)
(* releases it or waits, so each is one step and m_timeout needs no        *)
(* variable.  What is read or written without a lock (timer_id,            *)
(* current_timer) is read and written in steps of its own.                 *)
(*                                                                         *)
(* Data.  A timer is a number of Timers, in the order they are created;    *)
(* its id is the value timer_id gave it, and two timers may share one.     *)
(***************************************************************************)
EXTENDS Naturals, FiniteSets

CONSTANTS
    Callers,     \* tasks that call timer_setup and timer_remove
    MaxTimers,   \* bound on the timers set up
    Durations,   \* intervals given to timer_setup
    MaxTime,     \* bound on the clock
    MaxRemoves,  \* bound on the calls of timer_remove
    Unset,       \* no time: a timer not created, not removed
    Null,        \* null_timer, in current_timer and in what is read of it
    Unread,      \* a field of current_timer not yet read
    Free         \* m_timers is not held

Timers == 1 .. MaxTimers
Never == MaxTime + 1     \* the time-out of null_timer, decades away

ASSUME TimerAssumption ==
    /\ MaxTimers \in Nat \ {0}
    /\ Durations \subseteq Nat
    /\ MaxTime \in Nat
    /\ MaxRemoves \in Nat
    /\ Unset \notin Nat
    /\ Null \notin Timers
    /\ Unread \notin Timers \cup {Null}
    /\ Free \notin Callers

VARIABLES
    now,         \* system_clock
    timer_id,    \* the counter of increment_timer_id
    created,     \* number of timers created so far
    tid,         \* id of each timer
    due,         \* its time_out
    timers,      \* the std::set ordered by time_out
    current,     \* current_timer
    mTimers,     \* holder of m_timers
    cpc,         \* where each caller is in timer_setup or timer_remove
    held,        \* the counter a caller loaded, then the timer it constructed
    known,       \* ids that timer_setup has returned
    tpc,         \* where the timer thread is in timer_manager_task
    wakeAt,      \* the time c_timeout.wait_for waits for
    msg,         \* the fields of current_timer read for the message so far
    removes,     \* calls of timer_remove so far
    sends,       \* history: time-out messages queued for each timer
    removedAt    \* history: when timer_remove took each timer out

callerVars == <<timer_id, created, tid, due, cpc, held, known>>
threadVars == <<tpc, wakeAt, msg>>
history == <<sends, removedAt>>
vars == <<now, timers, current, mTimers, removes, callerVars, threadVars,
          history>>

NoMsg == [task |-> Unread, load |-> Unread]

Init ==
    /\ now = 0
    /\ timer_id = 0
    /\ created = 0
    /\ tid = [i \in Timers |-> 0]
    /\ due = [i \in Timers |-> Unset]
    /\ timers = {}
    /\ current = Null
    /\ mTimers = Free
    /\ cpc = [c \in Callers |-> "idle"]
    /\ held = [c \in Callers |-> 0]
    /\ known = {}
    /\ tpc = "loop"
    /\ wakeAt = Never
    /\ msg = NoMsg
    /\ removes = 0
    /\ sends = [i \in Timers |-> 0]
    /\ removedAt = [i \in Timers |-> Unset]

Tick ==
    /\ now < MaxTime
    /\ now' = now + 1
    /\ UNCHANGED <<timers, current, mTimers, removes, callerVars, threadVars,
                   history>>

(* std::set::insert: a timer is not inserted beside one of equal time_out. *)
Insert(S, i) == IF \E j \in S : due[j] = due[i] THEN S ELSE S \cup {i}

(* The first timers of the set.                                            *)
Earliest(S) == {i \in S : \A j \in S : due[i] <= due[j]}

(* c_timers.notify_one: the thread leaves its wait, if it is in it.        *)
NotifyTimers == tpc' = IF tpc = "waitTimers" THEN "loop" ELSE tpc

(* c_timeout.notify_one.                                                   *)
NotifyTimeout == tpc' = IF tpc = "sleep" THEN "woken" ELSE tpc
------------------------------------------------------------------------------
(* timer_setup.  ++timer_id is a load and a store, with nothing to keep    *)
(* another caller from loading the same value in between.                  *)
SetupLoad(c) ==
    /\ cpc[c] = "idle"
    /\ created + Cardinality({b \in Callers : cpc[b] = "construct"}) < MaxTimers
    /\ cpc' = [cpc EXCEPT ![c] = "construct"]
    /\ held' = [held EXCEPT ![c] = timer_id]
    /\ UNCHANGED <<now, timers, current, mTimers, removes, timer_id, created,
                   tid, due, known, threadVars, history>>

SetupConstruct(c, d) ==
    /\ cpc[c] = "construct"
    /\ now + d <= MaxTime
    /\ timer_id' = held[c] + 1
    /\ created' = created + 1
    /\ tid' = [tid EXCEPT ![created'] = timer_id']
    /\ due' = [due EXCEPT ![created'] = now + d]
    /\ held' = [held EXCEPT ![c] = created']
    /\ cpc' = [cpc EXCEPT ![c] = "insert"]
    /\ UNCHANGED <<now, timers, current, mTimers, removes, known, threadVars,
                   history>>

(* Fault: the timer thread is not told that its set is no longer empty.    *)
SetupInsertUntold(c) ==
    /\ cpc[c] = "insert"
    /\ mTimers = Free
    /\ mTimers' = c
    /\ timers' = Insert(timers, held[c])
    /\ cpc' = [cpc EXCEPT ![c] = "setupWake"]
    /\ UNCHANGED <<now, current, removes, timer_id, created, tid, due, held,
                   known, threadVars, history>>

SetupInsert(c) ==
    /\ cpc[c] = "insert"
    /\ mTimers = Free
    /\ mTimers' = c
    /\ timers' = Insert(timers, held[c])
    /\ NotifyTimers
    /\ cpc' = [cpc EXCEPT ![c] = "setupWake"]
    /\ UNCHANGED <<now, current, removes, timer_id, created, tid, due, held,
                   known, wakeAt, msg, history>>

(* Both locks are released and the id returned, whether the timer went     *)
(* into the set or not.                                                    *)
SetupWake(c) ==
    /\ cpc[c] = "setupWake"
    /\ NotifyTimeout
    /\ mTimers' = Free
    /\ known' = known \cup {tid[held[c]]}
    /\ cpc' = [cpc EXCEPT ![c] = "idle"]
    /\ held' = [held EXCEPT ![c] = 0]
    /\ UNCHANGED <<now, timers, current, removes, timer_id, created, tid, due,
                   wakeAt, msg, history>>
------------------------------------------------------------------------------
(* timer_remove, of an id some timer_setup returned or of the invalid id 0 *)
(* that timer members are initialised with.  A call that finds no such     *)
(* timer returns RETURNerror and changes nothing.                          *)
Removable == known \cup {0}

CurrentId == IF current = Null THEN 0 ELSE tid[current]

Removed(i) == removedAt' = [removedAt EXCEPT ![i] = now]

RemoveCurrent(c, id) ==
    /\ cpc[c] = "idle"
    /\ removes < MaxRemoves
    /\ mTimers = Free
    /\ CurrentId = id
    /\ removes' = removes + 1
    /\ current' = Null
    /\ IF current = Null THEN UNCHANGED removedAt ELSE Removed(current)
    /\ NotifyTimers
    /\ mTimers' = c
    /\ cpc' = [cpc EXCEPT ![c] = "removeWake"]
    /\ UNCHANGED <<now, timers, timer_id, created, tid, due, held, known,
                   wakeAt, msg, sends>>

RemoveWake(c) ==
    /\ cpc[c] = "removeWake"
    /\ NotifyTimeout
    /\ mTimers' = Free
    /\ cpc' = [cpc EXCEPT ![c] = "idle"]
    /\ UNCHANGED <<now, timers, current, removes, timer_id, created, tid, due,
                   held, known, wakeAt, msg, history>>

RemovePending(c, id) ==
    /\ cpc[c] = "idle"
    /\ removes < MaxRemoves
    /\ mTimers = Free
    /\ CurrentId # id
    /\ \E i \in Earliest({j \in timers : tid[j] = id}) :
          timers' = timers \ {i} /\ Removed(i)
    /\ removes' = removes + 1
    /\ UNCHANGED <<now, current, mTimers, callerVars, threadVars, sends>>
------------------------------------------------------------------------------
(* timer_manager_task.                                                     *)
WaitTimers ==
    /\ tpc = "loop"
    /\ mTimers = Free
    /\ timers = {}
    /\ tpc' = "waitTimers"
    /\ UNCHANGED <<now, timers, current, mTimers, removes, callerVars, wakeAt,
                   msg, history>>

Pop ==
    /\ tpc = "loop"
    /\ mTimers = Free
    /\ \E i \in Earliest(timers) : current' = i /\ timers' = timers \ {i}
    /\ tpc' = "check"
    /\ UNCHANGED <<now, mTimers, removes, callerVars, wakeAt, msg, history>>

TimeOut == IF current = Null THEN Never ELSE due[current]

Check ==
    /\ tpc = "check"
    /\ tpc' = IF TimeOut > now THEN "arm" ELSE "send"
    /\ UNCHANGED <<now, timers, current, mTimers, removes, callerVars, wakeAt,
                   msg, history>>

(* Under m_timeout: current_timer is read again, and the thread waits.     *)
Sleep ==
    /\ tpc = "arm"
    /\ wakeAt' = TimeOut
    /\ tpc' = "sleep"
    /\ UNCHANGED <<now, timers, current, mTimers, removes, callerVars, msg,
                   history>>

(* A condition variable may wake its thread for no reason.                 *)
Spurious ==
    /\ \/ tpc = "sleep" /\ tpc' = "woken"
       \/ tpc = "waitTimers" /\ tpc' = "loop"
    /\ UNCHANGED <<now, timers, current, mTimers, removes, callerVars, wakeAt,
                   msg, history>>

(* Fault: every return of wait_for is taken for a time-out.                *)
WakeUpAlwaysDue ==
    /\ \/ tpc = "sleep" /\ now >= wakeAt
       \/ tpc = "woken"
    /\ tpc' = "send"
    /\ wakeAt' = Never
    /\ UNCHANGED <<now, timers, current, mTimers, removes, callerVars, msg,
                   history>>

(* wait_for reports a time-out if the time has come when it returns, also  *)
(* when a notification ended the wait.                                     *)
WakeUp ==
    /\ \/ /\ tpc \in {"sleep", "woken"}
          /\ now >= wakeAt
          /\ tpc' = "send"
       \/ /\ tpc = "woken"
          /\ now < wakeAt
          /\ tpc' = "requeue"
    /\ wakeAt' = Never
    /\ UNCHANGED <<now, timers, current, mTimers, removes, callerVars, msg,
                   history>>

(* Fault: the timer that was removed meanwhile is put back as well.        *)
RequeueAlways ==
    /\ tpc = "requeue"
    /\ mTimers = Free
    /\ timers' = Insert(timers, current)
    /\ current' = Null
    /\ tpc' = "loop"
    /\ UNCHANGED <<now, mTimers, removes, callerVars, wakeAt, msg, history>>

Requeue ==
    /\ tpc = "requeue"
    /\ mTimers = Free
    /\ timers' = IF current = Null THEN timers ELSE Insert(timers, current)
    /\ current' = Null
    /\ tpc' = "loop"
    /\ UNCHANGED <<now, mTimers, removes, callerVars, wakeAt, msg, history>>

(* The message is built from current_timer without a lock, field by field. *)
ReadField(f) ==
    /\ tpc = "send"
    /\ msg[f] = Unread
    /\ msg' = [msg EXCEPT ![f] = current]
    /\ UNCHANGED <<now, timers, current, mTimers, removes, callerVars, tpc,
                   wakeAt, history>>

(* send_msg queues the message, unless its destination is the TASK_NONE of *)
(* null_timer; one whose arguments come from null_timer stands for no      *)
(* timer.  current_timer keeps the timer that was sent.                    *)
SendMsg ==
    /\ tpc = "send"
    /\ Unread \notin {msg.task, msg.load}
    /\ sends' = IF msg.task = Null \/ msg.load = Null THEN sends
                ELSE [sends EXCEPT ![msg.load] = @ + 1]
    /\ msg' = NoMsg
    /\ tpc' = "loop"
    /\ UNCHANGED <<now, timers, current, mTimers, removes, callerVars, wakeAt,
                   removedAt>>
------------------------------------------------------------------------------
SetupStep(c) ==
    \/ \E d \in Durations : SetupConstruct(c, d)
    \/ SetupInsert(c) \/ SetupWake(c)

Setup(c) == SetupLoad(c) \/ SetupStep(c)

RemoveCall(c) == \E id \in Removable : RemoveCurrent(c, id) \/ RemovePending(c, id)

Thread ==
    \/ WaitTimers \/ Pop \/ Check \/ Sleep \/ WakeUp \/ Requeue
    \/ \E f \in {"task", "load"} : ReadField(f)
    \/ SendMsg

Next ==
    \/ Tick \/ Thread \/ Spurious
    \/ \E c \in Callers : Setup(c) \/ RemoveCall(c) \/ RemoveWake(c)

(* Time passes, the timer thread runs, and a call that was begun returns.  *)
(* Nothing makes a task call again, and nothing makes a wake-up spurious.  *)
Fairness ==
    /\ WF_vars(Tick)
    /\ WF_vars(Thread)
    /\ \A c \in Callers : WF_vars(SetupInsert(c)) /\ WF_vars(SetupWake(c) \/ RemoveWake(c))

Spec == Init /\ [][Next]_vars
FairSpec == Spec /\ Fairness
------------------------------------------------------------------------------
TypeOK ==
    /\ now \in 0 .. MaxTime
    /\ created \in 0 .. MaxTimers
    /\ timer_id \in 0 .. created
    /\ tid \in [Timers -> 0 .. MaxTimers]
    /\ due \in [Timers -> 0 .. MaxTime \cup {Unset}]
    /\ timers \subseteq 1 .. created
    /\ current \in 1 .. created \cup {Null}
    /\ mTimers \in Callers \cup {Free}
    /\ cpc \in [Callers -> {"idle", "construct", "insert", "setupWake", "removeWake"}]
    /\ held \in [Callers -> 0 .. created]
    /\ known \subseteq 1 .. MaxTimers
    /\ tpc \in {"loop", "waitTimers", "check", "arm", "sleep", "woken", "requeue", "send"}
    /\ wakeAt \in 0 .. Never
    /\ msg \in [{"task", "load"} -> Timers \cup {Null, Unread}]
    /\ removes \in 0 .. MaxRemoves
    /\ sends \in [Timers -> Nat]
    /\ removedAt \in [Timers -> 0 .. MaxTime \cup {Unset}]

(* A timer is pending while its caller is about to insert it, while it is  *)
(* in the set, and while the timer thread has it and has not sent it.      *)
Pending(i) ==
    \/ \E c \in Callers : cpc[c] = "insert" /\ held[c] = i
    \/ i \in timers
    \/ current = i /\ tpc \in {"check", "arm", "sleep", "woken", "requeue", "send"}

Phase(i) ==
    CASE due[i] = Unset -> "free"
      [] due[i] # Unset /\ sends[i] > 0 -> "fired"
      [] due[i] # Unset /\ sends[i] = 0 /\ removedAt[i] # Unset ->
            IF removedAt[i] < due[i] THEN "cancelled" ELSE "withdrawn"
      [] OTHER -> IF Pending(i) THEN "armed" ELSE "lost"

Service == INSTANCE TimerService WITH
    clock <- now, deadline <- due, fires <- sends,
    phase <- [i \in Timers |-> Phase(i)]

(* The threads, locks and condition variables keep the contract of the     *)
(* timers: at most one message, none before the deadline, none after a     *)
(* removal that came in time, whoever calls when and whatever the timer    *)
(* thread is doing.                                                        *)
KeepsContract == Service!TimerSpec

(* A pending timer does not stay pending for ever: it is sent, removed or  *)
(* displaced by one of the same deadline (itti.cpp:347, "wake up thread    *)
(* timer if necessary").                                                   *)
PendingEnds == \A i \in Timers : Phase(i) = "armed" ~> Phase(i) # "armed"

(* So it is as long as nobody calls timer_remove: when the thread misses   *)
(* the notification of timer_setup it sleeps too long, but not for ever.   *)
UndisturbedPendingEnds ==
    \A i \in Timers : Phase(i) = "armed" ~> Phase(i) # "armed" \/ removes > 0
==============================================================================
