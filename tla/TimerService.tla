---------------------------- MODULE TimerService -----------------------------
(***************************************************************************)
(* What the ITTI timers promise the tasks that use them (itti.hpp, the     *)
(* contract of timer_setup and timer_remove), without the threads, locks   *)
(* and condition variables that implement it: a timer that was set up is   *)
(* delivered at most once, never before its deadline, never once it was    *)
(* removed before its deadline; and it is lost only when another timer     *)
(* has the very same deadline.                                             *)
(***************************************************************************)
EXTENDS Naturals

CONSTANTS
    Timers,     \* the timers that may be set up
    Durations,  \* the intervals they are set up with
    MaxTime,    \* bound on the clock
    Unset       \* the deadline of a timer not yet set up

VARIABLES
    clock,
    deadline,   \* of each timer, Unset before it is set up
    phase,      \* where each timer is in its life
    fires       \* how often its time-out message was sent

tvars == <<clock, deadline, phase, fires>>

Phases == {"free", "armed", "fired", "cancelled", "withdrawn", "lost"}

TimerInit ==
    /\ clock = 0
    /\ deadline = [i \in Timers |-> Unset]
    /\ phase = [i \in Timers |-> "free"]
    /\ fires = [i \in Timers |-> 0]

Move(i, from, to) == phase[i] \in from /\ phase' = [phase EXCEPT ![i] = to]

Elapse ==
    /\ clock < MaxTime
    /\ clock' = clock + 1
    /\ UNCHANGED <<deadline, phase, fires>>

Arm(i) ==
    /\ Move(i, {"free"}, "armed")
    /\ \E d \in Durations : deadline' = [deadline EXCEPT ![i] = clock + d]
    /\ UNCHANGED <<clock, fires>>

(* The time-out message of i is queued for its task.                       *)
Fire(i) ==
    /\ Move(i, {"armed", "withdrawn"}, "fired")
    /\ clock >= deadline[i]
    /\ fires[i] = 0
    /\ fires' = [fires EXCEPT ![i] = 1]
    /\ UNCHANGED <<clock, deadline>>

(* A removal in time is final; one that comes at the deadline or after it  *)
(* may be too late to stop the message.                                    *)
Remove(i) ==
    /\ \/ Move(i, {"armed"}, "cancelled") /\ clock < deadline[i]
       \/ Move(i, {"armed"}, "withdrawn") /\ clock >= deadline[i]
    /\ UNCHANGED <<clock, deadline, fires>>

(* The set of pending timers is ordered by deadline alone and keeps one    *)
(* timer per deadline.                                                     *)
Lose(i) ==
    /\ Move(i, {"armed"}, "lost")
    /\ \E j \in Timers \ {i} : deadline[j] = deadline[i]
    /\ UNCHANGED <<clock, deadline, fires>>

TimerNext ==
    \/ Elapse
    \/ \E i \in Timers : Arm(i) \/ Fire(i) \/ Remove(i) \/ Lose(i)

TimerSpec == TimerInit /\ [][TimerNext]_tvars
==============================================================================
