--------------------------- MODULE IttiTimer_proofs ---------------------------
(***************************************************************************)
(* The timer thread, the locks and the condition variables of IttiTimer    *)
(* keep the contract TimerService, for any number of tasks and timers.     *)
(***************************************************************************)
EXTENDS IttiTimer, FiniteSetTheorems, TLAPS

Busy == {"check", "arm", "sleep", "woken", "requeue", "send"}

Constructing == {b \in Callers : cpc[b] = "construct"}

Counted ==
    /\ IsFiniteSet(Constructing)
    /\ created + Cardinality(Constructing) <= MaxTimers

(* A timer no message was queued for and nobody removed.                   *)
Untouched(i) == sends[i] = 0 /\ removedAt[i] = Unset

(* The timers created so far are those with a deadline.                    *)
Born ==
    \A i \in Timers :
        /\ i <= created => due[i] # Unset /\ tid[i] # 0
        /\ i > created => due[i] = Unset /\ Untouched(i)

(* The timer a task is about to insert is its own and nowhere else.        *)
Inserting ==
    /\ \A c \in Callers :
          /\ cpc[c] \in {"insert", "setupWake"} => held[c] \in Timers
          /\ cpc[c] = "insert" => /\ Untouched(held[c])
                                  /\ held[c] \notin timers
                                  /\ held[c] # current
    /\ \A b, c \in Callers :
          cpc[b] = "insert" /\ cpc[c] = "insert" /\ held[b] = held[c] => b = c

(* The timers of the set are not the thread's.                             *)
Queued == \A i \in timers : Untouched(i) /\ current # i

(* The thread's timer was not sent before SendMsg, and was after it; it is *)
(* due once the thread has gone on to send it.                             *)
AtHand ==
    current # Null =>
        /\ tpc \in Busy => Untouched(current)
        /\ tpc \notin Busy => sends[current] > 0
        /\ tpc \in {"sleep", "woken"} => wakeAt = due[current]
        /\ tpc = "send" => due[current] <= now


(* The timer a field of the message was read of is the thread's, or one    *)
(* that was removed too late.                                              *)
Reading(i) ==
    /\ i <= created /\ due[i] <= now /\ sends[i] = 0
    /\ i \notin timers
    /\ \A c \in Callers : cpc[c] = "insert" => held[c] # i
    /\ \/ current = i
       \/ current = Null /\ removedAt[i] # Unset /\ removedAt[i] >= due[i]

Read ==
    /\ tpc # "send" => msg = NoMsg
    /\ \A f \in {"task", "load"} :
          /\ msg[f] \in Timers => Reading(msg[f])
          /\ current # Null => msg[f] \in {Unread, current}

TimerInv ==
    /\ TypeOK
    /\ Counted
    /\ Born
    /\ Inserting
    /\ Queued
    /\ AtHand
    /\ Read
------------------------------------------------------------------------------
(* A timer still to be sent or removed stays pending or stays lost.        *)
Settled(i) == Untouched(i) => (Pending(i)' <=> Pending(i))

LEMMA PhaseIs ==
    ASSUME TypeOK, NEW i \in Timers
    PROVE  /\ due[i] = Unset => Phase(i) = "free"
           /\ due[i] # Unset /\ sends[i] > 0 => Phase(i) = "fired"
           /\ due[i] # Unset /\ sends[i] = 0 /\ removedAt[i] # Unset =>
                 Phase(i) = IF removedAt[i] < due[i] THEN "cancelled" ELSE "withdrawn"
           /\ due[i] # Unset /\ Untouched(i) =>
                 Phase(i) = IF Pending(i) THEN "armed" ELSE "lost"
  <1>1. sends[i] \in Nat
    BY DEF TypeOK
  <1> QED
    BY <1>1 DEF Phase, Untouched

LEMMA PhaseWillBe ==
    ASSUME TypeOK', NEW i \in Timers
    PROVE  /\ due'[i] = Unset => Phase(i)' = "free"
           /\ due'[i] # Unset /\ sends'[i] > 0 => Phase(i)' = "fired"
           /\ due'[i] # Unset /\ sends'[i] = 0 /\ removedAt'[i] # Unset =>
                 Phase(i)' = IF removedAt'[i] < due'[i] THEN "cancelled" ELSE "withdrawn"
           /\ due'[i] # Unset /\ Untouched(i)' =>
                 Phase(i)' = IF Pending(i)' THEN "armed" ELSE "lost"
  <1>1. sends'[i] \in Nat
    BY DEF TypeOK
  <1> QED
    BY <1>1 DEF Phase, Untouched

LEMMA SamePhase ==
    ASSUME TypeOK, TypeOK', NEW i \in Timers,
           due'[i] = due[i], sends'[i] = sends[i], removedAt'[i] = removedAt[i],
           Settled(i)
    PROVE  Phase(i)' = Phase(i)
  <1>1. sends[i] \in Nat
    BY DEF TypeOK
  <1> QED
    BY <1>1, PhaseIs, PhaseWillBe DEF Settled, Untouched

LEMMA Stutters ==
    ASSUME TypeOK, TypeOK', UNCHANGED <<now, due, sends, removedAt>>,
           \A i \in Timers : Settled(i)
    PROVE  UNCHANGED Service!tvars
  <1>1. \A i \in Timers : Phase(i)' = Phase(i)
    BY SamePhase
  <1> QED
    BY <1>1 DEF Service!tvars

LEMMA Moves ==
    ASSUME NEW k \in Timers, \A i \in Timers \ {k} : Phase(i)' = Phase(i),
           NEW from, Phase(k) \in from, NEW to, Phase(k)' = to
    PROVE  Service!Move(k, from, to)
  BY DEF Service!Move

LEMMA InitPhases == Init => TimerInv /\ Service!TimerInit
  <1> SUFFICES ASSUME Init PROVE TimerInv /\ Service!TimerInit
    OBVIOUS
  <1>1. TypeOK
    BY TimerAssumption DEF Init, TypeOK, Timers, Never, NoMsg
  <1>2. Constructing = {}
    BY DEF Init, Constructing
  <1>3. Counted
    BY <1>2, FS_EmptySet, TimerAssumption DEF Init, Counted
  <1>4. Born /\ Inserting /\ Queued /\ AtHand /\ Read
    BY TimerAssumption DEF Init, Born, Untouched, Inserting, Queued, AtHand, Read, NoMsg,
                           Timers, Busy
  <1>5. \A i \in Timers : Phase(i) = "free"
    BY <1>1, PhaseIs DEF Init
  <1> QED
    BY <1>1, <1>3, <1>4, <1>5 DEF TimerInv, Service!TimerInit, Init

LEMMA CreatedDue ==
    ASSUME TypeOK, Born, NEW i \in 1 .. created
    PROVE  i \in Timers /\ due[i] \in Nat /\ due[i] <= MaxTime /\ tid[i] \in 1 .. MaxTimers
  BY TimerAssumption DEF TypeOK, Born, Timers

LEMMA ReadKept ==
    ASSUME TypeOK, Read, UNCHANGED <<current, msg>>, tpc' = "send" \/ msg = NoMsg,
           \A i \in Timers : Reading(i) => Reading(i)'
    PROVE  Read'
  <1>1. \A f \in {"task", "load"} : msg[f] \in Timers => Reading(msg[f])'
    BY DEF Read
  <1> QED
    BY <1>1 DEF Read, NoMsg
------------------------------------------------------------------------------
LEMMA TickKeeps ==
    ASSUME TimerInv, Tick
    PROVE  TimerInv' /\ Service!Elapse
  <1>1. TypeOK'
    BY TimerAssumption DEF Tick, TimerInv, TypeOK, callerVars, threadVars, history
  <1>2. Counted' /\ Born' /\ Inserting' /\ Queued'
    BY DEF Tick, callerVars, threadVars, history, TimerInv, Counted, Constructing, Born,
           Untouched, Inserting, Queued
  <1>3. AtHand'
    <2>1. current # Null => due[current] \in Nat /\ now \in Nat
      BY CreatedDue DEF TimerInv, TypeOK
    <2> QED
      BY <2>1 DEF Tick, callerVars, threadVars, history, TimerInv, AtHand, Untouched, Busy
  <1>4. Read'
    <2>1. ASSUME NEW i \in Timers, Reading(i)
          PROVE  Reading(i)'
      <3>1. due[i] \in Nat /\ now \in Nat
        BY <2>1, CreatedDue DEF Reading, TimerInv, TypeOK, Timers
      <3> QED
        BY <2>1, <3>1 DEF Tick, callerVars, history, Reading
    <2> QED
      BY <2>1, ReadKept DEF Tick, threadVars, TimerInv, Read
  <1>5. \A i \in Timers : Settled(i)
    BY DEF Tick, callerVars, threadVars, history, Settled, Pending
  <1>6. \A i \in Timers : Phase(i)' = Phase(i)
    BY <1>1, <1>5, SamePhase DEF Tick, callerVars, history, TimerInv
  <1> QED
    BY <1>1, <1>2, <1>3, <1>4, <1>6
       DEF TimerInv, Service!Elapse, Tick, callerVars, history
------------------------------------------------------------------------------
(* The steps of timer_setup.                                               *)
LEMMA LoadKeeps ==
    ASSUME TimerInv, NEW c \in Callers, SetupLoad(c)
    PROVE  TimerInv' /\ UNCHANGED Service!tvars
  <1>1. TypeOK'
    BY DEF SetupLoad, TimerInv, TypeOK, threadVars, history
  <1>2. Counted'
    <2>1. Constructing' = Constructing \cup {c} /\ c \notin Constructing
      BY DEF SetupLoad, Constructing, TimerInv, TypeOK
    <2>2. /\ IsFiniteSet(Constructing')
          /\ Cardinality(Constructing') = Cardinality(Constructing) + 1
          /\ Cardinality(Constructing) \in Nat
      BY <2>1, FS_AddElement, FS_CardinalityType DEF TimerInv, Counted
    <2>3. created' = created /\ created + Cardinality(Constructing) < MaxTimers
      BY DEF SetupLoad, Constructing
    <2> QED
      BY <2>2, <2>3, TimerAssumption DEF TimerInv, TypeOK, Counted
  <1>3. Born' /\ Inserting' /\ Queued' /\ AtHand'
    BY DEF SetupLoad, threadVars, history, TimerInv, TypeOK, Born, Untouched, Inserting,
           Queued, AtHand, Busy
  <1>4. Read'
    <2>1. \A i \in Timers : Reading(i) => Reading(i)'
      BY DEF SetupLoad, history, TimerInv, TypeOK, Reading
    <2> QED
      BY <2>1, ReadKept DEF SetupLoad, threadVars, TimerInv, Read
  <1>5. \A i \in Timers : Settled(i)
    BY DEF SetupLoad, threadVars, TimerInv, TypeOK, Settled, Pending
  <1>6. UNCHANGED Service!tvars
    BY <1>1, <1>5, Stutters DEF SetupLoad, history, TimerInv
  <1> QED
    BY <1>1, <1>2, <1>3, <1>4, <1>6 DEF TimerInv

LEMMA ConstructKeeps ==
    ASSUME TimerInv, NEW c \in Callers, NEW d \in Durations, SetupConstruct(c, d)
    PROVE  TimerInv' /\ \E i \in Timers : Service!Arm(i)
  <1>1. /\ Constructing' = Constructing \ {c} /\ c \in Constructing
        /\ IsFiniteSet(Constructing')
        /\ Cardinality(Constructing') = Cardinality(Constructing) - 1
        /\ Cardinality(Constructing') \in Nat /\ Cardinality(Constructing) \in Nat
    <2>1. Constructing' = Constructing \ {c} /\ c \in Constructing
      BY DEF SetupConstruct, Constructing, TimerInv, TypeOK
    <2> QED
      BY <2>1, FS_RemoveElement, FS_CardinalityType DEF TimerInv, Counted
  <1>2. PICK k \in Timers : k = created + 1 /\ created \in Nat /\ created' = k
    BY <1>1, TimerAssumption DEF TimerInv, TypeOK, Counted, Timers, SetupConstruct
  <1>3. Counted'
    BY <1>1, <1>2, TimerAssumption DEF TimerInv, Counted
  <1>4. /\ due' = [due EXCEPT ![k] = now + d] /\ now + d \in 0 .. MaxTime
        /\ tid' = [tid EXCEPT ![k] = held[c] + 1] /\ held[c] + 1 \in 1 .. k
        /\ held' = [held EXCEPT ![c] = k] /\ timer_id' = held[c] + 1
    BY <1>2, TimerAssumption DEF SetupConstruct, TimerInv, TypeOK
  <1>5. TypeOK'
    <2>1. k \in 1 .. MaxTimers /\ held[c] + 1 \in 0 .. MaxTimers /\ created < k
      BY <1>2, <1>4, TimerAssumption DEF Timers
    <2>2. 0 .. created \subseteq 0 .. k /\ 1 .. created \subseteq 1 .. k
      BY <1>2, <2>1
    <2>3. /\ tid' \in [Timers -> 0 .. MaxTimers]
          /\ due' \in [Timers -> 0 .. MaxTime \cup {Unset}]
          /\ held' \in [Callers -> 0 .. k]
          /\ timer_id' \in 0 .. k /\ created' \in 0 .. MaxTimers
      BY <1>2, <1>4, <2>1, <2>2 DEF TimerInv, TypeOK
    <2>4. timers' \subseteq 1 .. k /\ current' \in 1 .. k \cup {Null}
      BY <2>2 DEF SetupConstruct, TimerInv, TypeOK
    <2> QED
      BY <1>2, <2>3, <2>4 DEF SetupConstruct, TimerInv, TypeOK, threadVars, history
  <1>6. Untouched(k) /\ due[k] = Unset
    BY <1>2 DEF TimerInv, Born
  <1>7. Born'
    <2>1. now + d # Unset /\ held[c] + 1 # 0
      BY <1>4, TimerAssumption
    <2>2. ASSUME NEW i \in Timers
          PROVE  /\ i \in Nat /\ (i <= k <=> i <= created \/ i = k)
                 /\ due'[i] = IF i = k THEN now + d ELSE due[i]
                 /\ tid'[i] = IF i = k THEN held[c] + 1 ELSE tid[i]
                 /\ Untouched(i)' <=> Untouched(i)
      <3>1. i \in Nat /\ (i <= k <=> i <= created \/ i = k)
        BY <1>2, TimerAssumption DEF Timers
      <3>2. /\ due'[i] = IF i = k THEN now + d ELSE due[i]
            /\ tid'[i] = IF i = k THEN held[c] + 1 ELSE tid[i]
        BY <1>4 DEF TimerInv, TypeOK
      <3> QED
        BY <3>1, <3>2 DEF SetupConstruct, history, Untouched
    <2> QED
      BY <1>2, <2>1, <2>2 DEF TimerInv, Born
  <1>8. Inserting' /\ Queued' /\ AtHand'
    BY <1>2, <1>4, <1>6, TimerAssumption
       DEF SetupConstruct, threadVars, history, TimerInv, TypeOK, Inserting, Untouched,
           Queued, AtHand, Busy
  <1>9. Read'
    <2>1. \A i \in Timers : Reading(i) => Reading(i)'
      BY <1>2, <1>4 DEF SetupConstruct, history, TimerInv, TypeOK, Reading
    <2> QED
      BY <2>1, ReadKept DEF SetupConstruct, threadVars, TimerInv, Read
  <1>10. \A i \in Timers \ {k} : Phase(i)' = Phase(i)
    <2>1. \A i \in Timers \ {k} : Settled(i) /\ due'[i] = due[i]
      BY <1>2, <1>4 DEF SetupConstruct, threadVars, TimerInv, TypeOK, Settled, Pending
    <2> QED
      BY <1>5, <2>1, SamePhase DEF SetupConstruct, history, TimerInv
  <1>11. Phase(k) = "free" /\ Phase(k)' = "armed"
    <2>1. due'[k] # Unset
      BY <1>2, <1>4, TimerAssumption DEF TimerInv, TypeOK
    <2>2. Untouched(k)' /\ Pending(k)'
      BY <1>4, <1>6 DEF SetupConstruct, history, TimerInv, TypeOK, Untouched, Pending
    <2> QED
      BY <1>2, <1>5, <1>6, <2>1, <2>2, PhaseIs, PhaseWillBe DEF TimerInv
  <1>12. Service!Arm(k)
    BY <1>4, <1>10, <1>11 DEF Service!Arm, Service!Move, SetupConstruct, history
  <1> QED
    BY <1>3, <1>5, <1>7, <1>8, <1>9, <1>12 DEF TimerInv

LEMMA SameCounted ==
    ASSUME Counted, created' = created, Constructing' = Constructing
    PROVE  Counted'
  BY DEF Counted

LEMMA InsertKeeps ==
    ASSUME TimerInv, NEW c \in Callers, SetupInsert(c)
    PROVE  /\ TimerInv'
           /\ UNCHANGED Service!tvars \/ \E i \in Timers : Service!Lose(i)
  <1>1. PICK k \in Timers : k = held[c] /\ cpc[c] = "insert"
    BY DEF SetupInsert, TimerInv, Inserting
  <1>2. /\ cpc' = [cpc EXCEPT ![c] = "setupWake"]
        /\ tpc' = IF tpc = "waitTimers" THEN "loop" ELSE tpc
        /\ UNCHANGED <<now, current, created, tid, due, held, wakeAt, msg, sends, removedAt>>
    BY DEF SetupInsert, NotifyTimers, history
  <1>3. k \in 1 .. created /\ Untouched(k) /\ k \notin timers /\ k # current
    BY <1>1 DEF TimerInv, TypeOK, Inserting, Timers
  <1>4. timers' = timers \/ timers' = timers \cup {k}
    BY <1>1 DEF SetupInsert, Insert
  <1>5. TypeOK'
    BY <1>1, <1>3, <1>4 DEF SetupInsert, NotifyTimers, TimerInv, TypeOK, history
  <1>6. Constructing' = Constructing
    BY <1>1, <1>2 DEF Constructing, TimerInv, TypeOK
  <1>7. Counted' /\ Born'
    BY <1>2, <1>6, SameCounted DEF TimerInv, Born, Untouched
  <1>8. Inserting'
    BY <1>1, <1>2, <1>3, <1>4 DEF TimerInv, TypeOK, Inserting, Untouched
  <1>9. Queued'
    BY <1>2, <1>3, <1>4 DEF TimerInv, Queued, Untouched
  <1>10. AtHand'
    BY <1>2 DEF TimerInv, AtHand, Untouched, Busy
  <1>11. Read'
    <2>1. \A i \in Timers : Reading(i) => Reading(i)'
      BY <1>1, <1>2, <1>4 DEF TimerInv, TypeOK, Reading
    <2> QED
      BY <1>2, <2>1, ReadKept DEF TimerInv, Read
  <1>12. \A i \in Timers \ {k} : Settled(i)
    BY <1>1, <1>2, <1>4 DEF TimerInv, TypeOK, Settled, Pending
  <1>13. CASE k \in timers'
    <2>1. Pending(k) /\ Pending(k)'
      BY <1>1, <1>13 DEF Pending
    <2>2. UNCHANGED Service!tvars
      BY <1>2, <1>5, <1>12, <2>1, Stutters DEF TimerInv, Settled
    <2> QED
      BY <1>5, <1>7, <1>8, <1>9, <1>10, <1>11, <2>2 DEF TimerInv
  <1>14. CASE k \notin timers'
    <2>1. \E j \in Timers \ {k} : due[j] = due[k]
      BY <1>1, <1>3, <1>14, TimerAssumption DEF SetupInsert, Insert, TimerInv, TypeOK, Timers
    <2>2. \A i \in Timers \ {k} : Phase(i)' = Phase(i)
      BY <1>2, <1>5, <1>12, SamePhase DEF TimerInv
    <2>3. Pending(k) /\ ~Pending(k)'
      BY <1>1, <1>2, <1>3, <1>14 DEF TimerInv, TypeOK, Inserting, Pending
    <2>4. due[k] # Unset /\ Untouched(k)'
      BY <1>2, <1>3, CreatedDue, TimerAssumption DEF TimerInv, Untouched
    <2>5. Phase(k) = "armed" /\ Phase(k)' = "lost"
      BY <1>2, <1>3, <1>5, <2>3, <2>4, PhaseIs, PhaseWillBe DEF TimerInv
    <2>6. Service!Lose(k)
      BY <1>2, <2>1, <2>2, <2>5 DEF Service!Lose, Service!Move
    <2> QED
      BY <1>5, <1>7, <1>8, <1>9, <1>10, <1>11, <2>6 DEF TimerInv
  <1> QED
    BY <1>13, <1>14

LEMMA WakesKeep ==
    ASSUME TimerInv, NEW c \in Callers, SetupWake(c) \/ RemoveWake(c)
    PROVE  TimerInv' /\ UNCHANGED Service!tvars
  <1>1. /\ cpc[c] \in {"setupWake", "removeWake"} /\ cpc' = [cpc EXCEPT ![c] = "idle"]
        /\ tpc' = IF tpc = "sleep" THEN "woken" ELSE tpc
        /\ UNCHANGED <<now, timers, current, created, tid, due, wakeAt, msg, sends, removedAt>>
        /\ held' = held \/ held' = [held EXCEPT ![c] = 0]
    BY DEF SetupWake, RemoveWake, NotifyTimeout, history
  <1>2. TypeOK'
    <2>1. cpc[c] = "setupWake" => tid[held[c]] \in 1 .. MaxTimers
      BY CreatedDue DEF TimerInv, TypeOK, Inserting, Timers
    <2>2. /\ \/ known' = known
             \/ known' = known \cup {tid[held[c]]} /\ cpc[c] = "setupWake"
          /\ mTimers' = Free /\ UNCHANGED <<removes, timer_id>>
      BY DEF SetupWake, RemoveWake
    <2>3. known' \subseteq 1 .. MaxTimers
      BY <2>1, <2>2 DEF TimerInv, TypeOK
    <2>4. held' \in [Callers -> 0 .. created]
      BY <1>1 DEF TimerInv, TypeOK
    <2>5. /\ cpc' \in [Callers -> {"idle", "construct", "insert", "setupWake", "removeWake"}]
          /\ tpc' \in {"loop", "waitTimers", "check", "arm", "sleep", "woken", "requeue", "send"}
      BY <1>1 DEF TimerInv, TypeOK
    <2> QED
      BY <1>1, <2>2, <2>3, <2>4, <2>5 DEF TimerInv, TypeOK
  <1>3. Constructing' = Constructing
    BY <1>1 DEF Constructing, TimerInv, TypeOK
  <1>4. Counted' /\ Born' /\ Queued'
    BY <1>1, <1>3, SameCounted DEF TimerInv, Born, Untouched, Queued
  <1>5. Inserting'
    BY <1>1 DEF TimerInv, TypeOK, Inserting, Untouched
  <1>6. AtHand'
    BY <1>1 DEF TimerInv, AtHand, Untouched, Busy
  <1>7. Read'
    <2>1. \A i \in Timers : Reading(i) => Reading(i)'
      BY <1>1 DEF TimerInv, TypeOK, Reading
    <2> QED
      BY <1>1, <2>1, ReadKept DEF TimerInv, Read
  <1>8. \A i \in Timers : Settled(i)
    BY <1>1 DEF TimerInv, TypeOK, Settled, Pending
  <1>9. UNCHANGED Service!tvars
    BY <1>1, <1>2, <1>8, Stutters DEF TimerInv
  <1> QED
    BY <1>2, <1>4, <1>5, <1>6, <1>7, <1>9 DEF TimerInv
------------------------------------------------------------------------------
(* The steps of timer_remove.  A timer that is removed leaves both the set *)
(* and the thread.                                                         *)
LEMMA RemovedIs ==
    ASSUME TimerInv, TypeOK', NEW k \in 1 .. created, Untouched(k), Pending(k),
           UNCHANGED <<now, due, sends>>, removedAt' = [removedAt EXCEPT ![k] = now],
           \A i \in Timers \ {k} : Settled(i)
    PROVE  Service!Remove(k)
  <1>1. /\ k \in Timers /\ due[k] \in Nat /\ due[k] # Unset
        /\ now \in Nat /\ now # Unset
    BY CreatedDue, TimerAssumption DEF TimerInv, TypeOK
  <1>2. removedAt'[k] = now /\ \A i \in Timers \ {k} : removedAt'[i] = removedAt[i]
    BY <1>1 DEF TimerInv, TypeOK
  <1>3. \A i \in Timers \ {k} : Phase(i)' = Phase(i)
    BY <1>2, SamePhase DEF TimerInv
  <1>4. Phase(k) = "armed"
    BY <1>1, PhaseIs DEF TimerInv
  <1>5. Phase(k)' = IF now < due[k] THEN "cancelled" ELSE "withdrawn"
    BY <1>1, <1>2, PhaseWillBe DEF Untouched
  <1>6. CASE now < due[k]
    <2>1. Service!Move(k, {"armed"}, "cancelled")
      BY <1>1, <1>3, <1>4, <1>5, <1>6 DEF Service!Move
    <2> QED
      BY <1>6, <2>1 DEF Service!Remove
  <1>7. CASE now >= due[k]
    <2>1. Phase(k)' = "withdrawn"
      BY <1>1, <1>5, <1>7
    <2>2. Service!Move(k, {"armed"}, "withdrawn")
      BY <1>1, <1>3, <1>4, <2>1 DEF Service!Move
    <2> QED
      BY <1>7, <2>2 DEF Service!Remove
  <1> QED
    BY <1>1, <1>6, <1>7

LEMMA RemoveCurrentKeeps ==
    ASSUME TimerInv, NEW c \in Callers, NEW id, RemoveCurrent(c, id)
    PROVE  /\ TimerInv'
           /\ UNCHANGED Service!tvars \/ \E i \in Timers : Service!Remove(i)
  <1>1. /\ cpc[c] = "idle" /\ cpc' = [cpc EXCEPT ![c] = "removeWake"]
        /\ tpc' = IF tpc = "waitTimers" THEN "loop" ELSE tpc
        /\ current' = Null
        /\ UNCHANGED <<now, timers, created, tid, due, held, wakeAt, msg, sends>>
    BY DEF RemoveCurrent, NotifyTimers
  <1>2. Constructing' = Constructing
    BY <1>1 DEF Constructing, TimerInv, TypeOK
  <1>3. removedAt' = removedAt \/ removedAt' = [removedAt EXCEPT ![current] = now]
    BY DEF RemoveCurrent, Removed
  <1>4. TypeOK'
    <2>1. removedAt' \in [Timers -> 0 .. MaxTime \cup {Unset}]
      BY <1>3 DEF TimerInv, TypeOK
    <2>2. /\ cpc' \in [Callers -> {"idle", "construct", "insert", "setupWake", "removeWake"}]
          /\ tpc' \in {"loop", "waitTimers", "check", "arm", "sleep", "woken", "requeue", "send"}
      BY <1>1 DEF TimerInv, TypeOK
    <2>3. removes' \in 0 .. MaxRemoves /\ mTimers' = c /\ UNCHANGED <<timer_id, known>>
      BY TimerAssumption DEF RemoveCurrent, TimerInv, TypeOK
    <2> QED
      BY <1>1, <2>1, <2>2, <2>3 DEF TimerInv, TypeOK
  <1>5. AtHand'
    BY <1>1 DEF AtHand
  <1>6. Counted' /\ timers \subseteq Timers
    BY <1>1, <1>2, SameCounted, TimerAssumption DEF TimerInv, TypeOK, Timers
  <1>7. \A i \in Timers : i # current => Settled(i) /\ (Untouched(i)' <=> Untouched(i))
    <2>1. ASSUME NEW i \in Timers, i # current
          PROVE  i # Null /\ removedAt'[i] = removedAt[i]
      BY <1>3, <2>1, TimerAssumption DEF TimerInv, TypeOK
    <2> QED
      BY <1>1, <2>1 DEF TimerInv, TypeOK, Settled, Pending, Untouched
  <1>8. Born'
    <2>1. \A i \in Timers : i > created => i # current
      <3>1. /\ current \in 1 .. created \cup {Null} /\ created \in 0 .. MaxTimers
            /\ MaxTimers \in Nat /\ Timers = 1 .. MaxTimers /\ Null \notin Timers
        BY TimerAssumption DEF TimerInv, TypeOK, Timers
      <3> QED
        BY <3>1
    <2> QED
      BY <1>1, <1>7, <2>1 DEF TimerInv, Born
  <1>9. Inserting' /\ Queued'
    BY <1>1, <1>6, <1>7, TimerAssumption DEF TimerInv, TypeOK, Inserting, Queued
  <1>10. CASE current = Null
    <2>1. removedAt' = removedAt
      BY <1>10 DEF RemoveCurrent
    <2>2. Read'
      <3>1. \A i \in Timers : Reading(i) => Reading(i)'
        BY <1>1, <1>10, <2>1 DEF TimerInv, TypeOK, Reading
      <3> QED
        BY <1>1, <1>10, <3>1, ReadKept DEF TimerInv, Read
    <2>3. UNCHANGED Service!tvars
      BY <1>1, <1>4, <1>7, <1>10, <2>1, TimerAssumption, Stutters DEF TimerInv
    <2> QED
      BY <1>4, <1>5, <1>6, <1>8, <1>9, <2>2, <2>3 DEF TimerInv
  <1>11. CASE current # Null
    <2>1. PICK k \in 1 .. created : k = current
      BY <1>11 DEF TimerInv, TypeOK
    <2>2. /\ k \in Timers /\ due[k] \in Nat /\ due[k] # Unset
          /\ removedAt' = [removedAt EXCEPT ![k] = now] /\ removedAt'[k] = now
          /\ now \in Nat /\ now # Unset
      BY <1>11, <2>1, CreatedDue, TimerAssumption
         DEF RemoveCurrent, Removed, TimerInv, TypeOK
    <2>3. Read'
      <3>1. ASSUME NEW f \in {"task", "load"}
            PROVE  msg[f] \in Timers => Reading(msg[f])'
        BY <1>1, <2>1, <2>2 DEF TimerInv, TypeOK, Read, Reading
      <3> QED
        BY <1>1, <3>1 DEF TimerInv, Read, NoMsg
    <2>4. CASE tpc \in Busy
      <3>1. Untouched(k) /\ Pending(k)
        BY <1>11, <2>1, <2>4 DEF TimerInv, AtHand, Pending, Busy
      <3>2. Service!Remove(k)
        BY <1>1, <1>4, <1>7, <2>1, <2>2, <3>1, RemovedIs
      <3> QED
        BY <1>4, <1>5, <1>6, <1>8, <1>9, <2>2, <2>3, <3>2 DEF TimerInv
    <2>5. CASE tpc \notin Busy
      <3>1. sends[k] > 0
        BY <1>11, <2>1, <2>5 DEF TimerInv, AtHand
      <3>2. Phase(k) = "fired" /\ Phase(k)' = "fired"
        BY <1>1, <1>4, <2>2, <3>1, PhaseIs, PhaseWillBe DEF TimerInv
      <3>3. \A i \in Timers \ {k} : Phase(i)' = Phase(i)
        BY <1>1, <1>4, <1>7, <2>1, <2>2, SamePhase DEF TimerInv, TypeOK
      <3>4. UNCHANGED Service!tvars
        BY <1>1, <3>2, <3>3 DEF Service!tvars
      <3> QED
        BY <1>4, <1>5, <1>6, <1>8, <1>9, <2>3, <3>4 DEF TimerInv
    <2> QED
      BY <2>4, <2>5
  <1> QED
    BY <1>10, <1>11

LEMMA RemovePendingKeeps ==
    ASSUME TimerInv, NEW c \in Callers, NEW id, RemovePending(c, id)
    PROVE  TimerInv' /\ \E i \in Timers : Service!Remove(i)
  <1>1. PICK k \in timers : timers' = timers \ {k} /\ removedAt' = [removedAt EXCEPT ![k] = now]
    BY DEF RemovePending, Removed, Earliest
  <1>2. UNCHANGED <<now, current, created, tid, due, cpc, held, tpc, wakeAt, msg, sends>>
    BY DEF RemovePending, callerVars, threadVars
  <1>3. k \in 1 .. created /\ k \in Timers /\ Untouched(k) /\ k # current
    BY TimerAssumption DEF TimerInv, TypeOK, Queued, Timers
  <1>4. TypeOK'
    <2>1. removedAt' \in [Timers -> 0 .. MaxTime \cup {Unset}] /\ timers' \subseteq 1 .. created
      BY <1>1 DEF TimerInv, TypeOK
    <2>2. removes' \in 0 .. MaxRemoves /\ UNCHANGED <<mTimers, timer_id, known>>
      BY TimerAssumption DEF RemovePending, callerVars, TimerInv, TypeOK
    <2> QED
      BY <1>2, <2>1, <2>2 DEF TimerInv, TypeOK
  <1>5. \A i \in Timers : i # k =>
            Settled(i) /\ (Untouched(i)' <=> Untouched(i)) /\ removedAt'[i] = removedAt[i]
    BY <1>1, <1>2 DEF TimerInv, TypeOK, Settled, Pending, Untouched
  <1>6. Constructing' = Constructing
    BY <1>2 DEF Constructing
  <1>7. Counted' /\ Born'
    <2>1. \A i \in Timers : i > created => i # k
      BY <1>3, TimerAssumption DEF TimerInv, TypeOK, Timers
    <2> QED
      BY <1>2, <1>5, <1>6, <2>1, SameCounted DEF TimerInv, Born
  <1>8. Inserting' /\ Queued'
    <2>1. \A i \in timers' : i \in timers /\ i # k /\ i \in Timers
      BY <1>1, TimerAssumption DEF TimerInv, TypeOK, Timers
    <2> QED
      BY <1>1, <1>2, <1>5, <2>1 DEF TimerInv, Inserting, Queued
  <1>9. AtHand'
    <2>1. current # Null => current \in Timers /\ current # k
      BY <1>3, TimerAssumption DEF TimerInv, TypeOK, Timers
    <2> QED
      BY <1>2, <1>5, <2>1 DEF TimerInv, AtHand, Busy
  <1>10. Read'
    <2>1. \A i \in Timers : Reading(i) => Reading(i)'
      BY <1>1, <1>2, <1>5 DEF Reading
    <2> QED
      BY <1>2, <2>1, ReadKept DEF TimerInv, Read
  <1>11. Service!Remove(k)
    BY <1>1, <1>2, <1>3, <1>4, <1>5, RemovedIs DEF Pending
  <1> QED
    BY <1>3, <1>4, <1>7, <1>8, <1>9, <1>10, <1>11 DEF TimerInv
------------------------------------------------------------------------------
(* The steps of the timer thread, first those that only go on to another   *)
(* place.                                                                  *)
LEMMA ThreadGoesOn ==
    ASSUME TimerInv,
           UNCHANGED <<now, timers, current, mTimers, removes, callerVars, msg, history>>,
           tpc # "send", tpc \in Busy <=> tpc' \in Busy,
           tpc' \in {"loop", "waitTimers", "check", "arm", "sleep", "woken", "requeue", "send"},
           wakeAt' \in 0 .. Never,
           current # Null => /\ tpc' \in {"sleep", "woken"} => wakeAt' = due[current]
                             /\ tpc' = "send" => due[current] <= now
    PROVE  TimerInv' /\ UNCHANGED Service!tvars
  <1>1. /\ UNCHANGED <<now, timer_id, created, tid, due, timers, current, mTimers, cpc, held>>
        /\ UNCHANGED <<known, msg, removes, sends, removedAt>>
    BY DEF callerVars, history
  <1>2. TypeOK'
    BY <1>1 DEF TimerInv, TypeOK, Never
  <1>3. Counted' /\ Born' /\ Inserting' /\ Queued'
    BY <1>1 DEF TimerInv, Counted, Constructing, Born, Untouched, Inserting, Queued
  <1>4. AtHand'
    BY <1>1 DEF TimerInv, AtHand, Untouched, Busy
  <1>5. Read'
    <2>1. \A i \in Timers : Reading(i) => Reading(i)'
      BY <1>1 DEF Reading
    <2> QED
      BY <1>1, <2>1, ReadKept DEF TimerInv, Read
  <1>6. \A i \in Timers : Settled(i)
    BY <1>1 DEF Settled, Pending, Busy
  <1>7. UNCHANGED Service!tvars
    BY <1>1, <1>2, <1>6, Stutters DEF TimerInv
  <1> QED
    BY <1>2, <1>3, <1>4, <1>5, <1>7 DEF TimerInv

LEMMA GoingOnKeeps ==
    ASSUME TimerInv, WaitTimers \/ Check \/ Sleep \/ Spurious \/ WakeUp
    PROVE  TimerInv' /\ UNCHANGED Service!tvars
  <1>1. /\ current # Null => due[current] \in Nat /\ due[current] <= MaxTime
        /\ MaxTime \in Nat /\ now \in Nat /\ wakeAt \in 0 .. Never
        /\ TimeOut \in 0 .. Never /\ Never \in 0 .. Never
    BY CreatedDue, TimerAssumption DEF TimerInv, TypeOK, TimeOut, Never
  <1>2. UNCHANGED <<now, timers, current, mTimers, removes, callerVars, msg, history>>
    BY DEF WaitTimers, Check, Sleep, Spurious, WakeUp
  <1>3. CASE WaitTimers
    BY <1>1, <1>2, <1>3, ThreadGoesOn DEF WaitTimers, Busy
  <1>4. CASE Check
    <2>1. tpc = "check" /\ tpc' \in {"arm", "send"} /\ wakeAt' = wakeAt
      BY <1>4 DEF Check
    <2>2. current # Null /\ tpc' = "send" => due[current] <= now
      BY <1>1, <1>4 DEF Check, TimeOut
    <2> QED
      BY <1>1, <1>2, <2>1, <2>2, ThreadGoesOn DEF Busy
  <1>5. CASE Sleep
    BY <1>1, <1>2, <1>5, ThreadGoesOn DEF Sleep, TimeOut, Busy
  <1>6. CASE Spurious
    <2>1. /\ wakeAt' = wakeAt
          /\ \/ tpc = "sleep" /\ tpc' = "woken"
             \/ tpc = "waitTimers" /\ tpc' = "loop"
      BY <1>6 DEF Spurious
    <2>2. current # Null /\ tpc = "sleep" => wakeAt = due[current]
      BY DEF TimerInv, AtHand
    <2> QED
      BY <1>1, <1>2, <2>1, <2>2, ThreadGoesOn DEF Busy
  <1>7. CASE WakeUp
    <2>1. /\ wakeAt' = Never /\ tpc \in {"sleep", "woken"} /\ tpc' \in {"send", "requeue"}
          /\ tpc' = "send" => now >= wakeAt
      BY <1>7 DEF WakeUp
    <2>2. current # Null => wakeAt = due[current]
      BY <2>1 DEF TimerInv, AtHand
    <2> QED
      BY <1>1, <1>2, <2>1, <2>2, ThreadGoesOn DEF Busy
  <1> QED
    BY <1>3, <1>4, <1>5, <1>6, <1>7

LEMMA PopKeeps ==
    ASSUME TimerInv, Pop
    PROVE  TimerInv' /\ UNCHANGED Service!tvars
  <1>1. PICK k \in timers : current' = k /\ timers' = timers \ {k}
    BY DEF Pop, Earliest
  <1>2. /\ tpc = "loop" /\ tpc' = "check"
        /\ UNCHANGED <<now, timer_id, created, tid, due, mTimers, cpc, held, known>>
        /\ UNCHANGED <<wakeAt, msg, removes, sends, removedAt>>
    BY DEF Pop, callerVars, history
  <1>3. k \in 1 .. created /\ Untouched(k) /\ k # current
    BY DEF TimerInv, TypeOK, Queued
  <1>4. TypeOK'
    BY <1>1, <1>2, <1>3 DEF TimerInv, TypeOK, Never
  <1>5. Counted' /\ Born'
    BY <1>2 DEF TimerInv, Counted, Constructing, Born, Untouched
  <1>6. Inserting' /\ Queued' /\ AtHand'
    BY <1>1, <1>2, <1>3 DEF TimerInv, Inserting, Queued, AtHand, Untouched, Busy
  <1>7. Read'
    BY <1>2, TimerAssumption DEF TimerInv, Read, NoMsg
  <1>8. \A i \in Timers : Settled(i)
    <2>1. ASSUME NEW i \in Timers, i = current PROVE ~Untouched(i)
      BY <1>2, <2>1, TimerAssumption DEF TimerInv, TypeOK, AtHand, Busy, Untouched
    <2> QED
      BY <1>1, <1>2, <2>1 DEF Settled, Pending
  <1>9. UNCHANGED Service!tvars
    BY <1>2, <1>4, <1>8, Stutters DEF TimerInv
  <1> QED
    BY <1>4, <1>5, <1>6, <1>7, <1>9 DEF TimerInv

LEMMA RequeueKeeps ==
    ASSUME TimerInv, Requeue
    PROVE  /\ TimerInv'
           /\ UNCHANGED Service!tvars \/ \E i \in Timers : Service!Lose(i)
  <1>1. /\ tpc = "requeue" /\ tpc' = "loop" /\ current' = Null
        /\ UNCHANGED <<now, timer_id, created, tid, due, mTimers, cpc, held, known>>
        /\ UNCHANGED <<wakeAt, msg, removes, sends, removedAt>>
    BY DEF Requeue, callerVars, history
  <1>2. \/ timers' = timers
        \/ current # Null /\ timers' = timers \cup {current}
    BY DEF Requeue, Insert
  <1>3. timers \subseteq Timers /\ (current # Null => current \in Timers)
    BY TimerAssumption DEF TimerInv, TypeOK, Timers
  <1>4. TypeOK'
    BY <1>1, <1>2 DEF TimerInv, TypeOK, Never
  <1>5. Counted' /\ Born' /\ AtHand'
    BY <1>1 DEF TimerInv, Counted, Constructing, Born, Untouched, AtHand
  <1>6. Inserting'
    BY <1>1, <1>2, TimerAssumption DEF TimerInv, Inserting, Untouched
  <1>7. Queued'
    <2>1. \A i \in timers' : Untouched(i) /\ i \in Timers
      BY <1>1, <1>2, <1>3, TimerAssumption
         DEF TimerInv, TypeOK, Timers, Queued, AtHand, Busy
    <2> QED
      BY <1>1, <2>1, TimerAssumption DEF Queued, Untouched
  <1>8. Read'
    BY <1>1, TimerAssumption DEF TimerInv, Read, NoMsg
  <1>9. \A i \in Timers : i # current => Settled(i)
    BY <1>1, <1>2, TimerAssumption DEF Settled, Pending
  <1>10. CASE current = Null \/ current \in timers'
    <2>1. \A i \in Timers : Settled(i)
      BY <1>1, <1>9, <1>10, TimerAssumption DEF Settled, Pending
    <2>2. UNCHANGED Service!tvars
      BY <1>1, <1>4, <2>1, Stutters DEF TimerInv
    <2> QED
      BY <1>4, <1>5, <1>6, <1>7, <1>8, <2>2 DEF TimerInv
  <1>11. CASE current # Null /\ current \notin timers'
    <2>1. PICK k \in 1 .. created : k = current
      BY <1>11 DEF TimerInv, TypeOK
    <2>2. k \in Timers /\ Untouched(k) /\ Untouched(k)' /\ due[k] # Unset
      BY <1>1, <1>11, <2>1, CreatedDue, TimerAssumption DEF TimerInv, AtHand, Busy, Untouched
    <2>3. \E j \in timers : due[j] = due[k] /\ j # k
      BY <1>11, <2>1 DEF Requeue, Insert, TimerInv, Queued
    <2>4. \E j \in Timers \ {k} : due[j] = due[k]
      BY <2>3, TimerAssumption DEF TimerInv, TypeOK, Timers
    <2>5. \A i \in Timers \ {k} : Phase(i)' = Phase(i)
      BY <1>1, <1>4, <1>9, <2>1, SamePhase DEF TimerInv
    <2>6. Pending(k) /\ ~Pending(k)'
      BY <1>1, <1>11, <2>1, <2>2, TimerAssumption DEF Pending, TimerInv, Inserting
    <2>7. Phase(k) = "armed" /\ Phase(k)' = "lost"
      BY <1>1, <1>4, <2>2, <2>6, PhaseIs, PhaseWillBe DEF TimerInv
    <2>8. Service!Lose(k)
      BY <1>1, <2>2, <2>4, <2>5, <2>7 DEF Service!Lose, Service!Move
    <2> QED
      BY <1>4, <1>5, <1>6, <1>7, <1>8, <2>2, <2>8 DEF TimerInv
  <1> QED
    BY <1>10, <1>11

LEMMA ReadFieldKeeps ==
    ASSUME TimerInv, NEW f \in {"task", "load"}, ReadField(f)
    PROVE  TimerInv' /\ UNCHANGED Service!tvars
  <1>1. /\ tpc = "send" /\ msg' = [msg EXCEPT ![f] = current]
        /\ UNCHANGED <<now, timer_id, created, tid, due, timers, current, mTimers, cpc, held>>
        /\ UNCHANGED <<known, tpc, wakeAt, removes, sends, removedAt>>
    BY DEF ReadField, callerVars, history
  <1>2. TypeOK'
    <2>1. current \in Timers \cup {Null}
      BY TimerAssumption DEF TimerInv, TypeOK, Timers
    <2>2. msg' \in [{"task", "load"} -> Timers \cup {Null, Unread}]
      BY <1>1, <2>1 DEF TimerInv, TypeOK
    <2> QED
      BY <1>1, <2>2 DEF TimerInv, TypeOK, Never, Timers
  <1>3. Counted' /\ Born' /\ Inserting' /\ Queued' /\ AtHand'
    BY <1>1 DEF TimerInv, Counted, Constructing, Born, Untouched, Inserting, Queued, AtHand,
       Busy
  <1>4. Read'
    <2>1. \A i \in Timers : Reading(i) => Reading(i)'
      BY <1>1 DEF Reading
    <2>2. current \in Timers => Reading(current)
      BY <1>1, TimerAssumption
         DEF TimerInv, TypeOK, AtHand, Untouched, Busy, Queued, Inserting, Reading
    <2>3. msg \in [{"task", "load"} -> Timers \cup {Null, Unread}]
      BY DEF TimerInv, TypeOK
    <2> QED
      BY <1>1, <2>1, <2>2, <2>3 DEF TimerInv, Read
  <1>5. \A i \in Timers : Settled(i)
    BY <1>1 DEF Settled, Pending
  <1>6. UNCHANGED Service!tvars
    BY <1>1, <1>2, <1>5, Stutters DEF TimerInv
  <1> QED
    BY <1>2, <1>3, <1>4, <1>6 DEF TimerInv

LEMMA SendMsgKeeps ==
    ASSUME TimerInv, SendMsg
    PROVE  /\ TimerInv'
           /\ UNCHANGED Service!tvars \/ \E i \in Timers : Service!Fire(i)
  <1>1. /\ tpc = "send" /\ tpc' = "loop" /\ msg' = NoMsg
        /\ UNCHANGED <<now, timer_id, created, tid, due, timers, current, mTimers, cpc, held>>
        /\ UNCHANGED <<known, wakeAt, removes, removedAt>>
    BY DEF SendMsg, callerVars
  <1>2. /\ msg.task \in Timers \cup {Null} /\ msg.load \in Timers \cup {Null}
        /\ msg \in [{"task", "load"} -> Timers \cup {Null, Unread}]
    BY DEF SendMsg, TimerInv, TypeOK
  <1>3. NoMsg \in [{"task", "load"} -> Timers \cup {Null, Unread}]
    BY DEF NoMsg
  <1>4. Read'
    BY <1>1, TimerAssumption DEF Read, NoMsg
  <1>5. Counted'
    BY <1>1 DEF TimerInv, Counted, Constructing
  <1>6. CASE msg.task = Null \/ msg.load = Null
    <2>1. sends' = sends
      BY <1>6 DEF SendMsg
    <2>2. current = Null
      BY <1>2, <1>6, TimerAssumption DEF TimerInv, TypeOK, Timers, Read
    <2>3. TypeOK'
      BY <1>1, <1>3, <2>1 DEF TimerInv, TypeOK, Never
    <2>4. Born' /\ Inserting' /\ Queued' /\ AtHand'
      BY <1>1, <2>1, <2>2 DEF TimerInv, Born, Untouched, Inserting, Queued, AtHand
    <2>5. \A i \in Timers : Settled(i)
      BY <1>1, <2>2, TimerAssumption DEF Settled, Pending
    <2>6. UNCHANGED Service!tvars
      BY <1>1, <2>1, <2>3, <2>5, Stutters DEF TimerInv
    <2> QED
      BY <1>4, <1>5, <2>3, <2>4, <2>6 DEF TimerInv
  <1>7. CASE msg.task # Null /\ msg.load # Null
    <2>1. PICK k \in Timers : k = msg.load
      BY <1>2, <1>7
    <2>2. Reading(k) /\ sends' = [sends EXCEPT ![k] = 1] /\ sends \in [Timers -> Nat]
      <3>1. Reading(k)
        BY <2>1 DEF TimerInv, Read
      <3>2. sends' = [sends EXCEPT ![k] = sends[k] + 1] /\ sends[k] = 0
        BY <1>7, <2>1, <3>1 DEF SendMsg, Reading
      <3> QED
        BY <3>1, <3>2 DEF TimerInv, TypeOK
    <2>3. k \in 1 .. created /\ due[k] \in Nat /\ due[k] # Unset
      BY <2>1, <2>2, CreatedDue, TimerAssumption DEF Reading, TimerInv, Timers
    <2>4. current # Null => current = k
      BY <2>1, TimerAssumption DEF TimerInv, Read
    <2>5. TypeOK'
      BY <1>1, <1>3, <2>2 DEF TimerInv, TypeOK, Never
    <2>6. \A i \in Timers \ {k} : sends'[i] = sends[i] /\ (Untouched(i)' <=> Untouched(i))
      BY <1>1, <2>2 DEF Untouched
    <2>7. Born'
      <3>1. \A i \in Timers : i > created => i # k
        BY <2>3 DEF TimerInv, TypeOK, Timers
      <3> QED
        BY <1>1, <2>6, <3>1 DEF TimerInv, Born
    <2>8. Inserting' /\ Queued'
      <3>1. \A i \in timers : i \in Timers /\ i # k
        <4>1. timers \subseteq Timers
          BY TimerAssumption DEF TimerInv, TypeOK, Timers
        <4> QED
          BY <2>2, <4>1 DEF Reading
      <3> QED
        BY <1>1, <2>2, <2>6, <3>1 DEF Reading, TimerInv, Inserting, Queued
    <2>9. AtHand'
      BY <1>1, <2>2, <2>4 DEF AtHand, Busy
    <2>10. \A i \in Timers \ {k} : Phase(i)' = Phase(i)
      <3>1. \A i \in Timers \ {k} : Settled(i)
        BY <1>1, <2>4, TimerAssumption DEF Settled, Pending
      <3> QED
        BY <1>1, <2>5, <2>6, <3>1, SamePhase DEF TimerInv
    <2>11. Phase(k) \in {"armed", "withdrawn"}
      <3>1. CASE current = k
        <4>1. Untouched(k) /\ Pending(k)
          BY <1>1, <3>1, TimerAssumption DEF TimerInv, AtHand, Busy, Pending
        <4> QED
          BY <2>3, <4>1, PhaseIs DEF TimerInv
      <3>2. CASE current # k
        <4>1. /\ sends[k] = 0 /\ removedAt[k] # Unset /\ removedAt[k] >= due[k]
              /\ removedAt[k] \in Nat
          BY <2>2, <3>2 DEF Reading, TimerInv, TypeOK
        <4> QED
          BY <2>3, <4>1, PhaseIs DEF TimerInv
      <3> QED
        BY <3>1, <3>2
    <2>12. Phase(k)' = "fired"
      BY <1>1, <2>2, <2>3, <2>5, PhaseWillBe
    <2>13. Service!Fire(k)
      BY <1>1, <2>2, <2>10, <2>11, <2>12 DEF Service!Fire, Service!Move, Reading
    <2> QED
      BY <1>4, <1>5, <2>5, <2>7, <2>8, <2>9, <2>13 DEF TimerInv
  <1> QED
    BY <1>6, <1>7
------------------------------------------------------------------------------
LEMMA NextKeeps ==
    TimerInv /\ [Next]_vars => TimerInv' /\ [Service!TimerNext]_(Service!tvars)
  <1> SUFFICES ASSUME TimerInv, [Next]_vars
               PROVE  TimerInv' /\ [Service!TimerNext]_(Service!tvars)
    OBVIOUS
  <1>1. CASE Tick
    BY <1>1, TickKeeps DEF Service!TimerNext
  <1>2. ASSUME NEW c \in Callers, Setup(c)
        PROVE  TimerInv' /\ [Service!TimerNext]_(Service!tvars)
    <2>1. ASSUME NEW d \in Durations, SetupConstruct(c, d)
          PROVE  TimerInv' /\ Service!TimerNext
      BY <2>1, ConstructKeeps DEF Service!TimerNext
    <2>2. CASE SetupInsert(c)
      BY <2>2, InsertKeeps DEF Service!TimerNext
    <2> QED
      BY <1>2, <2>1, <2>2, LoadKeeps, WakesKeep DEF Setup, SetupStep
  <1>3. ASSUME NEW c \in Callers, NEW id, RemoveCurrent(c, id) \/ RemovePending(c, id)
        PROVE  TimerInv' /\ [Service!TimerNext]_(Service!tvars)
    BY <1>3, RemoveCurrentKeeps, RemovePendingKeeps DEF Service!TimerNext
  <1>4. ASSUME NEW c \in Callers, RemoveWake(c)
        PROVE  TimerInv' /\ UNCHANGED Service!tvars
    BY <1>4, WakesKeep
  <1>5. CASE WaitTimers \/ Check \/ Sleep \/ Spurious \/ WakeUp \/ Pop
    BY <1>5, GoingOnKeeps, PopKeeps
  <1>6. CASE Requeue
    BY <1>6, RequeueKeeps DEF Service!TimerNext
  <1>7. CASE \E f \in {"task", "load"} : ReadField(f)
    BY <1>7, ReadFieldKeeps
  <1>8. CASE SendMsg
    BY <1>8, SendMsgKeeps DEF Service!TimerNext
  <1>9. CASE UNCHANGED vars
    <2>1. /\ UNCHANGED <<now, timer_id, created, tid, due, timers, current, mTimers, cpc>>
          /\ UNCHANGED <<held, known, tpc, wakeAt, msg, removes, sends, removedAt>>
      BY <1>9 DEF vars, callerVars, threadVars, history
    <2>2. TypeOK' /\ Counted' /\ Born' /\ Inserting' /\ Queued' /\ AtHand'
      BY <2>1 DEF TimerInv, TypeOK, Never, Counted, Constructing, Born, Untouched, Inserting,
                  Queued, AtHand, Busy
    <2>3. Read'
      <3>1. \A i \in Timers : Reading(i) => Reading(i)'
        BY <2>1 DEF Reading
      <3> QED
        BY <2>1, <3>1, ReadKept DEF TimerInv, Read
    <2>4. \A i \in Timers : Settled(i)
      BY <2>1 DEF Settled, Pending
    <2>5. UNCHANGED Service!tvars
      BY <2>1, <2>2, <2>4, Stutters DEF TimerInv
    <2> QED
      BY <2>2, <2>3, <2>5 DEF TimerInv
  <1> QED
    BY <1>1, <1>2, <1>3, <1>4, <1>5, <1>6, <1>7, <1>8, <1>9 DEF Next, Thread, RemoveCall

(* The variables of callers and timer thread stay in their types.          *)
THEOREM TimerTyped == Spec => []TypeOK
  <1>1. TimerInv => TypeOK
    BY DEF TimerInv
  <1> QED
    BY <1>1, InitPhases, NextKeeps, PTL DEF Spec

(* timer_setup, timer_remove and timer_manager_task keep the contract of   *)
(* the timers however they interleave, for any number of tasks and timers: *)
(* a message at most once, none before the deadline, none after a removal  *)
(* that came in time, and no timer lost but to one of the same deadline.   *)
THEOREM TimersKeepContract == Spec => KeepsContract
  BY InitPhases, NextKeeps, PTL DEF Spec, KeepsContract, Service!TimerSpec
==============================================================================
