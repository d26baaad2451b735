-------------------------- MODULE NrfRegistry_proofs --------------------------
(***************************************************************************)
(* What NrfRegistry promises, for any number of NFs, subscribers, workers  *)
(* and profile objects.                                                    *)
(***************************************************************************)
EXTENDS NrfRegistry, TLAPS

(* Where a worker is while it serves an NF, and while it serves a          *)
(* subscriber.                                                             *)
ForNf == {"subscribe", "registered", "notifyRegistered",
          "deregistered", "notifyDeregistered", "remove",
          "update", "updateStatus", "unsubscribe", "disconnect", "rearm",
          "updated", "restore"}
ForSub == {"find", "notifyExisting"}

Profile == [nf : Nfs \cup {Gone.nf}, status : {"REGISTERED", "SUSPENDED"},
            is_updated : BOOLEAN, first_update : BOOLEAN,
            slots : SUBSET Slots, good : 0 .. 2, late : BOOLEAN]

Job == [pc : {"idle"} \cup ForNf \cup ForSub, who : {""} \cup Nfs \cup Subs,
        obj : Objs \cup {NoObj}, to : SUBSET (Subs \cup Objs)]

Tasks == [pc : {"idle", "suspend", "clear", "unsubscribe"},
          obj : Objs \cup {NoObj}, slot : Slots]

Typed ==
    /\ db \in [Nfs -> Objs \cup {NoObj}]
    /\ objs \in [Objs -> Profile]
    /\ worker \in [Workers -> Job]
    /\ task \in Tasks
    /\ subs \subseteq Subs
    /\ told \in [Subs -> SUBSET Nfs]
    /\ crossed \subseteq Subs \X Nfs

(* A worker refers to a profile of the NF it serves, or to the profiles its*)
(* subscriber is still to be told of.                                      *)
JobIs(j) ==
    /\ j.pc = "idle" => j.obj = NoObj
    /\ j.pc \in {"idle", "find"} => j.to = {}
    /\ j.pc \in ForNf => /\ j.who \in Nfs /\ j.obj \in Objs /\ objs[j.obj].nf = j.who
                         /\ j.to \subseteq Subs
    /\ j.pc \in ForSub => /\ j.who \in Subs /\ j.obj = NoObj /\ j.to \subseteq Objs
                          /\ \A o \in j.to : objs[o].nf \in Nfs

TaskIs(t) ==
    /\ t.pc = "idle" => t.obj = NoObj
    /\ t.pc # "idle" => t.obj \in Objs /\ objs[t.obj].nf \in Nfs
    /\ t.pc = "unsubscribe" => t.slot = "first"

Referring ==
    /\ \A n \in Nfs : db[n] # NoObj => objs[db[n]].nf = n
    /\ \A w \in Workers : JobIs(worker[w])
    /\ TaskIs(task)

(* Nothing is left of the others; and a heartbeat that has cleared         *)
(* first_update has connected the periodic slot for good.                  *)
Destroyed == \A o \in Objs : ~Alive(o) => objs[o] = Gone
OncePeriodic == \A o \in Objs : objs[o].first_update <=> "periodic" \notin objs[o].slots

TypeInv == Typed /\ Referring /\ Destroyed /\ OncePeriodic
------------------------------------------------------------------------------
LEMMA GoneIs ==
    /\ Gone \in Profile /\ Gone.nf = "" /\ Gone.status = "REGISTERED"
    /\ Gone.is_updated = FALSE /\ Gone.first_update = TRUE /\ Gone.slots = {}
    /\ Gone.good = 0 /\ Gone.late = FALSE
    /\ "" \notin Nfs /\ NoObj \notin Objs
  <1>1. NoObj \notin Objs
    BY DEF Objs, NoObj
  <1>2. {} \subseteq Slots /\ 0 \in 0 .. 2
    OBVIOUS
  <1> QED
    BY <1>1, <1>2, RegistryAssumption DEF Gone, NewProfile, Profile

LEMMA GoneApart ==
    /\ Gone.nf \notin Nfs /\ ~Gone.is_updated /\ Gone.slots = {} /\ ~Gone.late
    /\ NoObj \notin Objs
  BY GoneIs

LEMMA AliveIsProfile ==
    ASSUME TypeInv, NEW o \in Objs, Alive(o)
    PROVE  objs[o].nf \in Nfs /\ objs[o] # Gone
  <1>1. CASE \E n \in Nfs : db[n] = o
    BY <1>1, GoneIs DEF TypeInv, Referring
  <1>2. ASSUME NEW w \in Workers, worker[w].obj = o
        PROVE  objs[o].nf \in Nfs
    <2>1. JobIs(worker[w]) /\ worker[w].pc \in {"idle"} \cup ForNf \cup ForSub /\ o # NoObj
      BY GoneIs DEF TypeInv, Typed, Referring, Job
    <2> QED
      BY <1>2, <2>1 DEF JobIs, At
  <1>3. ASSUME NEW w \in Workers, At(w, "notifyExisting"), o \in worker[w].to
        PROVE  objs[o].nf \in Nfs
    BY <1>3 DEF TypeInv, Referring, JobIs, At, ForSub
  <1>4. CASE task.obj = o
    BY <1>4, GoneIs DEF TypeInv, Referring, TaskIs
  <1> QED
    BY <1>1, <1>2, <1>3, <1>4, GoneIs DEF Alive

LEMMA TypesFollow == TypeInv => TypeOK
  <1> SUFFICES ASSUME TypeInv PROVE TypeOK
    OBVIOUS
  <1>1. \A o \in Objs : Alive(o) <=> objs[o] # Gone
    BY AliveIsProfile DEF TypeInv, Destroyed
  <1>2. ASSUME NEW w \in Workers, worker[w].obj # NoObj
        PROVE  objs[worker[w].obj].nf = worker[w].who
    <2>1. JobIs(worker[w]) /\ worker[w].pc \in {"idle"} \cup ForNf \cup ForSub
      BY DEF TypeInv, Typed, Referring, Job
    <2> QED
      BY <1>2, <2>1 DEF JobIs, At
  <1> QED
    BY <1>1, <1>2 DEF TypeInv, Typed, Referring, OncePeriodic, TypeOK, Profile, Tasks

LEMMA InitTypes == Init => TypeInv
  <1> SUFFICES ASSUME Init PROVE TypeInv
    OBVIOUS
  <1>1. Typed
    BY GoneIs DEF Init, Typed, Job, Tasks, Resting, Waiting, Slots
  <1>2. Referring
    BY DEF Init, Referring, JobIs, TaskIs, At, Resting, Waiting, ForNf, ForSub
  <1> QED
    BY <1>1, <1>2, GoneIs DEF Init, TypeInv, Destroyed, OncePeriodic
------------------------------------------------------------------------------
(* What is referred to after a step is as the step left it.                *)
LEMMA AfterRelease ==
    ASSUME NEW os, Release(os)
    PROVE  /\ os \in [Objs -> Profile] => objs' \in [Objs -> Profile]
           /\ Destroyed'
           /\ \A o \in Objs : objs'[o] = os[o] \/ objs'[o] = Gone
           /\ \A n \in Nfs : db'[n] \in Objs => objs'[db'[n]] = os[db'[n]]
           /\ \A w \in Workers : worker'[w].obj \in Objs =>
                 objs'[worker'[w].obj] = os[worker'[w].obj]
           /\ \A w \in Workers : worker'[w].pc = "notifyExisting" =>
                 \A o \in worker'[w].to \cap Objs : objs'[o] = os[o]
           /\ task'.obj \in Objs => objs'[task'.obj] = os[task'.obj]
  <1>1. /\ os \in [Objs -> Profile] => objs' \in [Objs -> Profile]
        /\ \A o \in Objs : objs'[o] = IF Alive(o)' THEN os[o] ELSE Gone
    BY GoneIs DEF Release
  <1>2. Destroyed'
    BY <1>1 DEF Destroyed
  <1>3. \A n \in Nfs : db'[n] \in Objs => objs'[db'[n]] = os[db'[n]]
    BY <1>1 DEF Alive
  <1>4. \A w \in Workers : worker'[w].obj \in Objs =>
            objs'[worker'[w].obj] = os[worker'[w].obj]
    BY <1>1 DEF Alive
  <1>5. \A w \in Workers : worker'[w].pc = "notifyExisting" =>
            \A o \in worker'[w].to \cap Objs : objs'[o] = os[o]
    BY <1>1 DEF Alive, At
  <1>6. task'.obj \in Objs => objs'[task'.obj] = os[task'.obj]
    BY <1>1 DEF Alive
  <1> QED
    BY <1>1, <1>2, <1>3, <1>4, <1>5, <1>6

(* A step that drops no reference destroys nothing.                        *)
SameObjects ==
    \A w \in Workers : /\ worker[w].obj # NoObj => worker'[w].obj = worker[w].obj
                       /\ At(w, "notifyExisting") => worker'[w] = worker[w]

NothingDropped ==
    /\ UNCHANGED db
    /\ SameObjects
    /\ task.obj # NoObj => task'.obj = task.obj

LEMMA StillThere ==
    ASSUME TypeInv, NothingDropped,
           \A o \in Objs : objs'[o] = objs[o] \/ Alive(o)
    PROVE  Destroyed'
  <1> SUFFICES ASSUME NEW o \in Objs, Alive(o) PROVE Alive(o)'
    BY DEF TypeInv, Destroyed
  <1> QED
    BY GoneIs DEF NothingDropped, SameObjects, Alive, At

LEMMA SteadyTypes ==
    ASSUME TypeInv, Typed', NothingDropped, OncePeriodic',
           \A o \in Objs :
              objs'[o] = objs[o] \/ (Alive(o) /\ objs'[o].nf = objs[o].nf),
           \A w \in Workers : JobIs(worker'[w]),
           TaskIs(task')
    PROVE  TypeInv'
  <1>1. Destroyed'
    BY StillThere
  <1>2. \A o \in Objs : objs'[o].nf = objs[o].nf
    OBVIOUS
  <1>3. Referring'
    BY <1>2 DEF Referring, NothingDropped, JobIs, TaskIs, TypeInv, Typed
  <1> QED
    BY <1>1, <1>3 DEF TypeInv

(* What a step makes of the profiles: none changes its NF.                 *)
Renews(os) ==
    /\ os \in [Objs -> Profile]
    /\ \A o \in Objs : /\ os[o].nf = objs[o].nf
                       /\ os[o].first_update <=> "periodic" \notin os[o].slots

LEMMA ReleaseTypes ==
    ASSUME TypeInv, Typed',
           NEW os, Renews(os), Release(os),
           \A n \in Nfs : db'[n] # NoObj => objs[db'[n]].nf = n,
           \A w \in Workers : JobIs(worker'[w]),
           TaskIs(task')
    PROVE  TypeInv'
  <1>0. /\ os \in [Objs -> Profile]
        /\ \A o \in Objs : /\ os[o].nf = objs[o].nf
                           /\ os[o].first_update <=> "periodic" \notin os[o].slots
    BY DEF Renews
  <1>1. OncePeriodic'
    <2>1. \A o \in Objs : objs'[o] = os[o] \/ objs'[o] = Gone
      BY AfterRelease
    <2>2. Gone.first_update <=> "periodic" \notin Gone.slots
      BY GoneIs
    <2>3. ASSUME NEW o \in Objs
          PROVE  objs'[o].first_update <=> "periodic" \notin objs'[o].slots
      <3>1. CASE objs'[o] = os[o]
        BY <1>0, <3>1
      <3>2. CASE objs'[o] = Gone
        BY <2>2, <3>2
      <3> QED
        BY <2>1, <3>1, <3>2
    <2> QED
      BY <2>3 DEF OncePeriodic
  <1>2. \A n \in Nfs : db'[n] # NoObj => objs'[db'[n]].nf = n
    BY <1>0, AfterRelease DEF Typed
  <1>3. ASSUME NEW w \in Workers
        PROVE  JobIs(worker[w])'
    <2>1. worker'[w].pc \in ForSub => worker'[w].pc \in {"find", "notifyExisting"}
      BY DEF ForSub
    <2>2. worker'[w].obj \in Objs => objs'[worker'[w].obj].nf = objs[worker'[w].obj].nf
      BY <1>0, AfterRelease
    <2>3. worker'[w].pc = "notifyExisting" =>
             \A o \in worker'[w].to \cap Objs : objs'[o].nf = objs[o].nf
      BY <1>0, AfterRelease
    <2> QED
      BY <2>1, <2>2, <2>3 DEF JobIs
  <1>4. TaskIs(task)'
    BY <1>0, AfterRelease DEF TaskIs
  <1> QED
    BY <1>1, <1>2, <1>3, <1>4, <1>0, AfterRelease DEF TypeInv, Referring
------------------------------------------------------------------------------
(* How the worker of a step goes on.  None of its steps but the last drops *)
(* the profile it found.                                                   *)
Jobs == worker \in [Workers -> Job] /\ \A w \in Workers : JobIs(worker[w])
JobsAfter == worker' \in [Workers -> Job] /\ \A w \in Workers : JobIs(worker'[w])

LEMMA WentOn ==
    ASSUME Jobs, NEW w \in Workers, worker[w].pc \in ForNf,
           NEW pc \in ForNf, Goto(w, pc)
    PROVE  /\ JobsAfter /\ SameObjects
           /\ worker' = [worker EXCEPT ![w] = [worker[w] EXCEPT !.pc = pc]]
           /\ worker'[w].pc = pc /\ worker'[w].obj = worker[w].obj
           /\ worker'[w].who = worker[w].who /\ worker'[w].to = worker[w].to
           /\ \A v \in Workers \ {w} : worker'[v] = worker[v]
  <1>1. worker' = [worker EXCEPT ![w] = [worker[w] EXCEPT !.pc = pc]]
    BY DEF Goto, Jobs
  <1>2. /\ worker' \in [Workers -> Job]
        /\ worker'[w].pc = pc /\ worker'[w].obj = worker[w].obj
        /\ worker'[w].who = worker[w].who /\ worker'[w].to = worker[w].to
        /\ \A v \in Workers \ {w} : worker'[v] = worker[v]
    BY <1>1 DEF Jobs, Job
  <1>3. JobIs(worker'[w])
    BY <1>2 DEF Jobs, JobIs, ForNf, ForSub
  <1>4. SameObjects
    BY <1>2 DEF SameObjects, At, ForNf
  <1> QED
    BY <1>1, <1>2, <1>3, <1>4 DEF Jobs, JobsAfter

LEMMA WentOnTo ==
    ASSUME Jobs, NEW w \in Workers, worker[w].pc \in ForNf,
           NEW pc \in ForNf, NEW ss \in SUBSET Subs,
           worker' = [worker EXCEPT ![w].pc = pc, ![w].to = ss]
    PROVE  /\ JobsAfter /\ SameObjects
           /\ worker'[w].pc = pc /\ worker'[w].obj = worker[w].obj
           /\ worker'[w].who = worker[w].who /\ worker'[w].to = ss
           /\ \A v \in Workers \ {w} : worker'[v] = worker[v]
  <1>1. worker' = [worker EXCEPT ![w] = [worker[w] EXCEPT !.pc = pc, !.to = ss]]
    BY DEF Jobs
  <1>2. /\ worker' \in [Workers -> Job]
        /\ worker'[w].pc = pc /\ worker'[w].obj = worker[w].obj
        /\ worker'[w].who = worker[w].who /\ worker'[w].to = ss
        /\ \A v \in Workers \ {w} : worker'[v] = worker[v]
    <2>1. PICK j : j = [worker[w] EXCEPT !.pc = pc, !.to = ss]
      OBVIOUS
    <2>2. worker[w] \in Job
      BY DEF Jobs
    <2>3. pc \in {"idle"} \cup ForNf \cup ForSub /\ ss \in SUBSET (Subs \cup Objs)
      OBVIOUS
    <2>4. /\ j \in Job /\ j.pc = pc /\ j.obj = worker[w].obj
          /\ j.who = worker[w].who /\ j.to = ss
      BY <2>1, <2>2, <2>3 DEF Job
    <2> QED
      BY <1>1, <2>1, <2>4 DEF Jobs
  <1>3. JobIs(worker'[w])
    BY <1>2 DEF Jobs, JobIs, ForNf, ForSub
  <1>4. SameObjects
    BY <1>2 DEF SameObjects, At, ForNf
  <1> QED
    BY <1>2, <1>3, <1>4 DEF Jobs, JobsAfter

LEMMA Finished ==
    ASSUME Jobs, NEW w \in Workers, Finish(w)
    PROVE  /\ JobsAfter
           /\ worker'[w] = Resting /\ worker'[w].pc = "idle" /\ worker'[w].who = ""
           /\ worker'[w].obj = NoObj /\ worker'[w].to = {}
           /\ \A v \in Workers \ {w} : worker'[v] = worker[v]
  <1>1. Resting \in Job /\ JobIs(Resting)
    BY DEF Resting, Job, JobIs, ForNf, ForSub
  <1>2. worker' = [worker EXCEPT ![w] = Resting]
    BY DEF Finish
  <1> QED
    BY <1>1, <1>2 DEF Jobs, JobsAfter, Resting

LEMMA Began ==
    ASSUME Jobs, NEW w \in Workers,
           NEW pc \in ForNf \cup ForSub, NEW who \in Nfs \cup Subs, NEW o \in Objs \cup {NoObj},
           Begin(w, pc, who, o),
           pc \in ForNf => who \in Nfs /\ o \in Objs /\ objs[o].nf = who,
           pc \in ForSub => who \in Subs /\ o = NoObj
    PROVE  /\ JobsAfter /\ SameObjects
           /\ worker[w].obj = NoObj /\ worker[w].pc = "idle"
           /\ worker'[w] = [pc |-> pc, who |-> who, obj |-> o, to |-> {}]
           /\ worker'[w].pc = pc /\ worker'[w].obj = o
           /\ worker'[w].who = who /\ worker'[w].to = {}
           /\ \A v \in Workers \ {w} : worker'[v] = worker[v]
  <1> DEFINE j == [pc |-> pc, who |-> who, obj |-> o, to |-> {}]
  <1>1. j \in Job /\ j.pc = pc /\ j.obj = o /\ j.who = who /\ j.to = {}
    BY DEF Job
  <1>2. worker' = [worker EXCEPT ![w] = j] /\ worker[w].pc = "idle"
    BY DEF Begin, At
  <1>3. worker[w].obj = NoObj
    BY <1>2 DEF Jobs, JobIs
  <1>4. JobIs(j)
    BY <1>1 DEF JobIs, ForNf, ForSub
  <1> HIDE DEF j
  <1>5. /\ worker' \in [Workers -> Job] /\ worker'[w] = j
        /\ \A v \in Workers \ {w} : worker'[v] = worker[v]
    BY <1>1, <1>2 DEF Jobs
  <1>6. SameObjects
    BY <1>2, <1>3, <1>5 DEF SameObjects, At
  <1> QED
    BY <1>1, <1>2, <1>3, <1>4, <1>5, <1>6 DEF Jobs, JobsAfter, j
------------------------------------------------------------------------------
LEMMA TypedState ==
    ASSUME TypeInv
    PROVE  /\ Jobs /\ TaskIs(task) /\ task \in Tasks /\ objs \in [Objs -> Profile]
           /\ subs \subseteq Subs /\ told \in [Subs -> SUBSET Nfs] /\ crossed \subseteq Subs \X Nfs
           /\ db \in [Nfs -> Objs \cup {NoObj}]
           /\ \A n \in Nfs : db[n] # NoObj => Alive(db[n]) /\ objs[db[n]].nf = n
           /\ \A o \in Objs : objs[o].first_update <=> "periodic" \notin objs[o].slots
           /\ \A w \in Workers : worker[w].pc \in ForNf =>
                 /\ worker[w].obj \in Objs /\ Alive(worker[w].obj)
                 /\ worker[w].who \in Nfs /\ worker[w].to \subseteq Subs
                 /\ objs[worker[w].obj].nf = worker[w].who
  <1>1. /\ Jobs /\ TaskIs(task) /\ task \in Tasks /\ objs \in [Objs -> Profile]
        /\ subs \subseteq Subs /\ told \in [Subs -> SUBSET Nfs] /\ crossed \subseteq Subs \X Nfs
        /\ db \in [Nfs -> Objs \cup {NoObj}]
        /\ \A n \in Nfs : db[n] # NoObj => Alive(db[n]) /\ objs[db[n]].nf = n
        /\ \A o \in Objs : objs[o].first_update <=> "periodic" \notin objs[o].slots
    BY DEF TypeInv, Typed, Referring, Jobs, Alive, OncePeriodic
  <1>2. ASSUME NEW w \in Workers, worker[w].pc \in ForNf
        PROVE  /\ worker[w].obj \in Objs /\ Alive(worker[w].obj)
               /\ worker[w].who \in Nfs /\ worker[w].to \subseteq Subs
               /\ objs[worker[w].obj].nf = worker[w].who
    BY <1>1, <1>2 DEF Jobs, JobIs, Alive
  <1> QED
    BY <1>1, <1>2

(* A worker changes at most the profile it has, and what the subscribers   *)
(* know.                                                                   *)
LEMMA WorkerTypes ==
    ASSUME TypeInv, JobsAfter, SameObjects, UNCHANGED <<db, task>>,
           NEW o \in Objs, Alive(o), NEW b \in Profile, b.nf = objs[o].nf,
           b.first_update <=> "periodic" \notin b.slots,
           objs' = [objs EXCEPT ![o] = b],
           subs' \subseteq Subs, told' \in [Subs -> SUBSET Nfs], crossed' \subseteq Subs \X Nfs
    PROVE  TypeInv'
  <1>1. objs' \in [Objs -> Profile] /\ OncePeriodic'
    BY TypedState DEF TypeInv, OncePeriodic
  <1>2. Typed'
    BY <1>1 DEF TypeInv, Typed, JobsAfter
  <1>3. \A q \in Objs : objs'[q] = objs[q] \/ (Alive(q) /\ objs'[q].nf = objs[q].nf)
    BY TypedState
  <1>4. NothingDropped /\ TaskIs(task')
    BY TypedState DEF NothingDropped
  <1> QED
    BY <1>1, <1>2, <1>3, <1>4, SteadyTypes DEF JobsAfter

LEMMA OtherTypes ==
    ASSUME TypeInv, JobsAfter, SameObjects, UNCHANGED <<db, task, objs>>,
           subs' \subseteq Subs, told' \in [Subs -> SUBSET Nfs], crossed' \subseteq Subs \X Nfs
    PROVE  TypeInv'
  <1>1. OncePeriodic' /\ Typed' /\ NothingDropped /\ TaskIs(task')
    BY TypedState DEF TypeInv, OncePeriodic, Typed, JobsAfter, NothingDropped
  <1> QED
    BY <1>1, SteadyTypes DEF JobsAfter

LEMMA RenewsNone ==
    ASSUME TypeInv
    PROVE  Renews(objs)
  BY TypedState DEF Renews

LEMMA ReleasingTypes ==
    ASSUME TypeInv, JobsAfter, task' \in Tasks, TaskIs(task'),
           NEW os, Renews(os), Release(os),
           db' \in [Nfs -> Objs \cup {NoObj}],
           \A n \in Nfs : db'[n] # NoObj => objs[db'[n]].nf = n,
           subs' \subseteq Subs, told' \in [Subs -> SUBSET Nfs], crossed' \subseteq Subs \X Nfs
    PROVE  TypeInv'
  <1>1. objs' \in [Objs -> Profile]
    BY AfterRelease DEF Renews
  <1>2. Typed'
    BY <1>1, TypedState DEF TypeInv, Typed, JobsAfter
  <1> QED
    BY <1>2, ReleaseTypes DEF JobsAfter
------------------------------------------------------------------------------
(* The steps of a worker that serves an NF.                                *)
LEMMA RegisterTypes ==
    ASSUME TypeInv, NEW w \in Workers, NEW n \in Nfs, Register(w, n)
    PROVE  TypeInv'
  <1>1. PICK o \in Objs : /\ ~Alive(o)
                         /\ Begin(w, "subscribe", n, o)
                         /\ db' = [db EXCEPT ![n] = o]
                         /\ UNCHANGED task
                         /\ Release([objs EXCEPT ![o] = NewProfile(n)])
    BY DEF Register
  <1> DEFINE os == [objs EXCEPT ![o] = NewProfile(n)]
  <1>2. /\ NewProfile(n) \in Profile /\ NewProfile(n).nf = n
        /\ NewProfile(n).first_update = TRUE /\ NewProfile(n).slots = {}
    BY DEF NewProfile, Profile
  <1>3. /\ os \in [Objs -> Profile] /\ os[o] = NewProfile(n)
        /\ \A q \in Objs \ {o} : os[q] = objs[q]
        /\ \A q \in Objs : os[q].first_update <=> "periodic" \notin os[q].slots
    BY <1>2, TypedState
  <1>4. Release(os) /\ Jobs /\ TaskIs(task) /\ UNCHANGED task
    BY <1>1, TypedState
  <1> HIDE DEF os
  <1>5. /\ worker[w].pc = "idle" /\ worker[w].obj = NoObj
        /\ worker' = [worker EXCEPT ![w] = [pc |-> "subscribe", who |-> n, obj |-> o, to |-> {}]]
    BY <1>1, <1>4 DEF Begin, At, Jobs, JobIs
  <1>6. [pc |-> "subscribe", who |-> n, obj |-> o, to |-> {}] \in Job
    BY DEF Job, ForNf
  <1>7. worker' \in [Workers -> Job] /\ \A v \in Workers \ {w} : worker'[v] = worker[v]
    BY <1>4, <1>5, <1>6 DEF Jobs
  <1>8. Typed'
    BY <1>1, <1>3, <1>4, <1>7, AfterRelease, TypedState DEF Typed, Register
  <1>9. OncePeriodic'
    BY <1>3, <1>4, AfterRelease, GoneIs DEF OncePeriodic
  <1>10. ASSUME NEW m \in Nfs, db'[m] # NoObj PROVE objs'[db'[m]].nf = m
    <2>1. objs'[db'[m]] = os[db'[m]] /\ db'[m] \in Objs
      BY <1>3, <1>4, <1>8, <1>10, AfterRelease DEF Typed
    <2>2. CASE m = n
      BY <1>1, <1>2, <1>3, <2>1, <2>2, TypedState
    <2>3. CASE m # n
      <3>1. db'[m] = db[m] /\ db[m] # NoObj /\ Alive(db[m])
        BY <1>1, <1>10, <2>3, TypedState
      <3> QED
        BY <1>1, <1>3, <2>1, <3>1, TypedState
    <2> QED
      BY <2>2, <2>3
  <1>11. ASSUME NEW v \in Workers PROVE JobIs(worker[v])'
    <2>1. CASE v = w
      <3>1. worker'[v] = [pc |-> "subscribe", who |-> n, obj |-> o, to |-> {}]
        BY <1>4, <1>5, <2>1 DEF Jobs
      <3>2. objs'[o] = os[o]
        BY <1>3, <1>4, <3>1, AfterRelease
      <3> QED
        BY <1>2, <1>3, <3>1, <3>2 DEF JobIs, ForNf, ForSub
    <2>2. CASE v # w
      <3>1. worker'[v] = worker[v] /\ JobIs(worker[v]) /\ worker[v] \in Job
        BY <1>4, <1>7, <2>2 DEF Jobs
      <3>2. worker[v].obj # o /\ (worker[v].pc = "notifyExisting" => o \notin worker[v].to)
        BY <1>1 DEF Alive, At
      <3>3. worker[v].obj \in Objs => objs'[worker[v].obj] = objs[worker[v].obj]
        BY <1>3, <1>4, <3>1, <3>2, AfterRelease
      <3>4. worker[v].pc = "notifyExisting" =>
               \A q \in worker[v].to \cap Objs : objs'[q] = objs[q]
        <4>1. SUFFICES ASSUME worker[v].pc = "notifyExisting", NEW q \in worker[v].to \cap Objs
                       PROVE  objs'[q] = objs[q]
          OBVIOUS
        <4>2. objs'[q] = os[q]
          BY <1>3, <1>4, <3>1, <4>1, AfterRelease
        <4> QED
          BY <1>3, <3>2, <4>1, <4>2
      <3>5. worker[v].pc \in ForSub => worker[v].pc \in {"find", "notifyExisting"}
        BY DEF ForSub
      <3> QED
        BY <3>1, <3>3, <3>4, <3>5 DEF JobIs
    <2> QED
      BY <2>1, <2>2
  <1>12. TaskIs(task)'
    <2>1. task.obj # o
      BY <1>1 DEF Alive
    <2>2. task.obj \in Objs => objs'[task.obj] = objs[task.obj]
      BY <1>3, <1>4, <2>1, AfterRelease
    <2> QED
      BY <1>4, <2>2 DEF TaskIs
  <1> QED
    BY <1>3, <1>4, <1>8, <1>9, <1>10, <1>11, <1>12, AfterRelease DEF TypeInv, Referring

LEMMA SubscribersListed ==
    ASSUME TypeInv, NEW n
    PROVE  SubscriptionList(n) \in SUBSET Subs
  BY TypedState DEF SubscriptionList

LEMMA RegistrationTypes ==
    ASSUME TypeInv, NEW w \in Workers,
           SubscribeFirst(w) \/ StatusRegistered(w) \/ NotifyRegistered(w)
    PROVE  TypeInv'
  <1>0. /\ Jobs /\ worker[w].pc \in ForNf
        /\ worker[w].obj \in Objs /\ Alive(worker[w].obj) /\ worker[w].who \in Nfs
    BY TypedState DEF SubscribeFirst, StatusRegistered, NotifyRegistered, At, ForNf
  <1>1. CASE SubscribeFirst(w)
    <2>1. PICK b : b = [objs[worker[w].obj] EXCEPT !.slots = @ \cup {"first"}]
      OBVIOUS
    <2>2. /\ b \in Profile /\ b.nf = objs[worker[w].obj].nf
          /\ b.first_update <=> "periodic" \notin b.slots
      BY <1>0, <2>1, TypedState DEF Profile, Slots
    <2>3. JobsAfter /\ SameObjects
      BY <1>0, <1>1, WentOn DEF SubscribeFirst, ForNf
    <2> QED
      BY <1>0, <1>1, <2>1, <2>2, <2>3, TypedState, WorkerTypes DEF SubscribeFirst
  <1>2. CASE StatusRegistered(w)
    <2>1. JobsAfter /\ SameObjects
      <3>1. PICK ss \in SUBSET Subs :
                worker' = [worker EXCEPT ![w].pc = "notifyRegistered", ![w].to = ss]
        BY <1>2, SubscribersListed DEF StatusRegistered
      <3>2. "notifyRegistered" \in ForNf
        BY DEF ForNf
      <3> QED
        BY <1>0, <1>2, <3>1, <3>2, WentOnTo
    <2> QED
      BY <1>2, <2>1, TypedState, OtherTypes DEF StatusRegistered
  <1>3. CASE NotifyRegistered(w)
    <2>1. JobsAfter
      BY <1>0, <1>3, Finished DEF NotifyRegistered
    <2>2. told' \in [Subs -> SUBSET Nfs] /\ crossed' \subseteq Subs \X Nfs
      BY <1>0, <1>3, TypedState DEF NotifyRegistered
    <2>3. /\ Release(objs) /\ UNCHANGED <<db, task, subs>>
      BY <1>3 DEF NotifyRegistered
    <2> QED
      BY <2>1, <2>2, <2>3, TypedState, RenewsNone, ReleasingTypes
  <1> QED
    BY <1>1, <1>2, <1>3

LEMMA DeregistrationTypes ==
    ASSUME TypeInv, NEW w \in Workers,
           \/ \E n \in Nfs : Deregister(w, n)
           \/ StatusDeregistered(w) \/ NotifyDeregistered(w) \/ RemoveProfile(w)
    PROVE  TypeInv'
  <1>1. ASSUME NEW n \in Nfs, Deregister(w, n) PROVE TypeInv'
    <2>1. db[n] \in Objs /\ objs[db[n]].nf = n
      BY <1>1, TypedState DEF Deregister
    <2>2. JobsAfter /\ SameObjects
      BY <1>1, <2>1, TypedState, Began DEF Deregister, ForNf, ForSub
    <2>3. crossed' \subseteq Subs \X Nfs
      BY <1>1, TypedState DEF Deregister
    <2> QED
      BY <1>1, <2>2, <2>3, TypedState, OtherTypes DEF Deregister
  <1>0. ASSUME StatusDeregistered(w) \/ NotifyDeregistered(w) \/ RemoveProfile(w)
        PROVE  Jobs /\ worker[w].pc \in ForNf /\ worker[w].who \in Nfs
    BY <1>0, TypedState DEF StatusDeregistered, NotifyDeregistered, RemoveProfile, At, ForNf
  <1>2. CASE StatusDeregistered(w)
    <2>1. JobsAfter /\ SameObjects
      <3>1. PICK ss \in SUBSET Subs :
                worker' = [worker EXCEPT ![w].pc = "notifyDeregistered", ![w].to = ss]
        BY <1>2, SubscribersListed DEF StatusDeregistered
      <3>2. "notifyDeregistered" \in ForNf
        BY DEF ForNf
      <3> QED
        BY <1>0, <1>2, <3>1, <3>2, WentOnTo
    <2> QED
      BY <1>2, <2>1, TypedState, OtherTypes DEF StatusDeregistered
  <1>3. CASE NotifyDeregistered(w)
    <2>1. JobsAfter /\ SameObjects
      <3>1. "remove" \in ForNf /\ {} \in SUBSET Subs
        BY DEF ForNf
      <3>2. worker' = [worker EXCEPT ![w].pc = "remove", ![w].to = {}]
        BY <1>3 DEF NotifyDeregistered
      <3> QED
        BY <1>0, <1>3, <3>1, <3>2, WentOnTo
    <2>2. told' \in [Subs -> SUBSET Nfs]
      BY <1>3, TypedState DEF NotifyDeregistered
    <2> QED
      BY <1>3, <2>1, <2>2, TypedState, OtherTypes DEF NotifyDeregistered
  <1>4. CASE RemoveProfile(w)
    <2>1. JobsAfter
      BY <1>0, <1>4, Finished DEF RemoveProfile
    <2>2. /\ db' \in [Nfs -> Objs \cup {NoObj}]
          /\ \A n \in Nfs : db'[n] # NoObj => objs[db'[n]].nf = n
      BY <1>0, <1>4, TypedState DEF RemoveProfile
    <2>3. Release(objs) /\ UNCHANGED <<subs, task, told, crossed>>
      BY <1>4 DEF RemoveProfile
    <2> QED
      BY <2>1, <2>2, <2>3, TypedState, RenewsNone, ReleasingTypes
  <1> QED
    BY <1>1, <1>2, <1>3, <1>4

LEMMA UpdateTypes ==
    ASSUME TypeInv, NEW w \in Workers,
           \/ \E n \in Nfs, heartbeat \in BOOLEAN : Patch(w, n, heartbeat)
           \/ Update(w) \/ UpdateStatus(w)
    PROVE  TypeInv'
  <1>1. ASSUME NEW n \in Nfs, NEW heartbeat \in BOOLEAN, Patch(w, n, heartbeat) PROVE TypeInv'
    <2>1. PICK o : o = db[n]
      OBVIOUS
    <2>2. o \in Objs /\ Alive(o) /\ objs[o].nf = n
      BY <1>1, <2>1, TypedState DEF Patch
    <2>3. PICK pc \in {"updateStatus", "update"} : Begin(w, pc, n, o)
      BY <1>1, <2>1 DEF Patch
    <2>4. JobsAfter /\ SameObjects
      BY <2>2, <2>3, TypedState, Began DEF ForNf, ForSub
    <2>5. PICK b : b = IF heartbeat THEN [objs[o] EXCEPT !.status = "REGISTERED"] ELSE objs[o]
      OBVIOUS
    <2>6. /\ b \in Profile /\ b.nf = objs[o].nf
          /\ b.first_update <=> "periodic" \notin b.slots
      BY <2>2, <2>5, TypedState DEF Profile
    <2>7. objs' = [objs EXCEPT ![o] = b] /\ UNCHANGED <<db, subs, task, told, crossed>>
      BY <1>1, <2>1, <2>2, <2>5, TypedState DEF Patch
    <2> QED
      BY <2>2, <2>4, <2>6, <2>7, TypedState, WorkerTypes
  <1>0. ASSUME Update(w) \/ UpdateStatus(w)
        PROVE  /\ Jobs /\ worker[w].pc \in ForNf
               /\ db' \in [Nfs -> Objs \cup {NoObj}]
               /\ \A n \in Nfs : db'[n] # NoObj => objs[db'[n]].nf = n
               /\ Release(objs) /\ UNCHANGED <<subs, task, told, crossed>>
    <2>1. Jobs /\ worker[w].pc \in ForNf
      BY <1>0, TypedState DEF Update, UpdateStatus, At, ForNf
    <2>2. UpdateProfile(worker[w].who, worker[w].obj)
      BY <1>0 DEF Update, UpdateStatus
    <2> QED
      BY <1>0, <2>1, <2>2, TypedState DEF Update, UpdateStatus, UpdateProfile
  <1>2. CASE Update(w)
    <2>1. JobsAfter
      BY <1>0, <1>2, Finished DEF Update
    <2> QED
      BY <1>0, <1>2, <2>1, TypedState, RenewsNone, ReleasingTypes
  <1>3. CASE UpdateStatus(w)
    <2>1. JobsAfter
      BY <1>0, <1>3, WentOn DEF UpdateStatus, ForNf
    <2> QED
      BY <1>0, <1>3, <2>1, TypedState, RenewsNone, ReleasingTypes
  <1> QED
    BY <1>1, <1>2, <1>3

LEMMA HeartbeatTypes ==
    ASSUME TypeInv, NEW w \in Workers,
           \/ UnsubscribeFirst(w) \/ DisconnectFirst(w) \/ SubscribePeriodic(w)
           \/ SetUpdated(w) \/ RestoreStatus(w)
    PROVE  TypeInv'
  <1>1. PICK o : o = worker[w].obj
    OBVIOUS
  <1>2. Jobs /\ worker[w].pc \in ForNf /\ o \in Objs /\ Alive(o) /\ objs[o] \in Profile
    BY <1>1, TypedState
       DEF UnsubscribeFirst, DisconnectFirst, SubscribePeriodic, SetUpdated, RestoreStatus, At, ForNf
  <1>3. objs[o].first_update <=> "periodic" \notin objs[o].slots
    BY <1>2, TypedState
  <1>4. ASSUME NEW pc \in ForNf, Goto(w, pc), UNCHANGED <<db, subs, task, told, crossed>>,
               NEW b \in Profile, b.nf = objs[o].nf,
               b.first_update <=> "periodic" \notin b.slots,
               objs' = [objs EXCEPT ![o] = b]
        PROVE  TypeInv'
    <2>1. JobsAfter /\ SameObjects
      BY <1>2, <1>4, WentOn
    <2> QED
      BY <1>2, <1>4, <2>1, TypedState, WorkerTypes
  <1>5. CASE UnsubscribeFirst(w)
    <2>1. CASE Goto(w, "disconnect") /\ UNCHANGED objs
      <3>1. objs' = [objs EXCEPT ![o] = objs[o]]
        BY <1>2, <2>1, TypedState
      <3> QED
        BY <1>2, <1>3, <1>4, <1>5, <2>1, <3>1 DEF UnsubscribeFirst, ForNf
    <2>2. CASE Goto(w, "updated") /\ objs' = [objs EXCEPT ![o].late = @ \/ Unwatched(o)]
      <3>1. PICK b : b = [objs[o] EXCEPT !.late = @ \/ Unwatched(o)]
        OBVIOUS
      <3>2. /\ b \in Profile /\ b.nf = objs[o].nf
            /\ b.first_update <=> "periodic" \notin b.slots
        <4>1. (objs[o].late \/ Unwatched(o)) \in BOOLEAN
          BY DEF Unwatched
        <4> QED
          BY <1>2, <1>3, <3>1, <4>1 DEF Profile
      <3> QED
        BY <1>4, <1>5, <2>2, <3>1, <3>2 DEF UnsubscribeFirst, ForNf
    <2> QED
      BY <1>1, <1>5, <2>1, <2>2 DEF UnsubscribeFirst
  <1>6. CASE DisconnectFirst(w)
    <2>1. PICK b : b = [objs[o] EXCEPT !.slots = @ \ {"first"}]
      OBVIOUS
    <2>2. /\ b \in Profile /\ b.nf = objs[o].nf
          /\ b.first_update <=> "periodic" \notin b.slots
      BY <1>2, <1>3, <2>1 DEF Profile
    <2> QED
      BY <1>1, <1>4, <1>6, <2>1, <2>2 DEF DisconnectFirst, ForNf
  <1>7. CASE SubscribePeriodic(w)
    <2>1. PICK b : b = [objs[o] EXCEPT !.slots = IF objs[o].first_update
                                                THEN @ \cup {"periodic"} ELSE @,
                                      !.first_update = FALSE]
      OBVIOUS
    <2>2. /\ b \in Profile /\ b.nf = objs[o].nf
          /\ b.first_update <=> "periodic" \notin b.slots
      BY <1>2, <1>3, <2>1 DEF Profile, Slots
    <2>3. objs' = [objs EXCEPT ![o] = b]
      BY <1>1, <1>2, <1>7, <2>1, TypedState DEF SubscribePeriodic
    <2> QED
      BY <1>4, <1>7, <2>2, <2>3 DEF SubscribePeriodic, ForNf
  <1>8. CASE SetUpdated(w)
    <2>1. PICK b : b = [objs[o] EXCEPT !.is_updated = TRUE,
                                      !.good = IF task.obj = o THEN @ ELSE 2]
      OBVIOUS
    <2>2. /\ b \in Profile /\ b.nf = objs[o].nf
          /\ b.first_update <=> "periodic" \notin b.slots
      <3>1. objs[o].good \in 0 .. 2 /\ 2 \in 0 .. 2
        BY <1>2 DEF Profile
      <3>2. (IF task.obj = o THEN objs[o].good ELSE 2) \in 0 .. 2
        BY <3>1
      <3> QED
        BY <1>2, <1>3, <2>1, <3>2 DEF Profile
    <2>3. objs' = [objs EXCEPT ![o] = b]
      BY <1>1, <1>2, <1>8, <2>1, TypedState DEF SetUpdated
    <2> QED
      BY <1>4, <1>8, <2>2, <2>3 DEF SetUpdated, ForNf
  <1>9. CASE RestoreStatus(w)
    <2>1. PICK os : os = [objs EXCEPT ![o].status = "REGISTERED"]
      OBVIOUS
    <2>2. Renews(os)
      BY <1>2, <2>1, TypedState DEF Renews, Profile
    <2>3. JobsAfter
      BY <1>2, <1>9, Finished DEF RestoreStatus
    <2>4. Release(os) /\ UNCHANGED <<db, subs, task, told, crossed>>
      BY <1>1, <1>9, <2>1 DEF RestoreStatus
    <2>5. /\ task' \in Tasks /\ TaskIs(task') /\ db' \in [Nfs -> Objs \cup {NoObj}]
          /\ \A n \in Nfs : db'[n] # NoObj => objs[db'[n]].nf = n
          /\ subs' \subseteq Subs /\ told' \in [Subs -> SUBSET Nfs]
          /\ crossed' \subseteq Subs \X Nfs
      BY <2>4, TypedState
    <2> QED
      BY <2>2, <2>3, <2>4, <2>5, ReleasingTypes
  <1> QED
    BY <1>5, <1>6, <1>7, <1>8, <1>9
------------------------------------------------------------------------------
(* The steps of a worker that serves a subscriber.                         *)
LEMMA FoundOnes ==
    ASSUME TypeInv, NEW w \in Workers, FindProfiles(w)
    PROVE  /\ JobsAfter /\ SameObjects
           /\ worker'[w].pc = "notifyExisting" /\ worker'[w].who = worker[w].who
           /\ worker'[w].obj = worker[w].obj
           /\ worker'[w].to = {db[n] : n \in Nfs} \ {NoObj}
           /\ \A v \in Workers \ {w} : worker'[v] = worker[v]
  <1>1. PICK os : os = {db[n] : n \in Nfs} \ {NoObj}
    OBVIOUS
  <1>2. os \in SUBSET (Subs \cup Objs) /\ \A o \in os : o \in Objs /\ objs[o].nf \in Nfs
    BY <1>1, TypedState
  <1>3. worker[w] \in Job /\ JobIs(worker[w]) /\ worker[w].pc = "find" /\ Jobs
    BY TypedState DEF Jobs, FindProfiles, At
  <1>4. PICK j : j = [worker[w] EXCEPT !.pc = "notifyExisting", !.to = os]
    OBVIOUS
  <1>5. "notifyExisting" \in {"idle"} \cup ForNf \cup ForSub
    BY DEF ForSub
  <1>6. /\ j \in Job /\ j.pc = "notifyExisting" /\ j.who = worker[w].who
        /\ j.obj = worker[w].obj /\ j.to = os
    BY <1>2, <1>3, <1>4, <1>5 DEF Job
  <1>7. JobIs(j)
    BY <1>2, <1>3, <1>6 DEF JobIs, ForNf, ForSub
  <1>8. worker' = [worker EXCEPT ![w] = j]
    BY <1>1, <1>3, <1>4 DEF FindProfiles, Jobs
  <1>9. SameObjects
    BY <1>3, <1>6, <1>8 DEF SameObjects, At, Jobs
  <1> QED
    BY <1>1, <1>3, <1>6, <1>7, <1>8, <1>9 DEF Jobs, JobsAfter

LEMMA ToldOne ==
    ASSUME TypeInv, NEW w \in Workers, worker[w].pc = "notifyExisting", NEW o,
           worker' = [worker EXCEPT ![w].to = @ \ {o}]
    PROVE  /\ JobsAfter
           /\ worker'[w].pc = "notifyExisting" /\ worker'[w].who = worker[w].who
           /\ worker'[w].obj = worker[w].obj /\ worker'[w].to = worker[w].to \ {o}
           /\ \A v \in Workers \ {w} : worker'[v] = worker[v]
  <1>1. PICK j : j = [worker[w] EXCEPT !.to = @ \ {o}]
    OBVIOUS
  <1>2. worker[w] \in Job /\ JobIs(worker[w]) /\ Jobs
    BY TypedState DEF Jobs
  <1>3. /\ j \in Job /\ j.pc = "notifyExisting" /\ j.who = worker[w].who
        /\ j.obj = worker[w].obj /\ j.to = worker[w].to \ {o}
    BY <1>1, <1>2 DEF Job
  <1>4. JobIs(j)
    BY <1>2, <1>3 DEF JobIs, ForNf, ForSub
  <1>5. worker' = [worker EXCEPT ![w] = j]
    BY <1>1, <1>2 DEF Jobs
  <1> QED
    BY <1>2, <1>3, <1>4, <1>5 DEF Jobs, JobsAfter

LEMMA SubscriptionTypes ==
    ASSUME TypeInv, NEW w \in Workers,
           \/ \E s \in Subs : CreateSubscription(w, s)
           \/ FindProfiles(w) \/ NotifyExisting(w)
    PROVE  TypeInv'
  <1>1. ASSUME NEW s \in Subs, CreateSubscription(w, s) PROVE TypeInv'
    <2>1. JobsAfter /\ SameObjects
      BY <1>1, TypedState, Began DEF CreateSubscription, ForNf, ForSub
    <2>2. crossed' \subseteq Subs \X Nfs /\ subs' \subseteq Subs
      BY <1>1, TypedState DEF CreateSubscription
    <2> QED
      BY <1>1, <2>1, <2>2, TypedState, OtherTypes DEF CreateSubscription
  <1>2. CASE FindProfiles(w)
    BY <1>2, FoundOnes, TypedState, OtherTypes DEF FindProfiles
  <1>3. CASE NotifyExisting(w)
    <2>1. /\ Jobs /\ worker[w].pc = "notifyExisting" /\ worker[w].who \in Subs
          /\ worker[w].to \subseteq Objs /\ \A o \in worker[w].to : objs[o].nf \in Nfs
      BY <1>3, TypedState DEF NotifyExisting, At, Jobs, JobIs, ForSub
    <2>2. JobsAfter /\ told' \in [Subs -> SUBSET Nfs]
      <3>1. CASE worker[w].to = {} /\ Finish(w) /\ UNCHANGED told
        BY <2>1, <3>1, TypedState, Finished
      <3>2. ASSUME NEW o \in worker[w].to,
                   told' = [told EXCEPT ![worker[w].who] = @ \cup {objs[o].nf}],
                   worker' = [worker EXCEPT ![w].to = @ \ {o}]
            PROVE  JobsAfter /\ told' \in [Subs -> SUBSET Nfs]
        BY <2>1, <3>2, TypedState, ToldOne
      <3> QED
        BY <1>3, <3>1, <3>2 DEF NotifyExisting
    <2>3. Release(objs) /\ UNCHANGED <<db, subs, task, crossed>>
      BY <1>3 DEF NotifyExisting
    <2> QED
      BY <2>2, <2>3, TypedState, RenewsNone, ReleasingTypes
  <1> QED
    BY <1>1, <1>2, <1>3

LEMMA RemovalTypes ==
    ASSUME TypeInv, NEW s \in Subs, RemoveSubscription(s)
    PROVE  TypeInv'
  <1>1. JobsAfter /\ SameObjects
    BY TypedState DEF RemoveSubscription, Jobs, JobsAfter, SameObjects
  <1>2. /\ told' \in [Subs -> SUBSET Nfs] /\ crossed' \subseteq Subs \X Nfs
        /\ subs' \subseteq Subs
    BY TypedState DEF RemoveSubscription
  <1> QED
    BY <1>1, <1>2, OtherTypes DEF RemoveSubscription
------------------------------------------------------------------------------
(* The steps of the task manager.                                          *)
LEMMA ConnectedIsAlive ==
    ASSUME TypeInv, NEW o \in Objs, NEW slot \in objs[o].slots
    PROVE  Alive(o) /\ objs[o].nf \in Nfs
  <1>1. Alive(o)
    BY GoneIs DEF TypeInv, Destroyed
  <1> QED
    BY <1>1, AliveIsProfile

LEMMA TimeoutTypes ==
    ASSUME TypeInv, NEW o \in Objs, NEW slot \in Slots, HeartbeatTimeout(o, slot)
    PROVE  TypeInv'
  <1>1. Alive(o) /\ objs[o].nf \in Nfs
    BY ConnectedIsAlive DEF HeartbeatTimeout
  <1>2. PICK b : b = [objs[o] EXCEPT !.good = IF @ = 0 THEN 0 ELSE @ - 1]
    OBVIOUS
  <1>3. objs[o] \in Profile /\ (objs[o].first_update <=> "periodic" \notin objs[o].slots)
    BY TypedState
  <1>4. (IF objs[o].good = 0 THEN 0 ELSE objs[o].good - 1) \in 0 .. 2
    <2>1. objs[o].good \in 0 .. 2
      BY <1>3 DEF Profile
    <2> QED
      BY <2>1
  <1>5. /\ b \in Profile /\ b.nf = objs[o].nf
        /\ b.first_update <=> "periodic" \notin b.slots
    BY <1>2, <1>3, <1>4 DEF Profile
  <1>6. objs' = [objs EXCEPT ![o] = b]
    BY <1>2, TypedState DEF HeartbeatTimeout
  <1>7. OncePeriodic' /\ objs' \in [Objs -> Profile]
    BY <1>5, <1>6, TypedState DEF OncePeriodic
  <1>8. /\ task' \in Tasks /\ task'.obj = o /\ task'.pc \in {"clear", "suspend"}
        /\ task.obj = NoObj
    BY TypedState DEF HeartbeatTimeout, Tasks, TaskIs
  <1>9. TaskIs(task')
    BY <1>1, <1>8 DEF TaskIs
  <1>10. Typed' /\ NothingDropped /\ \A w \in Workers : JobIs(worker'[w])
    BY <1>7, <1>8, TypedState
       DEF TypeInv, Typed, HeartbeatTimeout, NothingDropped, SameObjects, Jobs
  <1>11. \A q \in Objs : objs'[q] = objs[q] \/ (Alive(q) /\ objs'[q].nf = objs[q].nf)
    BY <1>1, <1>5, <1>6, TypedState
  <1> QED
    BY <1>7, <1>9, <1>10, <1>11, SteadyTypes

LEMMA HandlerTypes ==
    ASSUME TypeInv, Handler
    PROVE  TypeInv'
  <1>1. PICK o : o = task.obj
    OBVIOUS
  <1>2. o \in Objs /\ Alive(o) /\ objs[o] \in Profile /\ objs[o].nf \in Nfs
    BY <1>1, TypedState DEF Handler, Suspend, ClearUpdated, EndFirst, TaskIs, Alive
  <1>3. objs[o].first_update <=> "periodic" \notin objs[o].slots
    BY <1>2, TypedState
  <1>4. JobsAfter /\ UNCHANGED <<db, subs, told, crossed>>
    BY TypedState DEF Handler, Suspend, ClearUpdated, EndFirst, Jobs, JobsAfter
  <1>5. ASSUME NEW os, Release(os), task' \in Tasks, TaskIs(task'),
               Renews(os)
        PROVE  TypeInv'
    <2>1. /\ db' \in [Nfs -> Objs \cup {NoObj}]
          /\ \A n \in Nfs : db'[n] # NoObj => objs[db'[n]].nf = n
          /\ subs' \subseteq Subs /\ told' \in [Subs -> SUBSET Nfs]
          /\ crossed' \subseteq Subs \X Nfs
      BY <1>4, TypedState
    <2> QED
      BY <1>4, <1>5, <2>1, ReleasingTypes
  <1>6. Waiting \in Tasks /\ TaskIs(Waiting)
    BY DEF Waiting, Tasks, TaskIs, Slots
  <1>7. CASE Suspend
    <2>1. PICK b : b = [objs[o] EXCEPT !.status = "SUSPENDED"]
      OBVIOUS
    <2>2. /\ b \in Profile /\ b.nf = objs[o].nf
          /\ b.first_update <=> "periodic" \notin b.slots
      BY <1>2, <1>3, <2>1 DEF Profile
    <2>3. objs' = [objs EXCEPT ![o] = b]
      BY <1>1, <1>7, <2>1 DEF Suspend
    <2>4. task' \in Tasks /\ TaskIs(task') /\ task'.obj = task.obj
      BY <1>7, TypedState DEF Suspend, Tasks, TaskIs
    <2>5. OncePeriodic' /\ objs' \in [Objs -> Profile]
      BY <2>2, <2>3, TypedState DEF OncePeriodic
    <2>6. Typed' /\ NothingDropped
      BY <1>4, <1>7, <2>4, <2>5
         DEF Suspend, TypeInv, Typed, JobsAfter, NothingDropped, SameObjects
    <2>7. \A q \in Objs : objs'[q] = objs[q] \/ (Alive(q) /\ objs'[q].nf = objs[q].nf)
      BY <1>2, <2>2, <2>3, TypedState
    <2> QED
      BY <1>4, <2>4, <2>5, <2>6, <2>7, SteadyTypes DEF JobsAfter
  <1>8. CASE ClearUpdated
    <2>1. PICK os : os = [objs EXCEPT ![o].is_updated = FALSE]
      OBVIOUS
    <2>2. Renews(os)
      BY <1>2, <2>1, TypedState DEF Renews, Profile
    <2>3. Release(os)
      BY <1>1, <1>8, <2>1 DEF ClearUpdated
    <2>4. task' \in Tasks /\ TaskIs(task')
      <3>1. CASE task.slot = "first" /\ task' = [task EXCEPT !.pc = "unsubscribe"]
        BY <1>1, <1>2, <3>1, TypedState DEF Tasks, TaskIs
      <3>2. CASE task' = Waiting
        BY <1>6, <3>2
      <3> QED
        BY <1>8, <3>1, <3>2 DEF ClearUpdated
    <2> QED
      BY <1>5, <2>2, <2>3, <2>4
  <1>9. CASE EndFirst
    <2>1. PICK os : os = [objs EXCEPT ![o].slots = @ \ {"first"}]
      OBVIOUS
    <2>2. Renews(os)
      BY <1>2, <2>1, TypedState DEF Renews, Profile
    <2>3. Release(os) /\ task' = Waiting
      BY <1>1, <1>9, <2>1 DEF EndFirst
    <2> QED
      BY <1>5, <1>6, <2>2, <2>3
  <1> QED
    BY <1>7, <1>8, <1>9 DEF Handler

LEMMA NextTypes == TypeInv /\ [Next]_vars => TypeInv'
  <1> SUFFICES ASSUME TypeInv, [Next]_vars PROVE TypeInv'
    OBVIOUS
  <1>1. CASE UNCHANGED vars
    <2>1. JobsAfter /\ SameObjects
      BY <1>1, TypedState DEF vars, Jobs, JobsAfter, SameObjects
    <2> QED
      BY <1>1, <2>1, TypedState, OtherTypes DEF vars
  <1>2. ASSUME NEW w \in Workers, NEW n \in Nfs,
               \/ Register(w, n) \/ Deregister(w, n)
               \/ \E heartbeat \in BOOLEAN : Patch(w, n, heartbeat)
        PROVE  TypeInv'
    BY <1>2, RegisterTypes, DeregistrationTypes, UpdateTypes
  <1>3. ASSUME NEW w \in Workers, Continue(w) PROVE TypeInv'
    BY <1>3, RegistrationTypes, DeregistrationTypes, UpdateTypes, HeartbeatTypes,
       SubscriptionTypes DEF Continue
  <1>4. ASSUME NEW w \in Workers, NEW s \in Subs, CreateSubscription(w, s) PROVE TypeInv'
    BY <1>4, SubscriptionTypes
  <1> QED
    BY <1>1, <1>2, <1>3, <1>4, RemovalTypes, TimeoutTypes, HandlerTypes DEF Next

(* Every reference of the map, of a worker and of the task manager leads to*)
(* a profile of the NF it is for, whatever registrations replace and       *)
(* deregistrations remove meanwhile, and what nobody refers to is destroyed*)
(* (add_nf_profile, update_nf_profile, remove_nf_profile).                 *)
THEOREM RegistryTyped == Spec => []TypeOK
  BY InitTypes, NextTypes, TypesFollow, PTL DEF Spec
------------------------------------------------------------------------------
(* A step that answers a heartbeat or handles a time-out is of one worker, *)
(* or of the task manager; the other steps leave heartbeats alone.         *)
Serves(w) ==
    \/ \E n \in Nfs : \/ Register(w, n) \/ Deregister(w, n)
                      \/ \E heartbeat \in BOOLEAN : Patch(w, n, heartbeat)
    \/ \E s \in Subs : CreateSubscription(w, s)
    \/ Continue(w)

LEMMA OthersStay ==
    ASSUME TypeInv, NEW w \in Workers, Serves(w), NEW v \in Workers, v # w
    PROVE  worker'[v] = worker[v]
  <1>1. worker \in [Workers -> Job]
    BY TypedState DEF Jobs
  <1>2. CASE \E n \in Nfs : \/ Register(w, n) \/ Deregister(w, n)
                           \/ \E heartbeat \in BOOLEAN : Patch(w, n, heartbeat)
    BY <1>1, <1>2 DEF Register, Deregister, Patch, Begin
  <1>3. CASE \E s \in Subs : CreateSubscription(w, s)
    BY <1>1, <1>3 DEF CreateSubscription, Begin
  <1>4. CASE SubscribeFirst(w) \/ StatusRegistered(w) \/ NotifyRegistered(w)
             \/ StatusDeregistered(w) \/ NotifyDeregistered(w) \/ RemoveProfile(w)
    BY <1>1, <1>4 DEF SubscribeFirst, StatusRegistered, NotifyRegistered,
       StatusDeregistered, NotifyDeregistered, RemoveProfile, Goto, Finish
  <1>5. CASE Update(w) \/ UpdateStatus(w) \/ UnsubscribeFirst(w) \/ DisconnectFirst(w)
    BY <1>1, <1>5 DEF Update, UpdateStatus, UnsubscribeFirst, DisconnectFirst, Goto, Finish
  <1>6. CASE SubscribePeriodic(w) \/ SetUpdated(w) \/ RestoreStatus(w)
             \/ FindProfiles(w) \/ NotifyExisting(w)
    BY <1>1, <1>6 DEF SubscribePeriodic, SetUpdated, RestoreStatus, FindProfiles,
       NotifyExisting, Goto, Finish
  <1> QED
    BY <1>2, <1>3, <1>4, <1>5, <1>6 DEF Serves, Continue
------------------------------------------------------------------------------
(* A heartbeat that counts for two time-outs has set is_updated, and the   *)
(* handler that is about to suspend found none that counts.                *)
HeartbeatInv ==
    /\ \A o \in Objs : objs[o].good = 2 => objs[o].is_updated /\ task.obj # o
    /\ task.pc = "suspend" => objs[task.obj].good = 0
    /\ HeartbeatCounts

LEMMA InitHeartbeat == Init => HeartbeatInv
  <1> SUFFICES ASSUME Init PROVE HeartbeatInv
    OBVIOUS
  <1>1. \A o \in Objs : objs[o].good = 0
    BY GoneIs DEF Init
  <1>2. task.pc = "idle"
    BY DEF Init, Waiting
  <1> QED
    BY <1>1, <1>2 DEF HeartbeatInv, HeartbeatCounts

LEMMA HeartbeatCalm ==
    ASSUME TypeInv, HeartbeatInv, UNCHANGED task,
           \A o \in Objs : \/ objs'[o].good = 0
                           \/ /\ objs'[o].good = objs[o].good
                              /\ objs'[o].is_updated = objs[o].is_updated
                              /\ objs'[o].status \in {objs[o].status, "REGISTERED"},
           \A w \in Workers : At(w, "restore") => worker'[w] = worker[w]
    PROVE  HeartbeatInv'
  <1>1. \A o \in Objs : objs'[o].good = 2 => objs'[o].is_updated /\ task'.obj # o
    BY DEF HeartbeatInv
  <1>2. task'.pc = "suspend" => objs'[task'.obj].good = 0
    BY TypedState DEF HeartbeatInv, TaskIs
  <1>3. ASSUME NEW o \in Objs, objs'[o].good > 0
        PROVE  \/ objs'[o].status = "REGISTERED"
               \/ \E w \in Workers : At(w, "restore")' /\ worker'[w].obj = o
    <2>1. /\ objs'[o].good = objs[o].good
          /\ objs'[o].status \in {objs[o].status, "REGISTERED"}
      BY <1>3
    <2>2. \/ objs[o].status = "REGISTERED"
          \/ \E w \in Workers : At(w, "restore") /\ worker[w].obj = o
      BY <1>3, <2>1 DEF HeartbeatInv, HeartbeatCounts
    <2>3. CASE \E w \in Workers : At(w, "restore") /\ worker[w].obj = o
      BY <2>3 DEF At
    <2> QED
      BY <2>1, <2>2, <2>3
  <1> QED
    BY <1>1, <1>2, <1>3 DEF HeartbeatInv, HeartbeatCounts

LEMMA CalmSteps ==
    ASSUME TypeInv, HeartbeatInv, NEW w \in Workers, Serves(w),
           ~SetUpdated(w), ~RestoreStatus(w)
    PROVE  HeartbeatInv'
  <1>1. objs \in [Objs -> Profile] /\ UNCHANGED task
    BY TypedState DEF Serves, Continue, Register, Deregister, Patch, CreateSubscription,
       SubscribeFirst, StatusRegistered, NotifyRegistered, StatusDeregistered,
       NotifyDeregistered, RemoveProfile, Update, UpdateStatus, UnsubscribeFirst,
       DisconnectFirst, SubscribePeriodic, FindProfiles, NotifyExisting
  <1>2. ~At(w, "restore")
    BY DEF Serves, Continue, Register, Deregister, Patch, CreateSubscription, Begin, At,
       SubscribeFirst, StatusRegistered, NotifyRegistered, StatusDeregistered,
       NotifyDeregistered, RemoveProfile, Update, UpdateStatus, UnsubscribeFirst,
       DisconnectFirst, SubscribePeriodic, FindProfiles, NotifyExisting
  <1>3. \A v \in Workers : At(v, "restore") => worker'[v] = worker[v]
    BY <1>2, OthersStay
  <1> DEFINE Calm == \A o \in Objs :
                        \/ objs'[o].good = 0
                        \/ /\ objs'[o].good = objs[o].good
                           /\ objs'[o].is_updated = objs[o].is_updated
                           /\ objs'[o].status \in {objs[o].status, "REGISTERED"}
  <1>4. ASSUME Release(objs) PROVE Calm
    BY <1>4, AfterRelease, GoneIs
  <1>5. ASSUME NEW n \in Nfs, Register(w, n) PROVE Calm
    <2>1. PICK o \in Objs : Release([objs EXCEPT ![o] = NewProfile(n)])
      BY <1>5 DEF Register
    <2>2. NewProfile(n).good = 0
      BY DEF NewProfile
    <2>3. PICK os : os = [objs EXCEPT ![o] = NewProfile(n)]
      OBVIOUS
    <2>4. \A q \in Objs : os[q] = objs[q] \/ os[q] = NewProfile(n)
      BY <1>1, <2>3
    <2>5. \A q \in Objs : objs'[q] = os[q] \/ objs'[q] = Gone
      BY <2>1, <2>3, AfterRelease
    <2> QED
      BY <2>2, <2>4, <2>5, GoneIs
  <1>6. ASSUME NEW n \in Nfs, NEW heartbeat \in BOOLEAN, Patch(w, n, heartbeat) PROVE Calm
    BY <1>1, <1>6 DEF Patch, Profile
  <1>7. ASSUME UNCHANGED objs PROVE Calm
    BY <1>7
  <1>8. ASSUME SubscribeFirst(w) \/ UnsubscribeFirst(w) PROVE Calm
    BY <1>1, <1>8 DEF SubscribeFirst, UnsubscribeFirst, Profile
  <1>9. ASSUME DisconnectFirst(w) \/ SubscribePeriodic(w) PROVE Calm
    BY <1>1, <1>9 DEF DisconnectFirst, SubscribePeriodic, Profile
  <1>10. Calm
    BY <1>4, <1>5, <1>6, <1>7, <1>8, <1>9
       DEF Serves, Continue, Deregister, CreateSubscription,
           StatusRegistered, NotifyRegistered, StatusDeregistered,
           NotifyDeregistered, RemoveProfile, Update, UpdateStatus, FindProfiles, NotifyExisting
  <1> QED
    BY <1>1, <1>3, <1>10, HeartbeatCalm

LEMMA AnswerSteps ==
    ASSUME TypeInv, HeartbeatInv, NEW w \in Workers, SetUpdated(w) \/ RestoreStatus(w)
    PROVE  HeartbeatInv'
  <1>1. PICK o : o = worker[w].obj
    OBVIOUS
  <1>2. o \in Objs /\ objs \in [Objs -> Profile] /\ UNCHANGED task /\ worker[w].pc \in ForNf
    BY <1>1, TypedState DEF SetUpdated, RestoreStatus, At, ForNf
  <1>3. Jobs /\ \A v \in Workers \ {w} : worker'[v] = worker[v]
    BY TypedState, OthersStay DEF Serves, Continue
  <1>4. CASE SetUpdated(w)
    <2>1. /\ \A q \in Objs \ {o} : objs'[q] = objs[q]
          /\ objs'[o].is_updated = TRUE
          /\ objs'[o].good = IF task.obj = o THEN objs[o].good ELSE 2
      BY <1>1, <1>2, <1>4 DEF SetUpdated, Profile
    <2>2. worker'[w].pc = "restore" /\ worker'[w].obj = o
      BY <1>1, <1>2, <1>3, <1>4, WentOn DEF SetUpdated, ForNf
    <2>3. \A q \in Objs : objs'[q].good = 2 => objs'[q].is_updated /\ task'.obj # q
      BY <1>2, <2>1 DEF HeartbeatInv
    <2>4. task'.pc = "suspend" => objs'[task'.obj].good = 0
      BY <1>2, <2>1, TypedState DEF HeartbeatInv, TaskIs
    <2>5. ASSUME NEW q \in Objs, objs'[q].good > 0
          PROVE  \/ objs'[q].status = "REGISTERED"
                 \/ \E v \in Workers : At(v, "restore")' /\ worker'[v].obj = q
      <3>1. CASE q = o
        BY <2>2, <3>1 DEF At
      <3>2. CASE q # o
        <4>1. objs'[q] = objs[q]
          BY <2>1, <3>2
        <4>2. \/ objs[q].status = "REGISTERED"
              \/ \E v \in Workers : At(v, "restore") /\ worker[v].obj = q
          BY <2>5, <4>1 DEF HeartbeatInv, HeartbeatCounts
        <4>3. ~At(w, "restore")
          BY <1>4 DEF SetUpdated, At
        <4> QED
          BY <1>3, <4>1, <4>2, <4>3 DEF At
      <3> QED
        BY <3>1, <3>2
    <2> QED
      BY <2>3, <2>4, <2>5 DEF HeartbeatInv, HeartbeatCounts
  <1>5. CASE RestoreStatus(w)
    <2>1. PICK os : os = [objs EXCEPT ![o].status = "REGISTERED"]
      OBVIOUS
    <2>2. /\ \A q \in Objs \ {o} : os[q] = objs[q]
          /\ os[o].is_updated = objs[o].is_updated
          /\ os[o].good = objs[o].good /\ os[o].status = "REGISTERED"
      BY <1>2, <2>1 DEF Profile
    <2>3. Release(os)
      BY <1>1, <1>5, <2>1 DEF RestoreStatus
    <2>4. \A q \in Objs : objs'[q] = os[q] \/ objs'[q].good = 0
      BY <2>3, AfterRelease, GoneIs
    <2>5. \A q \in Objs : objs'[q].good = 2 => objs'[q].is_updated /\ task'.obj # q
      BY <1>2, <2>2, <2>4 DEF HeartbeatInv
    <2>6. task'.pc = "suspend" => objs'[task'.obj].good = 0
      BY <1>2, <2>2, <2>4, TypedState DEF HeartbeatInv, TaskIs
    <2>7. ASSUME NEW q \in Objs, objs'[q].good > 0
          PROVE  \/ objs'[q].status = "REGISTERED"
                 \/ \E v \in Workers : At(v, "restore")' /\ worker'[v].obj = q
      <3>1. objs'[q] = os[q]
        BY <2>4, <2>7
      <3>2. CASE q = o
        BY <2>2, <3>1, <3>2
      <3>3. CASE q # o
        <4>1. objs'[q] = objs[q]
          BY <2>2, <3>1, <3>3
        <4>2. \/ objs[q].status = "REGISTERED"
              \/ \E v \in Workers : At(v, "restore") /\ worker[v].obj = q
          BY <2>7, <4>1 DEF HeartbeatInv, HeartbeatCounts
        <4> QED
          BY <1>1, <1>3, <3>3, <4>1, <4>2 DEF At
      <3> QED
        BY <3>2, <3>3
    <2> QED
      BY <2>5, <2>6, <2>7 DEF HeartbeatInv, HeartbeatCounts
  <1> QED
    BY <1>4, <1>5

LEMMA TimeoutCounts ==
    ASSUME TypeInv, HeartbeatInv, NEW o \in Objs, NEW slot \in Slots, HeartbeatTimeout(o, slot)
    PROVE  HeartbeatInv'
  <1>1. objs \in [Objs -> Profile] /\ UNCHANGED worker
    BY TypedState DEF HeartbeatTimeout
  <1>2. /\ \A q \in Objs \ {o} : objs'[q] = objs[q]
        /\ objs'[o].is_updated = objs[o].is_updated /\ objs'[o].status = objs[o].status
        /\ objs'[o].good = IF objs[o].good = 0 THEN 0 ELSE objs[o].good - 1
    BY <1>1 DEF HeartbeatTimeout, Profile
  <1>3. objs[o].good \in {0, 1, 2}
    BY <1>1 DEF Profile
  <1>4. /\ task'.obj = o
        /\ task'.pc = IF objs[o].is_updated THEN "clear" ELSE "suspend"
    BY DEF HeartbeatTimeout
  <1>5. \A q \in Objs : objs'[q].good = 2 => objs'[q].is_updated /\ task'.obj # q
    BY <1>2, <1>3, <1>4 DEF HeartbeatInv
  <1>6. task'.pc = "suspend" => objs'[task'.obj].good = 0
    BY <1>2, <1>3, <1>4 DEF HeartbeatInv
  <1>7. ASSUME NEW q \in Objs, objs'[q].good > 0
        PROVE  \/ objs'[q].status = "REGISTERED"
               \/ \E v \in Workers : At(v, "restore")' /\ worker'[v].obj = q
    <2>1. objs[q].good > 0 /\ objs'[q].status = objs[q].status
      BY <1>2, <1>3, <1>7
    <2> QED
      BY <1>1, <2>1 DEF HeartbeatInv, HeartbeatCounts, At
  <1> QED
    BY <1>5, <1>6, <1>7 DEF HeartbeatInv, HeartbeatCounts

LEMMA HandlerCounts ==
    ASSUME TypeInv, HeartbeatInv, Handler
    PROVE  HeartbeatInv'
  <1>1. PICK o : o = task.obj
    OBVIOUS
  <1>2. /\ o \in Objs /\ objs \in [Objs -> Profile] /\ UNCHANGED worker
        /\ objs[o].good # 2
    BY <1>1, TypedState DEF Handler, Suspend, ClearUpdated, EndFirst, TaskIs, HeartbeatInv
  <1>3. ASSUME task'.pc # "suspend", NEW os, \A q \in Objs \ {o} : os[q] = objs[q],
               os[o].good = objs[o].good,
               os[o].status = objs[o].status \/ objs[o].good = 0,
               \A q \in Objs : objs'[q] = os[q] \/ objs'[q] = Gone,
               task'.obj \in {o, NoObj}
        PROVE  HeartbeatInv'
    <2>0. \A q \in Objs : objs'[q].good = 0 \/ objs'[q] = os[q]
      BY <1>3, GoneIs
    <2>1. ASSUME NEW q \in Objs, objs'[q].good = 2
          PROVE  objs'[q].is_updated /\ task'.obj # q
      <3>1. objs'[q] = os[q] /\ q # o
        BY <1>2, <1>3, <2>0, <2>1
      <3>2. objs'[q] = objs[q] /\ q # NoObj
        BY <1>3, <3>1, GoneIs
      <3> QED
        BY <1>3, <2>1, <3>1, <3>2 DEF HeartbeatInv
    <2>2. ASSUME NEW q \in Objs, objs'[q].good > 0
          PROVE  \/ objs'[q].status = "REGISTERED"
                 \/ \E v \in Workers : At(v, "restore")' /\ worker'[v].obj = q
      <3>0. objs'[q] = os[q]
        BY <2>0, <2>2
      <3>1. objs[q].good > 0 /\ objs'[q].status = objs[q].status
        <4>1. CASE q = o
          BY <1>3, <2>2, <3>0, <4>1
        <4>2. CASE q # o
          BY <1>3, <2>2, <3>0, <4>2
        <4> QED
          BY <4>1, <4>2
      <3> QED
        BY <1>2, <3>1 DEF HeartbeatInv, HeartbeatCounts, At
    <2> QED
      BY <1>3, <2>1, <2>2 DEF HeartbeatInv, HeartbeatCounts
  <1>4. CASE Suspend
    <2>1. /\ task'.pc = "clear" /\ task'.obj = o /\ objs[o].good = 0
      BY <1>1, <1>4, TypedState DEF Suspend, Tasks, HeartbeatInv
    <2>2. /\ \A q \in Objs \ {o} : objs'[q] = objs[q]
          /\ objs'[o].good = objs[o].good
      BY <1>1, <1>2, <1>4 DEF Suspend, Profile
    <2>3. PICK os : os = objs'
      OBVIOUS
    <2> QED
      BY <1>3, <2>1, <2>2, <2>3
  <1>5. CASE ClearUpdated
    <2>1. PICK os : os = [objs EXCEPT ![o].is_updated = FALSE]
      OBVIOUS
    <2>2. /\ \A q \in Objs \ {o} : os[q] = objs[q]
          /\ os[o].good = objs[o].good /\ os[o].status = objs[o].status
      BY <1>2, <2>1 DEF Profile
    <2>3. \A q \in Objs : objs'[q] = os[q] \/ objs'[q] = Gone
      BY <1>1, <1>5, <2>1, AfterRelease DEF ClearUpdated
    <2>4. task'.pc # "suspend" /\ task'.obj \in {o, NoObj}
      BY <1>1, <1>5, TypedState DEF ClearUpdated, Tasks, Waiting
    <2> QED
      BY <1>3, <2>2, <2>3, <2>4
  <1>6. CASE EndFirst
    <2>1. PICK os : os = [objs EXCEPT ![o].slots = @ \ {"first"}]
      OBVIOUS
    <2>2. /\ \A q \in Objs \ {o} : os[q] = objs[q]
          /\ os[o].good = objs[o].good /\ os[o].status = objs[o].status
      BY <1>2, <2>1 DEF Profile
    <2>3. \A q \in Objs : objs'[q] = os[q] \/ objs'[q] = Gone
      BY <1>1, <1>6, <2>1, AfterRelease DEF EndFirst
    <2>4. task'.pc # "suspend" /\ task'.obj \in {o, NoObj}
      BY <1>6 DEF EndFirst, Waiting
    <2> QED
      BY <1>3, <2>2, <2>3, <2>4
  <1> QED
    BY <1>4, <1>5, <1>6 DEF Handler

LEMMA NextHeartbeat == TypeInv /\ HeartbeatInv /\ [Next]_vars => HeartbeatInv'
  <1> SUFFICES ASSUME TypeInv, HeartbeatInv, [Next]_vars PROVE HeartbeatInv'
    OBVIOUS
  <1>1. ASSUME UNCHANGED <<objs, worker, task>> PROVE HeartbeatInv'
    BY <1>1 DEF HeartbeatInv, HeartbeatCounts, At
  <1>2. ASSUME NEW w \in Workers, Serves(w) PROVE HeartbeatInv'
    BY <1>2, CalmSteps, AnswerSteps
  <1>3. ASSUME NEW s \in Subs, RemoveSubscription(s) PROVE HeartbeatInv'
    BY <1>1, <1>3 DEF RemoveSubscription
  <1>4. CASE UNCHANGED vars
    BY <1>1, <1>4 DEF vars
  <1> QED
    BY <1>2, <1>3, <1>4, TimeoutCounts, HandlerCounts DEF Next, Serves

(* An NF that sent a heartbeat is not suspended before the second time-out *)
(* after it, in every interleaving of the task manager with heartbeats and *)
(* other patches (handle_heartbeart_timeout_nfupdate, set_status_updated). *)
THEOREM HeartbeatsCount == Spec => []HeartbeatCounts
  <1>1. HeartbeatInv => HeartbeatCounts
    BY DEF HeartbeatInv
  <1> QED
    BY <1>1, InitTypes, NextTypes, InitHeartbeat, NextHeartbeat, PTL DEF Spec
------------------------------------------------------------------------------
(* How a step moves a worker between the places that matter to the slots of*)
(* its object.                                                             *)
Heart == {"subscribe", "updateStatus", "unsubscribe", "disconnect", "rearm",
          "updated", "restore"}

Moved(w, from, to) ==
    worker[w].pc = from /\ worker'[w].pc = to /\ worker'[w].obj = worker[w].obj

Moves(w) ==
    \/ worker'[w] = worker[w]
    \/ worker[w].pc \notin Heart /\ worker'[w].pc \notin Heart
    \/ worker[w].pc = "idle" /\ worker'[w].pc \in {"subscribe", "updateStatus"}
    \/ Moved(w, "subscribe", "registered") /\ SubscribeFirst(w)
    \/ Moved(w, "updateStatus", "unsubscribe")
    \/ (Moved(w, "unsubscribe", "disconnect") \/ Moved(w, "unsubscribe", "updated"))
         /\ UnsubscribeFirst(w)
    \/ Moved(w, "disconnect", "rearm")
    \/ Moved(w, "rearm", "updated") /\ SubscribePeriodic(w)
    \/ Moved(w, "updated", "restore")
    \/ worker[w].pc = "restore" /\ worker'[w].pc = "idle"

LEMMA WorkersMove ==
    ASSUME TypeInv, Next, NEW w \in Workers
    PROVE  Moves(w)
  <1>0. Jobs
    BY TypedState
  <1>1. ASSUME NEW v \in Workers, Serves(v), v # w PROVE Moves(w)
    BY <1>1, OthersStay DEF Moves
  <1>2. ASSUME NEW n \in Nfs,
               \/ Register(w, n) \/ Deregister(w, n)
               \/ \E heartbeat \in BOOLEAN : Patch(w, n, heartbeat)
        PROVE  Moves(w)
    <2>1. PICK pc \in {"subscribe", "deregistered", "updateStatus", "update"} :
              \E o : Begin(w, pc, n, o)
      BY <1>2 DEF Register, Deregister, Patch
    <2>2. worker[w].pc = "idle" /\ worker'[w].pc = pc
      BY <1>0, <2>1 DEF Begin, At, Jobs
    <2> QED
      BY <2>2 DEF Moves, Heart
  <1>3. ASSUME NEW s \in Subs, CreateSubscription(w, s) PROVE Moves(w)
    <2>1. worker[w].pc = "idle" /\ worker'[w].pc = "find"
      BY <1>0, <1>3 DEF CreateSubscription, Begin, At, Jobs
    <2> QED
      BY <2>1 DEF Moves, Heart
  <1>4. CASE SubscribeFirst(w)
    <2>1. Moved(w, "subscribe", "registered")
      BY <1>0, <1>4, WentOn DEF SubscribeFirst, At, Moved, ForNf
    <2> QED
      BY <1>4, <2>1 DEF Moves
  <1>5. CASE StatusRegistered(w) \/ StatusDeregistered(w) \/ NotifyDeregistered(w)
    <2>1. worker[w].pc \in {"registered", "deregistered", "notifyDeregistered"}
      BY <1>5 DEF StatusRegistered, StatusDeregistered, NotifyDeregistered, At
    <2>2. PICK pc \in {"notifyRegistered", "notifyDeregistered", "remove"}, ss \in SUBSET Subs :
              worker' = [worker EXCEPT ![w].pc = pc, ![w].to = ss]
      BY <1>5, SubscribersListed DEF StatusRegistered, StatusDeregistered, NotifyDeregistered
    <2>3. worker[w].pc \in ForNf /\ pc \in ForNf
      BY <2>1 DEF ForNf
    <2>4. worker'[w].pc = pc
      BY <1>0, <2>2, <2>3, WentOnTo
    <2> QED
      BY <2>1, <2>4 DEF Moves, Heart
  <1>6. CASE NotifyRegistered(w) \/ RemoveProfile(w) \/ Update(w)
    <2>1. worker[w].pc \in {"notifyRegistered", "remove", "update"} /\ Finish(w)
      BY <1>6 DEF NotifyRegistered, RemoveProfile, Update, At
    <2>2. worker'[w].pc = "idle"
      BY <1>0, <2>1, Finished
    <2> QED
      BY <2>1, <2>2 DEF Moves, Heart
  <1>7. CASE UpdateStatus(w)
    <2>1. Moved(w, "updateStatus", "unsubscribe")
      BY <1>0, <1>7, WentOn DEF UpdateStatus, At, Moved, ForNf
    <2> QED
      BY <2>1 DEF Moves
  <1>8. CASE UnsubscribeFirst(w)
    <2>1. Moved(w, "unsubscribe", "disconnect") \/ Moved(w, "unsubscribe", "updated")
      BY <1>0, <1>8, WentOn DEF UnsubscribeFirst, At, Moved, ForNf
    <2> QED
      BY <1>8, <2>1 DEF Moves
  <1>9. CASE DisconnectFirst(w)
    <2>1. Moved(w, "disconnect", "rearm")
      BY <1>0, <1>9, WentOn DEF DisconnectFirst, At, Moved, ForNf
    <2> QED
      BY <2>1 DEF Moves
  <1>10. CASE SubscribePeriodic(w)
    <2>1. Moved(w, "rearm", "updated")
      BY <1>0, <1>10, WentOn DEF SubscribePeriodic, At, Moved, ForNf
    <2> QED
      BY <1>10, <2>1 DEF Moves
  <1>11. CASE SetUpdated(w)
    <2>1. Moved(w, "updated", "restore")
      BY <1>0, <1>11, WentOn DEF SetUpdated, At, Moved, ForNf
    <2> QED
      BY <2>1 DEF Moves
  <1>12. CASE RestoreStatus(w)
    <2>1. worker[w].pc = "restore" /\ worker'[w].pc = "idle"
      BY <1>0, <1>12, Finished DEF RestoreStatus, At
    <2> QED
      BY <2>1 DEF Moves
  <1>13. CASE FindProfiles(w)
    <2>1. worker[w].pc = "find" /\ worker'[w].pc = "notifyExisting"
      BY <1>13, FoundOnes DEF FindProfiles, At
    <2> QED
      BY <2>1 DEF Moves, Heart
  <1>14. CASE NotifyExisting(w)
    <2>1. worker[w].pc = "notifyExisting" /\ worker'[w].pc \in {"notifyExisting", "idle"}
      BY <1>0, <1>14, Finished, ToldOne DEF NotifyExisting, At
    <2> QED
      BY <2>1 DEF Moves, Heart
  <1>15. ASSUME Continue(w) PROVE Moves(w)
    BY <1>4, <1>5, <1>6, <1>7, <1>8, <1>9, <1>10, <1>11, <1>12, <1>13, <1>14, <1>15 DEF Continue
  <1>16. ASSUME UNCHANGED worker PROVE Moves(w)
    BY <1>16 DEF Moves
  <1>17. ASSUME \/ \E s \in Subs : RemoveSubscription(s)
                \/ \E o \in Objs, slot \in Slots : HeartbeatTimeout(o, slot)
                \/ Handler
         PROVE  UNCHANGED worker
    BY <1>17 DEF RemoveSubscription, HeartbeatTimeout, Handler, Suspend, ClearUpdated, EndFirst
  <1>18. ASSUME NEW v \in Workers, Serves(v) PROVE Moves(w)
    BY <1>1, <1>2, <1>3, <1>15, <1>18 DEF Serves
  <1> QED
    BY <1>16, <1>17, <1>18 DEF Next, Serves
------------------------------------------------------------------------------
(* What secures that an object is watched: its periodic slot, a heartbeat  *)
(* that goes on to connect it, or that nothing is promised any more.       *)
Rearming(o) ==
    \E w \in Workers : worker[w].obj = o /\ worker[w].pc \in {"disconnect", "rearm"}
Refreshing(o) ==
    \E w \in Workers : worker[w].obj = o /\ worker[w].pc \in {"updateStatus", "unsubscribe"}
Connecting(o) ==
    \E w \in Workers : worker[w].obj = o /\ worker[w].pc = "subscribe"

Secured(o) == objs[o].late \/ "periodic" \in objs[o].slots \/ Rearming(o)
Settled(o) == Secured(o) \/ objs[o].status = "SUSPENDED" \/ Refreshing(o)

(* A heartbeat is recorded only by a worker that secured the object; a     *)
(* handler that disconnects the first slot leaves an object that is secured*)
(* or suspended, or about to be met by a heartbeat.                        *)
WatchInv ==
    /\ \A o \in Objs : objs[o].is_updated => Secured(o)
    /\ \A w \in Workers, o \in Objs :
          worker[w].obj = o /\ worker[w].pc \in {"updated", "restore"} => Secured(o)
    /\ \A o \in Objs :
          task.obj = o /\ task.pc \in {"clear", "unsubscribe"} /\ task.slot = "first" =>
             Settled(o)
    /\ \A o \in Objs : objs[o] # Gone /\ objs[o].slots = {} => Settled(o) \/ Connecting(o)

(* What a step does to a profile that is there before and after.           *)
Ages(o) ==
    /\ objs[o] # Gone
    /\ objs'[o].nf = objs[o].nf
    /\ objs[o].late => objs'[o].late
    /\ "periodic" \in objs[o].slots => "periodic" \in objs'[o].slots
    /\ objs'[o].slots = {} =>
          \/ objs[o].slots = {}
          \/ \E w \in Workers : DisconnectFirst(w) /\ worker[w].obj = o
          \/ EndFirst /\ task.obj = o
    /\ objs'[o].is_updated =>
          \/ objs[o].is_updated
          \/ \E w \in Workers : SetUpdated(w) /\ worker[w].obj = o
    /\ objs[o].status = "SUSPENDED" =>
          \/ objs'[o].status = "SUSPENDED"
          \/ \E w \in Workers : RestoreStatus(w) /\ worker[w].obj = o
          \/ \E w \in Workers : worker'[w].obj = o /\ worker'[w].pc = "updateStatus"

Appears(o) == objs[o] = Gone /\ ~objs'[o].is_updated /\ Connecting(o)'

LEMMA KeptAges ==
    ASSUME NEW o, objs'[o] = objs[o], objs'[o] # Gone
    PROVE  Ages(o)
  BY DEF Ages

LEMMA RequestAges ==
    ASSUME TypeInv, NEW w \in Workers, NEW n \in Nfs,
           Register(w, n) \/ \E heartbeat \in BOOLEAN : Patch(w, n, heartbeat),
           NEW o \in Objs, objs'[o] # Gone
    PROVE  Ages(o) \/ Appears(o)
  <1>1. objs \in [Objs -> Profile] /\ worker \in [Workers -> Job]
    BY TypedState DEF Jobs
  <1>2. CASE Register(w, n)
    <2>1. PICK p \in Objs : /\ ~Alive(p)
                           /\ Begin(w, "subscribe", n, p)
                           /\ Release([objs EXCEPT ![p] = NewProfile(n)])
      BY <1>2 DEF Register
    <2>2. PICK os : os = [objs EXCEPT ![p] = NewProfile(n)]
      OBVIOUS
    <2>3. objs'[o] = os[o]
      BY <2>1, <2>2, AfterRelease
    <2>4. CASE o = p
      <3>1. objs[o] = Gone
        BY <2>1, <2>4 DEF TypeInv, Destroyed
      <3>2. ~objs'[o].is_updated
        BY <1>1, <2>2, <2>3, <2>4 DEF NewProfile
      <3>3. worker'[w].obj = o /\ worker'[w].pc = "subscribe"
        BY <1>1, <2>1, <2>4 DEF Begin
      <3> QED
        BY <3>1, <3>2, <3>3 DEF Appears, Connecting
    <2>5. CASE o # p
      BY <1>1, <2>2, <2>3, <2>5, KeptAges
    <2> QED
      BY <2>4, <2>5
  <1>3. ASSUME NEW heartbeat \in BOOLEAN, Patch(w, n, heartbeat) PROVE Ages(o)
    <2>1. CASE objs'[o] = objs[o]
      BY <2>1, KeptAges
    <2>2. CASE objs'[o] # objs[o]
      <3>1. heartbeat /\ o = db[n] /\ objs'[o] = [objs[o] EXCEPT !.status = "REGISTERED"]
        BY <1>1, <1>3, <2>2 DEF Patch
      <3>2. worker'[w].obj = o /\ worker'[w].pc = "updateStatus"
        BY <1>1, <1>3, <3>1 DEF Patch, Begin
      <3>3. objs[o] # Gone
        BY <1>3, <3>1, TypedState, AliveIsProfile DEF Patch
      <3> QED
        BY <1>1, <3>1, <3>2, <3>3 DEF Ages, Profile
    <2> QED
      BY <2>1, <2>2
  <1> QED
    BY <1>2, <1>3

LEMMA ContinueAges ==
    ASSUME TypeInv, NEW w \in Workers, Continue(w), NEW o \in Objs, objs'[o] # Gone
    PROVE  Ages(o)
  <1>1. objs \in [Objs -> Profile]
    BY TypedState
  <1>2. CASE objs'[o] = objs[o]
    BY <1>2, KeptAges
  <1>3. ASSUME objs'[o] # objs[o]
        PROVE  /\ worker[w].obj = o /\ objs[o] # Gone
               /\ \/ SubscribeFirst(w) \/ UnsubscribeFirst(w) \/ DisconnectFirst(w)
                  \/ SubscribePeriodic(w) \/ SetUpdated(w) \/ RestoreStatus(w)
    <2>1. ~Release(objs) /\ ~UNCHANGED objs
      BY <1>3, AfterRelease
    <2>6. worker[w].obj = o => objs[o] # Gone
      BY AliveIsProfile DEF Alive
    <2>2. \/ SubscribeFirst(w) \/ UnsubscribeFirst(w) \/ DisconnectFirst(w)
          \/ SubscribePeriodic(w) \/ SetUpdated(w) \/ RestoreStatus(w)
      BY <2>1 DEF Continue, StatusRegistered, NotifyRegistered, StatusDeregistered,
         NotifyDeregistered, RemoveProfile, Update, UpdateStatus, FindProfiles, NotifyExisting
    <2>3. ASSUME RestoreStatus(w) PROVE worker[w].obj = o
      <3>1. PICK os : os = [objs EXCEPT ![worker[w].obj].status = "REGISTERED"]
        OBVIOUS
      <3>2. objs'[o] = os[o]
        BY <2>3, <3>1, AfterRelease DEF RestoreStatus
      <3> QED
        BY <1>1, <1>3, <3>1, <3>2
    <2>4. ASSUME SubscribeFirst(w) \/ UnsubscribeFirst(w) \/ DisconnectFirst(w)
          PROVE  worker[w].obj = o
      BY <1>1, <1>3, <2>1, <2>4 DEF SubscribeFirst, UnsubscribeFirst, DisconnectFirst
    <2>5. ASSUME SubscribePeriodic(w) \/ SetUpdated(w) PROVE worker[w].obj = o
      BY <1>1, <1>3, <2>5 DEF SubscribePeriodic, SetUpdated
    <2> QED
      BY <2>2, <2>3, <2>4, <2>5, <2>6
  <1>4. ASSUME objs[o] # Gone, worker[w].obj = o, SubscribeFirst(w) PROVE Ages(o)
    BY <1>1, <1>4 DEF SubscribeFirst, Ages, Profile
  <1>5. ASSUME objs[o] # Gone, worker[w].obj = o, UnsubscribeFirst(w) PROVE Ages(o)
    BY <1>1, <1>2, <1>5 DEF UnsubscribeFirst, Ages, Profile
  <1>6. ASSUME objs[o] # Gone, worker[w].obj = o, DisconnectFirst(w) PROVE Ages(o)
    <2>1. objs'[o] = [objs[o] EXCEPT !.slots = @ \ {"first"}]
      BY <1>1, <1>6 DEF DisconnectFirst
    <2> QED
      BY <1>1, <1>6, <2>1 DEF Ages, Profile
  <1>7. ASSUME objs[o] # Gone, worker[w].obj = o, SubscribePeriodic(w) PROVE Ages(o)
    <2>1. PICK b : b = [objs[o] EXCEPT !.slots = IF objs[o].first_update
                                                THEN @ \cup {"periodic"} ELSE @,
                                      !.first_update = FALSE]
      OBVIOUS
    <2>2. objs'[o] = b
      BY <1>1, <1>7, <2>1 DEF SubscribePeriodic
    <2> QED
      BY <1>1, <1>7, <2>1, <2>2 DEF Ages, Profile
  <1>8. ASSUME objs[o] # Gone, worker[w].obj = o, SetUpdated(w) PROVE Ages(o)
    <2>1. PICK b : b = [objs[o] EXCEPT !.is_updated = TRUE,
                                      !.good = IF task.obj = o THEN @ ELSE 2]
      OBVIOUS
    <2>2. objs'[o] = b
      BY <1>1, <1>8, <2>1 DEF SetUpdated
    <2> QED
      BY <1>1, <1>8, <2>1, <2>2 DEF Ages, Profile
  <1>9. ASSUME objs[o] # Gone, worker[w].obj = o, RestoreStatus(w) PROVE Ages(o)
    <2>1. PICK os : os = [objs EXCEPT ![o].status = "REGISTERED"]
      OBVIOUS
    <2>2. objs'[o] = os[o]
      BY <1>9, <2>1, AfterRelease DEF RestoreStatus
    <2> QED
      BY <1>1, <1>9, <2>1, <2>2 DEF Ages, Profile
  <1> QED
    BY <1>2, <1>3, <1>4, <1>5, <1>6, <1>7, <1>8, <1>9

LEMMA TaskAges ==
    ASSUME TypeInv, NEW o \in Objs, objs'[o] # Gone,
           (\E q \in Objs, slot \in Slots : HeartbeatTimeout(q, slot)) \/ Handler
    PROVE  Ages(o)
  <1>1. objs \in [Objs -> Profile] /\ (task.obj = o => objs[o] # Gone)
    BY TypedState, AliveIsProfile DEF Alive
  <1>0. CASE objs'[o] = objs[o]
    BY <1>0, KeptAges
  <1>2. ASSUME NEW q \in Objs, NEW slot \in Slots, HeartbeatTimeout(q, slot) PROVE Ages(o)
    <2>1. CASE o = q
      <3>1. objs[o] # Gone
        BY <1>2, <2>1, GoneApart DEF HeartbeatTimeout
      <3> QED
        BY <1>1, <1>2, <2>1, <3>1 DEF HeartbeatTimeout, Ages, Profile
    <2>2. CASE o # q
      BY <1>0, <1>1, <1>2, <2>2 DEF HeartbeatTimeout
    <2> QED
      BY <2>1, <2>2
  <1>3. CASE Suspend
    <2>1. CASE o = task.obj
      BY <1>1, <1>3, <2>1 DEF Suspend, Ages, Profile
    <2>2. CASE o # task.obj
      BY <1>0, <1>1, <1>3, <2>2 DEF Suspend
    <2> QED
      BY <2>1, <2>2
  <1>4. CASE ClearUpdated
    <2>1. PICK os : os = [objs EXCEPT ![task.obj].is_updated = FALSE]
      OBVIOUS
    <2>2. objs'[o] = os[o]
      BY <1>4, <2>1, AfterRelease DEF ClearUpdated
    <2>3. CASE o = task.obj
      BY <1>1, <2>1, <2>2, <2>3 DEF Ages, Profile
    <2>4. CASE o # task.obj
      BY <1>0, <1>1, <2>1, <2>2, <2>4
    <2> QED
      BY <2>3, <2>4
  <1>5. CASE EndFirst
    <2>1. PICK os : os = [objs EXCEPT ![task.obj].slots = @ \ {"first"}]
      OBVIOUS
    <2>2. objs'[o] = os[o]
      BY <1>5, <2>1, AfterRelease DEF EndFirst
    <2>3. CASE task.obj = o
      BY <1>1, <1>5, <2>1, <2>2, <2>3 DEF Ages, Profile
    <2>4. CASE task.obj # o
      BY <1>1, <2>1, <2>2, <2>4, KeptAges
    <2> QED
      BY <2>3, <2>4
  <1> QED
    BY <1>2, <1>3, <1>4, <1>5 DEF Handler

LEMMA ObjectAges ==
    ASSUME TypeInv, Next, NEW o \in Objs, objs'[o] # Gone
    PROVE  Ages(o) \/ Appears(o)
  <1>1. ASSUME UNCHANGED objs PROVE Ages(o)
    BY <1>1, KeptAges
  <1>2. ASSUME NEW w \in Workers,
               \/ \E n \in Nfs : Deregister(w, n)
               \/ \E s \in Subs : CreateSubscription(w, s) \/ RemoveSubscription(s)
        PROVE  UNCHANGED objs
    BY <1>2 DEF Deregister, CreateSubscription, RemoveSubscription
  <1>3. ASSUME NEW s \in Subs, RemoveSubscription(s) PROVE UNCHANGED objs
    BY <1>3 DEF RemoveSubscription
  <1> QED
    BY <1>1, <1>2, <1>3, RequestAges, ContinueAges, TaskAges DEF Next

LEMMA SecuredStays ==
    ASSUME TypeInv, Next, NEW o \in Objs, Ages(o), Secured(o)
    PROVE  Secured(o)'
  <1>1. CASE objs[o].late \/ "periodic" \in objs[o].slots
    BY <1>1 DEF Ages, Secured
  <1>2. ASSUME NEW w \in Workers, worker[w].obj = o, worker[w].pc \in {"disconnect", "rearm"}
        PROVE  Secured(o)'
    <2>1. \/ worker'[w] = worker[w]
          \/ Moved(w, "disconnect", "rearm")
          \/ SubscribePeriodic(w)
      BY <1>2, WorkersMove DEF Moves, Moved, Heart
    <2>2. CASE worker'[w] = worker[w] \/ Moved(w, "disconnect", "rearm")
      BY <1>2, <2>2 DEF Moved, Secured, Rearming
    <2>3. CASE SubscribePeriodic(w)
      <3>1. PICK b : b = [objs[o] EXCEPT !.slots = IF objs[o].first_update
                                                  THEN @ \cup {"periodic"} ELSE @,
                                        !.first_update = FALSE]
        OBVIOUS
      <3>2. objs'[o] = b /\ objs[o] \in Profile
        BY <1>2, <2>3, <3>1, TypedState DEF SubscribePeriodic
      <3>3. "periodic" \in objs'[o].slots
        BY <3>1, <3>2, TypedState DEF Profile
      <3> QED
        BY <3>3 DEF Secured
    <2> QED
      BY <2>1, <2>2, <2>3
  <1> QED
    BY <1>1, <1>2 DEF Secured, Rearming

(* A heartbeat that finds no first slot to exchange leaves a periodic one, *)
(* or one that another heartbeat is about to connect.                      *)
LEMMA UnsubscribeSecures ==
    ASSUME TypeInv, Next, NEW w \in Workers, NEW o \in Objs, worker[w].obj = o,
           UnsubscribeFirst(w), Ages(o)
    PROVE  Secured(o)'
  <1>1. objs \in [Objs -> Profile] /\ Jobs /\ worker[w].pc \in ForNf
    BY TypedState DEF UnsubscribeFirst, At, ForNf
  <1>2. CASE Goto(w, "disconnect")
    <2>1. worker'[w].pc = "disconnect" /\ worker'[w].obj = o
      BY <1>1, <1>2, WentOn DEF ForNf
    <2> QED
      BY <2>1 DEF Secured, Rearming
  <1>3. CASE /\ "first" \notin objs[o].slots
             /\ objs' = [objs EXCEPT ![o].late = @ \/ Unwatched(o)]
    <2>1. CASE Unwatched(o)
      BY <1>1, <1>3, <2>1 DEF Secured, Profile
    <2>2. CASE objs[o].slots # {}
      <3>1. "periodic" \in objs[o].slots
        BY <1>1, <1>3, <2>2 DEF Profile, Slots
      <3> QED
        BY <3>1, SecuredStays DEF Secured
    <2>3. CASE Rearming(o)
      BY <2>3, SecuredStays DEF Secured
    <2> QED
      BY <2>1, <2>2, <2>3 DEF Unwatched, Rearming, At
  <1> QED
    BY <1>2, <1>3 DEF UnsubscribeFirst

LEMMA SettledStays ==
    ASSUME TypeInv, WatchInv, Next, NEW o \in Objs, Ages(o), Settled(o)
    PROVE  Settled(o)'
  <1>1. CASE Secured(o)
    BY <1>1, SecuredStays DEF Settled
  <1>2. CASE objs[o].status = "SUSPENDED"
    <2>1. CASE objs'[o].status = "SUSPENDED"
      BY <2>1 DEF Settled
    <2>2. ASSUME NEW w \in Workers, RestoreStatus(w), worker[w].obj = o PROVE Settled(o)'
      <3>1. Secured(o)
        BY <2>2 DEF RestoreStatus, At, WatchInv
      <3> QED
        BY <1>1, <3>1
    <2>3. CASE \E w \in Workers : worker'[w].obj = o /\ worker'[w].pc = "updateStatus"
      BY <2>3 DEF Settled, Refreshing
    <2> QED
      BY <1>2, <2>1, <2>2, <2>3 DEF Ages
  <1>3. ASSUME NEW w \in Workers, worker[w].obj = o,
               worker[w].pc \in {"updateStatus", "unsubscribe"}
        PROVE  Settled(o)'
    <2>1. \/ worker'[w] = worker[w]
          \/ Moved(w, "updateStatus", "unsubscribe")
          \/ UnsubscribeFirst(w)
      BY <1>3, WorkersMove DEF Moves, Moved, Heart
    <2>2. CASE worker'[w] = worker[w] \/ Moved(w, "updateStatus", "unsubscribe")
      BY <1>3, <2>2 DEF Moved, Settled, Refreshing
    <2>3. CASE UnsubscribeFirst(w)
      BY <1>3, <2>3, UnsubscribeSecures DEF Settled
    <2> QED
      BY <2>1, <2>2, <2>3
  <1> QED
    BY <1>1, <1>2, <1>3 DEF Settled, Refreshing

(* Who refers to an object after a step keeps it from being destroyed, and *)
(* a step brings in no object that was referred to before.                 *)
LEMMA ReferredAges ==
    ASSUME TypeInv, TypeInv', Next, NEW o \in Objs,
           \/ \E w \in Workers : /\ worker[w].obj = o /\ worker'[w].obj = o
                                 /\ worker'[w].pc \in ForNf
           \/ task.obj = o /\ task'.obj = o
    PROVE  Ages(o)
  <1>1. Alive(o)
    BY DEF Alive
  <1>2. objs[o] # Gone
    BY <1>1, AliveIsProfile
  <1>3. CASE \E w \in Workers : worker'[w].obj = o /\ worker'[w].pc \in ForNf
    <2>1. objs'[o].nf \in Nfs
      BY <1>3 DEF TypeInv, Referring, JobIs
    <2> QED
      BY <1>2, <2>1, ObjectAges, GoneApart DEF Appears
  <1>4. CASE task'.obj = o
    <2>1. objs'[o].nf \in Nfs
      BY <1>4, GoneApart DEF TypeInv, Referring, TaskIs
    <2> QED
      BY <1>2, <2>1, ObjectAges, GoneApart DEF Appears
  <1> QED
    BY <1>3, <1>4
------------------------------------------------------------------------------
LEMMA InitWatch == Init => WatchInv
  <1> SUFFICES ASSUME Init PROVE WatchInv
    OBVIOUS
  <1>1. \A o \in Objs : objs[o] = Gone
    BY DEF Init
  <1>2. \A w \in Workers : worker[w].pc = "idle"
    BY DEF Init, Resting
  <1>3. task.pc = "idle"
    BY DEF Init, Waiting
  <1> QED
    BY <1>1, <1>2, <1>3, GoneApart DEF WatchInv

LEMMA RecordedIsSecured ==
    ASSUME TypeInv, WatchInv, Next, NEW o \in Objs, objs'[o].is_updated
    PROVE  Secured(o)'
  <1>1. Ages(o)
    BY ObjectAges, GoneApart DEF Appears
  <1>2. Secured(o)
    <2>1. ASSUME NEW w \in Workers, SetUpdated(w), worker[w].obj = o PROVE Secured(o)
      BY <2>1 DEF SetUpdated, At, WatchInv
    <2> QED
      BY <1>1, <2>1 DEF Ages, WatchInv
  <1> QED
    BY <1>1, <1>2, SecuredStays

LEMMA HeartbeatSecures ==
    ASSUME TypeInv, TypeInv', WatchInv, Next, NEW w \in Workers,
           NEW o \in Objs, worker'[w].obj = o, worker'[w].pc \in {"updated", "restore"}
    PROVE  Secured(o)'
  <1>1. /\ worker[w].pc \in Heart /\ worker'[w].obj = worker[w].obj
        /\ \/ worker[w].pc \in {"updated", "restore"}
           \/ worker[w].pc = "unsubscribe" /\ UnsubscribeFirst(w)
           \/ worker[w].pc = "rearm"
    BY WorkersMove DEF Moves, Moved, Heart
  <1>2. o = worker[w].obj
    BY <1>1
  <1>3. worker'[w].pc \in ForNf
    BY DEF ForNf
  <1>4. Ages(o)
    BY <1>1, <1>2, <1>3, ReferredAges
  <1>5. Secured(o) => Secured(o)'
    BY <1>3, <1>4, SecuredStays
  <1>6. worker[w].pc \in {"updated", "restore"} => Secured(o)
    BY <1>2 DEF WatchInv
  <1>7. worker[w].pc = "rearm" => Secured(o)
    BY <1>2 DEF Secured, Rearming
  <1>8. UnsubscribeFirst(w) => Secured(o)'
    BY <1>2, <1>3, <1>4, UnsubscribeSecures
  <1> QED
    BY <1>1, <1>5, <1>6, <1>7, <1>8

LEMMA HandlerSettles ==
    ASSUME TypeInv, TypeInv', WatchInv, Next, NEW o \in Objs,
           task'.obj = o, task'.pc \in {"clear", "unsubscribe"}, task'.slot = "first"
    PROVE  Settled(o)'
  <1>1. task \in Tasks /\ TaskIs(task)
    BY TypedState
  <1>2. ASSUME task.obj = o, Settled(o) PROVE Settled(o)'
    <2>1. Ages(o)
      BY <1>2, ReferredAges
    <2> QED
      BY <1>2, <2>1, SettledStays
  <1>4. objs'[o].nf \in Nfs
    BY DEF TypeInv, Referring, TaskIs
  <1>5. ASSUME NEW q \in Objs, NEW slot \in Slots, HeartbeatTimeout(q, slot)
        PROVE  Settled(o)'
    <2>1. objs[o].is_updated /\ q = o
      BY <1>5 DEF HeartbeatTimeout
    <2>2. Secured(o) /\ objs[o] # Gone
      BY <1>4, <2>1, GoneApart DEF WatchInv
    <2>3. Ages(o)
      BY <1>4, <2>2, ObjectAges, GoneApart DEF Appears
    <2> QED
      BY <1>4, <2>2, <2>3, SecuredStays DEF Settled
  <1>6. CASE Suspend
    <2>1. task.obj = o /\ objs \in [Objs -> Profile]
      BY <1>1, <1>6, TypedState DEF Suspend, Tasks
    <2>2. objs'[o].status = "SUSPENDED"
      BY <1>4, <1>6, <2>1 DEF Suspend, Profile
    <2> QED
      BY <2>2 DEF Settled
  <1>7. CASE ClearUpdated
    <2>1. task.obj = o /\ task.pc = "clear" /\ task.slot = "first"
      BY <1>1, <1>7 DEF ClearUpdated, Waiting, Tasks
    <2> QED
      BY <1>2, <1>4, <2>1 DEF WatchInv
  <1>8. CASE UNCHANGED task
    BY <1>2, <1>4, <1>8 DEF WatchInv
  <1>9. ~EndFirst
    BY DEF EndFirst, Waiting
  <1>10. ASSUME ~UNCHANGED task
         PROVE  Handler \/ \E q \in Objs, slot \in Slots : HeartbeatTimeout(q, slot)
    <2>1. \A w \in Workers : ~Serves(w)
      BY <1>10 DEF Serves, Continue, Register, Deregister, Patch, CreateSubscription,
         SubscribeFirst, StatusRegistered, NotifyRegistered, StatusDeregistered,
         NotifyDeregistered, RemoveProfile, Update, UpdateStatus, UnsubscribeFirst,
         DisconnectFirst, SubscribePeriodic, SetUpdated, RestoreStatus, FindProfiles,
         NotifyExisting
    <2>2. \A s \in Subs : ~RemoveSubscription(s)
      BY <1>10 DEF RemoveSubscription
    <2> QED
      BY <2>1, <2>2 DEF Next, Serves
  <1> QED
    BY <1>5, <1>6, <1>7, <1>8, <1>9, <1>10 DEF Handler

LEMMA DisconnectedSettles ==
    ASSUME TypeInv, WatchInv, Next, NEW o \in Objs, objs'[o] # Gone, objs'[o].slots = {}
    PROVE  Settled(o)' \/ Connecting(o)'
  <1>1. CASE Appears(o)
    BY <1>1 DEF Appears
  <1>2. CASE Ages(o)
    <2>1. Settled(o) => Settled(o)'
      BY <1>2, SettledStays
    <2>2. ASSUME NEW w \in Workers, worker[w].obj = o, worker[w].pc = "subscribe"
          PROVE  Connecting(o)'
      <3>1. worker'[w] = worker[w] \/ SubscribeFirst(w)
        BY <2>2, WorkersMove DEF Moves, Moved, Heart
      <3>2. ~SubscribeFirst(w)
        BY <2>2, TypedState DEF SubscribeFirst, Profile
      <3> QED
        BY <2>2, <3>1, <3>2 DEF Connecting
    <2>3. CASE objs[o].slots = {}
      BY <1>2, <2>1, <2>2, <2>3 DEF WatchInv, Connecting, Ages
    <2>4. ASSUME NEW w \in Workers, DisconnectFirst(w), worker[w].obj = o
          PROVE  Settled(o)
      BY <2>4 DEF DisconnectFirst, At, Settled, Secured, Rearming
    <2>5. ASSUME EndFirst, task.obj = o
          PROVE  Settled(o)
      BY <2>5, TypedState DEF EndFirst, TaskIs, WatchInv
    <2> QED
      BY <1>2, <2>1, <2>3, <2>4, <2>5 DEF Ages
  <1> QED
    BY <1>1, <1>2, ObjectAges

LEMMA NextWatch == TypeInv /\ WatchInv /\ [Next]_vars => WatchInv'
  <1> SUFFICES ASSUME TypeInv, WatchInv, [Next]_vars PROVE WatchInv'
    OBVIOUS
  <1>1. CASE Next
    <2>1. TypeInv'
      BY NextTypes
    <2> QED
      BY <1>1, <2>1, RecordedIsSecured, HeartbeatSecures, HandlerSettles, DisconnectedSettles
         DEF WatchInv
  <1>2. CASE UNCHANGED vars
    BY <1>2 DEF vars, WatchInv, Settled, Secured, Rearming, Refreshing, Connecting
  <1> QED
    BY <1>1, <1>2

(* While the NRF takes an NF for registered, a slot is connected that will *)
(* suspend it, in every interleaving of heartbeats, time-outs and new      *)
(* registrations, unless its first heartbeat was late                      *)
(* (handle_update_nf_instance, subscribe_heartbeat_timeout_nfupdate).      *)
THEOREM RegisteredAreWatched == Spec => []Watched
  <1>1. TypeInv /\ WatchInv => Watched
    <2> SUFFICES ASSUME TypeInv, WatchInv, NEW n \in Nfs, db[n] # NoObj, Unwatched(db[n])
                 PROVE  \/ objs[db[n]].status = "SUSPENDED"
                        \/ objs[db[n]].late
                        \/ \E w \in Workers :
                              /\ worker[w].obj = db[n]
                              /\ worker[w].pc \in {"subscribe", "updateStatus", "unsubscribe"}
      BY DEF Watched
    <2>1. PICK o : o = db[n]
      OBVIOUS
    <2>2. o \in Objs /\ objs[o] # Gone
      BY <2>1, TypedState, AliveIsProfile
    <2>3. Settled(o) \/ Connecting(o)
      BY <2>1, <2>2 DEF WatchInv, Unwatched
    <2>4. ~Rearming(o) /\ objs[o].slots = {}
      BY <2>1 DEF Unwatched, Rearming, At
    <2> QED
      BY <2>1, <2>3, <2>4 DEF Settled, Secured, Refreshing, Connecting
  <1> QED
    BY <1>1, InitTypes, NextTypes, InitWatch, NextWatch, PTL DEF Spec
------------------------------------------------------------------------------
(* What a worker is doing for an NF or for a subscriber, as far as it      *)
(* matters to what subscriber s knows of NF n.                             *)
Joining == {"subscribe", "registered", "notifyRegistered"}
Leaving == {"deregistered", "notifyDeregistered", "remove"}
Talking == Joining \cup Leaving \cup ForSub

Registers(w, n) == worker[w].who = n /\ worker[w].pc \in Joining
Deregisters(w, n) == worker[w].who = n /\ worker[w].pc \in Leaving
Busy(w, n) == Registers(w, n) \/ Deregisters(w, n)
Misses(w, s, n) ==
    worker[w].who = n /\ worker[w].pc = "notifyRegistered" /\ s \notin worker[w].to
Spares(w, s, n) ==
    worker[w].who = n /\ worker[w].pc = "notifyDeregistered" /\ s \notin worker[w].to
Removes(w, n) == worker[w].who = n /\ worker[w].pc = "remove"

Finds(w, s) == worker[w].who = s /\ worker[w].pc = "find"
Meets(w, s) == worker[w].who = s /\ worker[w].pc = "notifyExisting"
Asks(w, s) == Finds(w, s) \/ Meets(w, s)
Tells(w, s, n) == Meets(w, s) /\ \E o \in worker[w].to : objs[o].nf = n

Knows(s, n) == n \in told[s] \/ \E w \in Workers : Finds(w, s) \/ Tells(w, s, n)

(* What keeps the knowledge of a subscriber in step with the map: who is   *)
(* told of a registration is told of the deregistration, before the profile*)
(* is removed, and nobody asks meanwhile.                                  *)
Tracked(s, n) ==
    /\ \A v, w \in Workers : Deregisters(v, n) => ~Asks(w, s)
    /\ \A w \in Workers : ~Spares(w, s, n)
    /\ \A w \in Workers : Removes(w, n) => n \notin told[s]
    /\ \A w \in Workers : Misses(w, s, n) => Knows(s, n)
    /\ \A w \in Workers : Tells(w, s, n) => db[n] # NoObj
    /\ n \in told[s] => db[n] # NoObj
    /\ db[n] # NoObj => Knows(s, n) \/ \E w \in Workers : Busy(w, n)

(* An NF is served by one worker at a time, and has a profile meanwhile.   *)
OneAtATime ==
    /\ \A v, w \in Workers, n \in Nfs : Busy(v, n) /\ Busy(w, n) => v = w
    /\ \A w \in Workers, n \in Nfs : Busy(w, n) => db[n] # NoObj
Subscribed ==
    /\ \A w \in Workers, s \in Subs : Asks(w, s) => s \in subs
    /\ \A s \in Subs : s \notin subs => told[s] = {}

KnowInv ==
    /\ OneAtATime
    /\ Subscribed
    /\ \A s \in Subs, n \in Nfs : s \in subs /\ <<s, n>> \notin crossed => Tracked(s, n)

LEMMA Roles ==
    ASSUME NEW w, NEW s, NEW n
    PROVE  /\ Misses(w, s, n) => Registers(w, n)
           /\ Spares(w, s, n) => Deregisters(w, n)
           /\ Removes(w, n) => Deregisters(w, n)
           /\ Tells(w, s, n) => Meets(w, s)
  BY DEF Misses, Spares, Removes, Tells, Registers, Deregisters, Joining, Leaving

(* A worker goes on doing the same, as far as s and n are concerned.       *)
Same(w, s, n) ==
    /\ Registers(w, n)' <=> Registers(w, n)
    /\ Deregisters(w, n)' <=> Deregisters(w, n)
    /\ Misses(w, s, n)' <=> Misses(w, s, n)
    /\ Spares(w, s, n)' <=> Spares(w, s, n)
    /\ Removes(w, n)' <=> Removes(w, n)
    /\ Finds(w, s)' <=> Finds(w, s)
    /\ Meets(w, s)' <=> Meets(w, s)
    /\ Tells(w, s, n)' <=> Tells(w, s, n)

LEMMA PairStays ==
    ASSUME NEW s, NEW n, Tracked(s, n), \A w \in Workers : Same(w, s, n),
           n \in told'[s] <=> n \in told[s],
           db'[n] = NoObj <=> db[n] = NoObj
    PROVE  Tracked(s, n)'
  <1>1. Knows(s, n)' <=> Knows(s, n)
    BY DEF Same, Knows
  <1> QED
    BY <1>1 DEF Same, Tracked, Asks, Busy

LEMMA NfStays ==
    ASSUME TypeInv, TypeInv', Next, NEW w \in Workers,
           worker[w].pc = "notifyExisting", worker'[w].pc = "notifyExisting",
           NEW o \in worker[w].to, o \in worker'[w].to
    PROVE  objs'[o].nf = objs[o].nf
  <1>1. o \in Objs /\ Alive(o)
    BY DEF TypeInv, Referring, JobIs, ForSub, Alive, At
  <1>2. objs'[o].nf \in Nfs
    BY DEF TypeInv, Referring, JobIs, ForSub
  <1>3. objs[o] # Gone /\ objs'[o] # Gone
    BY <1>1, <1>2, AliveIsProfile, GoneApart
  <1> QED
    BY <1>1, <1>3, ObjectAges DEF Ages, Appears

LEMMA SameRole ==
    ASSUME TypeInv, TypeInv', Next, NEW w \in Workers, worker'[w] = worker[w], NEW s, NEW n
    PROVE  Same(w, s, n)
  <1>1. Tells(w, s, n)' <=> Tells(w, s, n)
    BY NfStays DEF Tells, Meets
  <1> QED
    BY <1>1 DEF Same, Registers, Deregisters, Misses, Spares, Removes, Finds, Meets

LEMMA NoRole ==
    ASSUME NEW w, worker[w].pc \notin Talking, worker'[w].pc \notin Talking, NEW s, NEW n
    PROVE  Same(w, s, n)
  BY DEF Same, Registers, Deregisters, Misses, Spares, Removes, Finds, Meets, Tells,
     Talking, Joining, Leaving, ForSub

LEMMA OtherRole ==
    ASSUME NEW w, NEW s, NEW n,
           ~Registers(w, n) /\ ~Deregisters(w, n) /\ ~Asks(w, s),
           ~Registers(w, n)' /\ ~Deregisters(w, n)' /\ ~Asks(w, s)'
    PROVE  Same(w, s, n)
  BY DEF Same, Registers, Deregisters, Misses, Spares, Removes, Asks, Tells, Joining, Leaving

LEMMA QuietIs ==
    ASSUME NEW n
    PROVE  /\ Registering(n) <=> \E w \in Workers : Registers(w, n)
           /\ Deregistering(n) <=> \E w \in Workers : Deregisters(w, n)
           /\ Quiet(n) <=> \A w \in Workers : ~Busy(w, n)
           /\ Subscribing(n) <=> \E w \in Workers : Asks(w, n)
  BY DEF Quiet, Registering, Deregistering, Subscribing, Serving, Busy, Registers,
     Deregisters, Joining, Leaving, Asks, Finds, Meets

LEMMA OthersSame ==
    ASSUME TypeInv, TypeInv', Next, NEW w \in Workers, Serves(w), NEW s, NEW n
    PROVE  \A v \in Workers \ {w} : Same(v, s, n)
  BY OthersStay, SameRole

(* A worker begins to serve an NF that no other serves, and the profile is *)
(* removed only by the worker that serves the NF.                          *)
LEMMA OneGoesOn ==
    ASSUME TypeInv, TypeInv', KnowInv, Next, NEW w \in Workers, Serves(w),
           \A n \in Nfs : Busy(w, n)' => /\ Busy(w, n) \/ \A v \in Workers : ~Busy(v, n)
                                         /\ db'[n] # NoObj,
           \A n \in Nfs : db'[n] = NoObj => db[n] = NoObj \/ Busy(w, n)
    PROVE  OneAtATime'
  <1>1. \A v \in Workers \ {w}, n \in Nfs : Busy(v, n)' => Busy(v, n)
    <2> SUFFICES ASSUME NEW v \in Workers \ {w}, NEW n \in Nfs PROVE Busy(v, n)' => Busy(v, n)
      OBVIOUS
    <2>1. Same(v, n, n)
      BY OthersSame
    <2> QED
      BY <2>1 DEF Same, Busy
  <1>2. ASSUME NEW v \in Workers, NEW u \in Workers, NEW n \in Nfs, Busy(v, n)', Busy(u, n)'
        PROVE  v = u
    BY <1>1, <1>2 DEF KnowInv, OneAtATime
  <1>3. ASSUME NEW v \in Workers, NEW n \in Nfs, Busy(v, n)'
        PROVE  db'[n] # NoObj
    BY <1>1, <1>3 DEF KnowInv, OneAtATime
  <1> QED
    BY <1>2, <1>3 DEF OneAtATime

LEMMA SubscribersGoOn ==
    ASSUME TypeInv, TypeInv', KnowInv, Next, NEW w \in Workers, Serves(w),
           \A s \in Subs : Asks(w, s)' => s \in subs',
           subs \subseteq subs',
           \A s \in Subs : s \notin subs' => told'[s] = told[s]
    PROVE  Subscribed'
  <1>1. \A v \in Workers \ {w}, s \in Subs : Asks(v, s)' => Asks(v, s)
    <2> SUFFICES ASSUME NEW v \in Workers \ {w}, NEW s \in Subs PROVE Asks(v, s)' => Asks(v, s)
      OBVIOUS
    <2>1. Same(v, s, s)
      BY OthersSame
    <2> QED
      BY <2>1 DEF Same, Asks
  <1> QED
    BY <1>1 DEF KnowInv, Subscribed
------------------------------------------------------------------------------
(* Steps that tell no subscriber anything, and leave alone which NFs have a*)
(* profile.                                                                *)
LEMMA KnowCalm ==
    ASSUME TypeInv, TypeInv', KnowInv, Next, UNCHANGED <<subs, told, crossed>>,
           \A n \in Nfs : db'[n] = NoObj <=> db[n] = NoObj,
           \A w \in Workers :
              \/ worker'[w] = worker[w]
              \/ worker[w].pc \notin Talking /\ worker'[w].pc \notin Talking
              \/ Moved(w, "subscribe", "registered") /\ worker'[w].who = worker[w].who
    PROVE  KnowInv'
  <1>1. ASSUME NEW w \in Workers, NEW s, NEW n PROVE Same(w, s, n)
    <2>1. CASE Moved(w, "subscribe", "registered") /\ worker'[w].who = worker[w].who
      BY <2>1 DEF Moved, Same, Registers, Deregisters, Misses, Spares, Removes, Finds,
         Meets, Tells, Joining, Leaving
    <2> QED
      BY <2>1, SameRole, NoRole
  <1>2. \A n : \A w \in Workers : Busy(w, n)' <=> Busy(w, n)
    BY <1>1 DEF Same, Busy
  <1>3. \A s : \A w \in Workers : Asks(w, s)' <=> Asks(w, s)
    BY <1>1 DEF Same, Asks
  <1>4. OneAtATime' /\ Subscribed'
    BY <1>2, <1>3 DEF KnowInv, OneAtATime, Subscribed
  <1>5. ASSUME NEW s \in Subs, NEW n \in Nfs, s \in subs', <<s, n>> \notin crossed'
        PROVE  Tracked(s, n)'
    BY <1>1, <1>5, PairStays DEF KnowInv
  <1> QED
    BY <1>4, <1>5 DEF KnowInv

LEMMA QuietSteps ==
    ASSUME TypeInv, TypeInv', KnowInv, Next, NEW w \in Workers,
           \/ \E n \in Nfs, heartbeat \in BOOLEAN : Patch(w, n, heartbeat)
           \/ SubscribeFirst(w) \/ Update(w) \/ UpdateStatus(w)
           \/ UnsubscribeFirst(w) \/ DisconnectFirst(w) \/ SubscribePeriodic(w)
           \/ SetUpdated(w) \/ RestoreStatus(w)
    PROVE  KnowInv'
  <1>1. Serves(w) /\ Jobs
    BY TypedState DEF Serves, Continue
  <1>2. UNCHANGED <<subs, told, crossed>>
    BY DEF Patch, SubscribeFirst, Update, UpdateStatus, UnsubscribeFirst, DisconnectFirst,
       SubscribePeriodic, SetUpdated, RestoreStatus
  <1>3. ASSUME NEW n \in Nfs PROVE db'[n] = NoObj <=> db[n] = NoObj
    <2>1. CASE UNCHANGED db
      BY <2>1
    <2>2. ASSUME Update(w) \/ UpdateStatus(w) PROVE db'[n] = NoObj <=> db[n] = NoObj
      <3>1. UpdateProfile(worker[w].who, worker[w].obj) /\ worker[w].obj # NoObj
        BY <2>2, TypedState, GoneApart DEF Update, UpdateStatus, At, ForNf
      <3>2. db \in [Nfs -> Objs \cup {NoObj}]
        BY TypedState
      <3> QED
        BY <3>1, <3>2 DEF UpdateProfile
    <2> QED
      BY <2>1, <2>2 DEF Patch, SubscribeFirst, UnsubscribeFirst, DisconnectFirst,
         SubscribePeriodic, SetUpdated, RestoreStatus
  <1>4. \/ worker[w].pc \notin Talking /\ worker'[w].pc \notin Talking
        \/ Moved(w, "subscribe", "registered") /\ worker'[w].who = worker[w].who
    <2>1. CASE \E n \in Nfs, heartbeat \in BOOLEAN : Patch(w, n, heartbeat)
      <3>1. PICK pc \in {"updateStatus", "update"} : \E n, o : Begin(w, pc, n, o)
        BY <2>1 DEF Patch
      <3>2. worker[w].pc = "idle" /\ worker'[w].pc = pc
        BY <1>1, <3>1 DEF Begin, At, Jobs
      <3> QED
        BY <3>2 DEF Talking, Joining, Leaving, ForSub
    <2>2. CASE SubscribeFirst(w)
      <3>1. Moved(w, "subscribe", "registered") /\ worker'[w].who = worker[w].who
        BY <1>1, <2>2, WentOn DEF SubscribeFirst, At, Moved, ForNf
      <3> QED
        BY <3>1
    <2>3. ASSUME Update(w) \/ RestoreStatus(w)
          PROVE  worker[w].pc \notin Talking /\ worker'[w].pc \notin Talking
      <3>1. worker[w].pc \in {"update", "restore"} /\ worker'[w].pc = "idle"
        BY <1>1, <2>3, Finished DEF Update, RestoreStatus, At
      <3> QED
        BY <3>1 DEF Talking, Joining, Leaving, ForSub
    <2>4. ASSUME \/ UpdateStatus(w) \/ UnsubscribeFirst(w) \/ DisconnectFirst(w)
                 \/ SubscribePeriodic(w) \/ SetUpdated(w)
          PROVE  worker[w].pc \notin Talking /\ worker'[w].pc \notin Talking
      <3>1. worker[w].pc \in {"updateStatus", "unsubscribe", "disconnect", "rearm", "updated"}
        BY <2>4 DEF UpdateStatus, UnsubscribeFirst, DisconnectFirst, SubscribePeriodic,
           SetUpdated, At
      <3>2. PICK pc \in {"unsubscribe", "disconnect", "rearm", "updated", "restore"} : Goto(w, pc)
        BY <2>4 DEF UpdateStatus, UnsubscribeFirst, DisconnectFirst, SubscribePeriodic,
           SetUpdated
      <3>3. worker'[w].pc = pc
        BY <1>1, <3>1, <3>2, WentOn DEF ForNf
      <3> QED
        BY <3>1, <3>3 DEF Talking, Joining, Leaving, ForSub
    <2> QED
      BY <2>1, <2>2, <2>3, <2>4
  <1>5. \A v \in Workers \ {w} : worker'[v] = worker[v]
    BY <1>1, OthersStay
  <1> QED
    BY <1>2, <1>3, <1>4, <1>5, KnowCalm
------------------------------------------------------------------------------
(* A registration.                                                         *)
LEMMA RegisterKnows ==
    ASSUME TypeInv, TypeInv', KnowInv, Next, NEW w \in Workers, NEW m \in Nfs, Register(w, m)
    PROVE  KnowInv'
  <1>1. Serves(w) /\ Jobs /\ UNCHANGED <<subs, told, crossed>>
    BY TypedState DEF Serves, Register
  <1>2. \A v \in Workers : ~Busy(v, m)
    BY QuietIs DEF Register
  <1>3. PICK o \in Objs : Begin(w, "subscribe", m, o) /\ db' = [db EXCEPT ![m] = o]
    BY DEF Register
  <1>4. /\ db'[m] = o /\ o # NoObj
        /\ \A n \in Nfs \ {m} : db'[n] = db[n]
    BY <1>3, TypedState, GoneApart
  <1>5. worker[w].pc = "idle" /\ worker'[w].pc = "subscribe" /\ worker'[w].who = m
    BY <1>1, <1>3 DEF Begin, At, Jobs
  <1>6. /\ Registers(w, m)' /\ \A n : n # m => ~Registers(w, n)'
        /\ \A n : ~Deregisters(w, n)' /\ ~Busy(w, n) /\ ~Asks(w, n) /\ ~Asks(w, n)'
        /\ \A s, n : ~Misses(w, s, n)'
    BY <1>5 DEF Registers, Deregisters, Misses, Busy, Asks, Finds, Meets, Joining, Leaving
  <1>7. OneAtATime'
    BY <1>1, <1>2, <1>4, <1>6, OneGoesOn DEF Busy
  <1>8. Subscribed'
    BY <1>1, <1>6, SubscribersGoOn
  <1>9. ASSUME NEW s \in Subs, NEW n \in Nfs, s \in subs', <<s, n>> \notin crossed'
        PROVE  Tracked(s, n)'
    <2>1. Tracked(s, n)
      BY <1>1, <1>9 DEF KnowInv
    <2>2. CASE n # m
      <3>1. Same(w, s, n)
        BY <1>6, <2>2, OtherRole DEF Busy
      <3> QED
        BY <1>1, <1>4, <2>1, <2>2, <3>1, OthersSame, PairStays
    <2>3. CASE n = m
      <3>1. \A v \in Workers : ~Deregisters(v, m)' /\ ~Misses(v, s, m)'
        BY <1>1, <1>2, <1>6, OthersSame, Roles DEF Same, Busy
      <3>2. \A v \in Workers : ~Spares(v, s, m)' /\ ~Removes(v, m)'
        BY <3>1 DEF Spares, Removes, Deregisters, Leaving
      <3> QED
        BY <1>4, <1>6, <2>3, <3>1, <3>2 DEF Tracked, Busy
    <2> QED
      BY <2>2, <2>3
  <1> QED
    BY <1>7, <1>8, <1>9 DEF KnowInv

LEMMA SubscribersLookedUp ==
    ASSUME TypeInv, NEW w \in Workers, worker[w].pc \in ForNf, NEW pc \in ForNf,
           worker' = [worker EXCEPT ![w].pc = pc, ![w].to = SubscriptionList(worker[w].who)]
    PROVE  /\ worker'[w].pc = pc /\ worker'[w].who = worker[w].who
           /\ worker'[w].to = SubscriptionList(worker[w].who)
  <1>1. PICK ss \in SUBSET Subs : ss = SubscriptionList(worker[w].who)
    BY SubscribersListed
  <1>2. worker \in [Workers -> Job] /\ worker[w] \in Job
    BY TypedState DEF Jobs
  <1>3. PICK j : j = [worker[w] EXCEPT !.pc = pc, !.to = ss]
    OBVIOUS
  <1>4. worker'[w] = j
    BY <1>1, <1>2, <1>3
  <1>5. j.pc = pc /\ j.who = worker[w].who /\ j.to = ss
    BY <1>2, <1>3 DEF Job
  <1> QED
    BY <1>1, <1>4, <1>5

(* The subscribers looked up while the NF has a profile are all of them.   *)
LEMMA StatusRegisteredKnows ==
    ASSUME TypeInv, TypeInv', KnowInv, Next, NEW w \in Workers, StatusRegistered(w)
    PROVE  KnowInv'
  <1>1. Serves(w) /\ Jobs /\ UNCHANGED <<db, subs, told, crossed>>
    BY TypedState DEF Serves, Continue, StatusRegistered
  <1>2. PICK m \in Nfs : m = worker[w].who
    BY TypedState DEF StatusRegistered, At, ForNf
  <1>3. worker[w].pc = "registered"
    BY DEF StatusRegistered, At
  <1>4. /\ worker'[w].pc = "notifyRegistered" /\ worker'[w].who = m
        /\ worker'[w].to = SubscriptionList(m)
    BY <1>2, <1>3, SubscribersLookedUp DEF StatusRegistered, ForNf
  <1>5. /\ Registers(w, m) /\ Registers(w, m)'
        /\ \A n : n # m => ~Registers(w, n) /\ ~Registers(w, n)'
        /\ \A n : ~Deregisters(w, n) /\ ~Deregisters(w, n)' /\ ~Asks(w, n) /\ ~Asks(w, n)'
    BY <1>2, <1>3, <1>4 DEF Registers, Deregisters, Asks, Finds, Meets, Joining, Leaving
  <1>6. db[m] # NoObj
    BY <1>5 DEF KnowInv, OneAtATime, Busy
  <1>7. \A s \in subs : ~Misses(w, s, m)'
    BY <1>4, <1>6 DEF Misses, SubscriptionList
  <1>8. OneAtATime'
    BY <1>1, <1>5, <1>6, OneGoesOn DEF Busy
  <1>9. Subscribed'
    BY <1>1, <1>5, SubscribersGoOn
  <1>10. ASSUME NEW s \in Subs, NEW n \in Nfs, s \in subs', <<s, n>> \notin crossed'
         PROVE  Tracked(s, n)'
    <2>1. Tracked(s, n)
      BY <1>1, <1>10 DEF KnowInv
    <2>2. CASE n # m
      <3>1. Same(w, s, n)
        BY <1>5, <2>2, OtherRole
      <3> QED
        BY <1>1, <2>1, <3>1, OthersSame, PairStays
    <2>3. CASE n = m
      <3>1. \A v \in Workers \ {w} : Same(v, s, m)
        BY <1>1, OthersSame
      <3>2. ~Misses(w, s, m)' /\ ~Misses(w, s, m)
        BY <1>1, <1>3, <1>7, <1>10 DEF Misses
      <3>3. /\ ~Spares(w, s, m)' /\ ~Removes(w, m)' /\ ~Tells(w, s, m)'
            /\ ~Finds(w, s)' /\ ~Finds(w, s) /\ ~Tells(w, s, m)
        BY <1>5, Roles DEF Asks, Spares, Removes, Tells, Deregisters, Leaving
      <3>4. Same(w, s, m)
        BY <1>5, <3>2, <3>3, Roles DEF Same, Asks
      <3> QED
        BY <1>1, <2>1, <2>3, <3>1, <3>4, PairStays
    <2> QED
      BY <2>2, <2>3
  <1> QED
    BY <1>8, <1>9, <1>10 DEF KnowInv

LEMMA NotifyRegisteredKnows ==
    ASSUME TypeInv, TypeInv', KnowInv, Next, NEW w \in Workers, NotifyRegistered(w)
    PROVE  KnowInv'
  <1>1. Serves(w) /\ Jobs /\ UNCHANGED <<db, subs>>
    BY TypedState DEF Serves, Continue, NotifyRegistered
  <1>2. PICK m \in Nfs : m = worker[w].who
    BY TypedState DEF NotifyRegistered, At, ForNf
  <1>3. worker[w].pc = "notifyRegistered" /\ worker'[w].pc = "idle"
    BY <1>1, Finished DEF NotifyRegistered, At
  <1>4. /\ crossed' = crossed \ (worker[w].to \X {m})
        /\ \A s \in Subs : told'[s] = IF s \in worker[w].to \cap subs
                                      THEN told[s] \cup {m} ELSE told[s]
    BY <1>2 DEF NotifyRegistered
  <1>5. /\ Registers(w, m)
        /\ \A n : n # m => ~Registers(w, n)
        /\ \A n : /\ ~Registers(w, n)' /\ ~Deregisters(w, n) /\ ~Deregisters(w, n)'
                  /\ ~Asks(w, n) /\ ~Asks(w, n)'
    BY <1>2, <1>3 DEF Registers, Deregisters, Asks, Finds, Meets, Joining, Leaving
  <1>6. db[m] # NoObj /\ \A v \in Workers \ {w} : ~Busy(v, m)
    BY <1>5 DEF KnowInv, OneAtATime, Busy
  <1>7. OneAtATime'
    BY <1>1, <1>5, OneGoesOn DEF Busy
  <1>8. Subscribed'
    BY <1>1, <1>4, <1>5, SubscribersGoOn
  <1>9. ASSUME NEW s \in Subs, NEW n \in Nfs, s \in subs', <<s, n>> \notin crossed'
        PROVE  Tracked(s, n)'
    <2>1. \A v \in Workers \ {w} : Same(v, s, n)
      BY <1>1, OthersSame
    <2>2. CASE n # m
      <3>1. Same(w, s, n)
        BY <1>5, <2>2, OtherRole
      <3>2. Tracked(s, n)
        BY <1>1, <1>4, <1>9, <2>2 DEF KnowInv
      <3>3. n \in told'[s] <=> n \in told[s]
        BY <1>4, <2>2
      <3> QED
        BY <1>1, <2>1, <3>1, <3>2, <3>3, PairStays
    <2>3. CASE n = m
      <3>1. \A v \in Workers : ~Registers(v, m)' /\ ~Deregisters(v, m)'
        BY <1>5, <1>6, <2>1, <2>3 DEF Same, Busy
      <3>2. \A v \in Workers : ~Misses(v, s, m)' /\ ~Spares(v, s, m)' /\ ~Removes(v, m)'
        BY <3>1 DEF Misses, Spares, Removes, Registers, Deregisters, Joining, Leaving
      <3>3. Knows(s, m)'
        <4>1. CASE s \in worker[w].to
          BY <1>1, <1>4, <1>9, <4>1 DEF Knows
        <4>2. CASE s \notin worker[w].to
          <5>1. Tracked(s, m) /\ Misses(w, s, m)
            BY <1>1, <1>2, <1>3, <1>4, <1>9, <2>3, <4>2 DEF KnowInv, Misses
          <5>2. Knows(s, m) /\ told'[s] = told[s]
            BY <1>4, <4>2, <5>1 DEF Tracked
          <5>3. ~Finds(w, s) /\ ~Tells(w, s, m)
            BY <1>5, Roles DEF Asks
          <5> QED
            BY <2>1, <2>3, <5>2, <5>3 DEF Knows, Same
        <4> QED
          BY <4>1, <4>2
      <3> QED
        BY <1>1, <1>6, <2>3, <3>1, <3>2, <3>3 DEF Tracked
    <2> QED
      BY <2>2, <2>3
  <1> QED
    BY <1>7, <1>8, <1>9 DEF KnowInv
------------------------------------------------------------------------------
(* A deregistration.                                                       *)
LEMMA DeregisterKnows ==
    ASSUME TypeInv, TypeInv', KnowInv, Next, NEW w \in Workers, NEW m \in Nfs, Deregister(w, m)
    PROVE  KnowInv'
  <1>1. Serves(w) /\ Jobs /\ UNCHANGED <<db, subs, told>>
    BY TypedState DEF Serves, Deregister
  <1>2. (\A v \in Workers : ~Busy(v, m)) /\ db[m] # NoObj
    BY QuietIs DEF Deregister
  <1>3. worker[w].pc = "idle" /\ worker'[w].pc = "deregistered" /\ worker'[w].who = m
    BY <1>1 DEF Deregister, Begin, At, Jobs
  <1>4. /\ Deregisters(w, m)' /\ \A n : n # m => ~Deregisters(w, n)'
        /\ \A n : ~Registers(w, n)' /\ ~Busy(w, n) /\ ~Asks(w, n) /\ ~Asks(w, n)'
        /\ ~Removes(w, m)' /\ \A s : ~Spares(w, s, m)'
    BY <1>3 DEF Registers, Deregisters, Busy, Asks, Finds, Meets, Removes, Spares,
       Joining, Leaving
  <1>5. OneAtATime'
    BY <1>1, <1>2, <1>4, OneGoesOn DEF Busy
  <1>6. Subscribed'
    BY <1>1, <1>4, SubscribersGoOn
  <1>7. ASSUME NEW s \in Subs, NEW n \in Nfs, s \in subs', <<s, n>> \notin crossed'
        PROVE  Tracked(s, n)'
    <2>1. Tracked(s, n) /\ (n = m => ~Subscribing(s))
      BY <1>1, <1>7 DEF KnowInv, Deregister
    <2>2. \A v \in Workers \ {w} : Same(v, s, n)
      BY <1>1, OthersSame
    <2>3. CASE n # m
      <3>1. Same(w, s, n)
        BY <1>4, <2>3, OtherRole DEF Busy
      <3> QED
        BY <1>1, <2>1, <2>2, <3>1, PairStays
    <2>4. CASE n = m
      <3>1. \A v \in Workers : ~Asks(v, s)'
        BY <1>4, <2>1, <2>2, <2>4, QuietIs DEF Same, Asks
      <3>2. \A v \in Workers : /\ ~Misses(v, s, m)' /\ ~Spares(v, s, m)' /\ ~Removes(v, m)'
                               /\ ~Tells(v, s, m)'
        <4> SUFFICES ASSUME NEW v \in Workers
                     PROVE  /\ ~Misses(v, s, m)' /\ ~Spares(v, s, m)' /\ ~Removes(v, m)'
                            /\ ~Tells(v, s, m)'
          OBVIOUS
        <4>1. ~Tells(v, s, m)'
          BY <3>1 DEF Tells, Asks
        <4>2. CASE v = w
          <5>1. ~Misses(w, s, m)'
            BY <1>3 DEF Misses
          <5> QED
            BY <1>4, <4>1, <4>2, <5>1
        <4>3. CASE v # w
          BY <1>2, <2>2, <2>4, <4>1, <4>3, Roles DEF Same, Busy
        <4> QED
          BY <4>2, <4>3
      <3> QED
        BY <1>1, <1>2, <1>4, <2>4, <3>1, <3>2 DEF Tracked, Busy
    <2> QED
      BY <2>3, <2>4
  <1> QED
    BY <1>5, <1>6, <1>7 DEF KnowInv

LEMMA StatusDeregisteredKnows ==
    ASSUME TypeInv, TypeInv', KnowInv, Next, NEW w \in Workers, StatusDeregistered(w)
    PROVE  KnowInv'
  <1>1. Serves(w) /\ Jobs /\ UNCHANGED <<db, subs, told, crossed>>
    BY TypedState DEF Serves, Continue, StatusDeregistered
  <1>2. PICK m \in Nfs : m = worker[w].who
    BY TypedState DEF StatusDeregistered, At, ForNf
  <1>3. worker[w].pc = "deregistered"
    BY DEF StatusDeregistered, At
  <1>4. /\ worker'[w].pc = "notifyDeregistered" /\ worker'[w].who = m
        /\ worker'[w].to = SubscriptionList(m)
    BY <1>2, <1>3, SubscribersLookedUp DEF StatusDeregistered, ForNf
  <1>5. /\ Deregisters(w, m) /\ Deregisters(w, m)'
        /\ \A n : n # m => ~Deregisters(w, n) /\ ~Deregisters(w, n)'
        /\ \A n : ~Registers(w, n) /\ ~Registers(w, n)' /\ ~Asks(w, n) /\ ~Asks(w, n)'
        /\ ~Removes(w, m) /\ ~Removes(w, m)'
    BY <1>2, <1>3, <1>4
       DEF Registers, Deregisters, Asks, Finds, Meets, Removes, Joining, Leaving
  <1>6. db[m] # NoObj
    BY <1>5 DEF KnowInv, OneAtATime, Busy
  <1>7. \A s \in subs : ~Spares(w, s, m)'
    BY <1>4, <1>6 DEF Spares, SubscriptionList
  <1>8. OneAtATime'
    BY <1>1, <1>5, <1>6, OneGoesOn DEF Busy
  <1>9. Subscribed'
    BY <1>1, <1>5, SubscribersGoOn
  <1>10. ASSUME NEW s \in Subs, NEW n \in Nfs, s \in subs', <<s, n>> \notin crossed'
         PROVE  Tracked(s, n)'
    <2>1. Tracked(s, n)
      BY <1>1, <1>10 DEF KnowInv
    <2>2. CASE n # m
      <3>1. Same(w, s, n)
        BY <1>5, <2>2, OtherRole
      <3> QED
        BY <1>1, <2>1, <3>1, OthersSame, PairStays
    <2>3. CASE n = m
      <3>1. ~Spares(w, s, m)' /\ ~Spares(w, s, m)
        BY <1>1, <1>3, <1>7, <1>10 DEF Spares
      <3>2. /\ ~Misses(w, s, m)' /\ ~Tells(w, s, m)' /\ ~Finds(w, s)'
            /\ ~Misses(w, s, m) /\ ~Tells(w, s, m) /\ ~Finds(w, s)
        BY <1>3, <1>4, <1>5 DEF Asks, Misses, Tells
      <3>3. Same(w, s, m)
        BY <1>5, <3>1, <3>2 DEF Same, Asks
      <3> QED
        BY <1>1, <2>1, <2>3, <3>3, OthersSame, PairStays
    <2> QED
      BY <2>2, <2>3
  <1> QED
    BY <1>8, <1>9, <1>10 DEF KnowInv

LEMMA NotifyDeregisteredKnows ==
    ASSUME TypeInv, TypeInv', KnowInv, Next, NEW w \in Workers, NotifyDeregistered(w)
    PROVE  KnowInv'
  <1>1. Serves(w) /\ Jobs /\ UNCHANGED <<db, subs, crossed>>
    BY TypedState DEF Serves, Continue, NotifyDeregistered
  <1>2. PICK m \in Nfs : m = worker[w].who
    BY TypedState DEF NotifyDeregistered, At, ForNf
  <1>3. worker[w].pc = "notifyDeregistered"
    BY DEF NotifyDeregistered, At
  <1>4. worker'[w].pc = "remove" /\ worker'[w].who = m
    <2>1. PICK ss \in SUBSET Subs :
             worker' = [worker EXCEPT ![w].pc = "remove", ![w].to = ss]
      BY DEF NotifyDeregistered
    <2>2. worker[w].pc \in ForNf /\ "remove" \in ForNf
      BY <1>3 DEF ForNf
    <2> QED
      BY <1>1, <1>2, <2>1, <2>2, WentOnTo
  <1>5. \A s \in Subs : told'[s] = IF s \in worker[w].to THEN told[s] \ {m} ELSE told[s]
    BY <1>2 DEF NotifyDeregistered
  <1>6. /\ Deregisters(w, m) /\ Deregisters(w, m)'
        /\ \A n : n # m => ~Deregisters(w, n) /\ ~Deregisters(w, n)'
        /\ \A n : ~Registers(w, n) /\ ~Registers(w, n)' /\ ~Asks(w, n) /\ ~Asks(w, n)'
        /\ \A s : ~Spares(w, s, m)'
    BY <1>2, <1>3, <1>4
       DEF Registers, Deregisters, Asks, Finds, Meets, Spares, Joining, Leaving
  <1>7. db[m] # NoObj /\ \A v \in Workers \ {w} : ~Busy(v, m)
    BY <1>6 DEF KnowInv, OneAtATime, Busy
  <1>8. OneAtATime'
    BY <1>1, <1>6, <1>7, OneGoesOn DEF Busy
  <1>9. Subscribed'
    <2>1. \A s \in Subs : s \notin subs' => told'[s] = told[s]
      BY <1>1, <1>5 DEF KnowInv, Subscribed
    <2> QED
      BY <1>1, <1>6, <2>1, SubscribersGoOn
  <1>10. ASSUME NEW s \in Subs, NEW n \in Nfs, s \in subs', <<s, n>> \notin crossed'
         PROVE  Tracked(s, n)'
    <2>1. Tracked(s, n)
      BY <1>1, <1>10 DEF KnowInv
    <2>2. \A v \in Workers \ {w} : Same(v, s, n)
      BY <1>1, OthersSame
    <2>3. CASE n # m
      <3>1. Same(w, s, n)
        BY <1>6, <2>3, OtherRole
      <3>2. n \in told'[s] <=> n \in told[s]
        BY <1>5, <2>3
      <3> QED
        BY <1>1, <2>1, <2>2, <3>1, <3>2, PairStays
    <2>4. CASE n = m
      <3>1. s \in worker[w].to
        BY <1>2, <1>3, <2>1, <2>4 DEF Tracked, Spares
      <3>2. m \notin told'[s]
        BY <1>5, <3>1
      <3>3. \A v \in Workers : ~Asks(v, s)
        BY <1>6, <2>1, <2>4 DEF Tracked
      <3>4. \A v \in Workers : ~Asks(v, s)' /\ ~Tells(v, s, m)'
        BY <1>6, <2>2, <3>3 DEF Same, Asks, Tells
      <3>5. \A v \in Workers : ~Misses(v, s, m)' /\ ~Spares(v, s, m)'
        <4> SUFFICES ASSUME NEW v \in Workers PROVE ~Misses(v, s, m)' /\ ~Spares(v, s, m)'
          OBVIOUS
        <4>1. ~Misses(w, s, m)'
          BY <1>4 DEF Misses
        <4>2. v # w => ~Misses(v, s, m)' /\ ~Spares(v, s, m)'
          BY <1>7, <2>2, <2>4, Roles DEF Same, Busy
        <4> QED
          BY <1>6, <4>1, <4>2
      <3> QED
        BY <1>1, <1>6, <2>4, <3>2, <3>4, <3>5 DEF Tracked, Busy
    <2> QED
      BY <2>3, <2>4
  <1> QED
    BY <1>8, <1>9, <1>10 DEF KnowInv

LEMMA RemoveProfileKnows ==
    ASSUME TypeInv, TypeInv', KnowInv, Next, NEW w \in Workers, RemoveProfile(w)
    PROVE  KnowInv'
  <1>1. Serves(w) /\ Jobs /\ UNCHANGED <<subs, told, crossed>>
    BY TypedState DEF Serves, Continue, RemoveProfile
  <1>2. PICK m \in Nfs : m = worker[w].who
    BY TypedState DEF RemoveProfile, At, ForNf
  <1>3. worker[w].pc = "remove" /\ worker'[w].pc = "idle"
    BY <1>1, Finished DEF RemoveProfile, At
  <1>4. db'[m] = NoObj /\ \A n \in Nfs \ {m} : db'[n] = db[n]
    BY <1>2, TypedState DEF RemoveProfile
  <1>5. /\ Deregisters(w, m) /\ Removes(w, m)
        /\ \A n : n # m => ~Deregisters(w, n)
        /\ \A n : /\ ~Registers(w, n) /\ ~Registers(w, n)' /\ ~Deregisters(w, n)'
                  /\ ~Asks(w, n) /\ ~Asks(w, n)'
    BY <1>2, <1>3 DEF Registers, Deregisters, Asks, Finds, Meets, Removes, Joining, Leaving
  <1>6. \A v \in Workers \ {w} : ~Busy(v, m)
    BY <1>5 DEF KnowInv, OneAtATime, Busy
  <1>7. OneAtATime'
    BY <1>1, <1>4, <1>5, OneGoesOn DEF Busy
  <1>8. Subscribed'
    BY <1>1, <1>5, SubscribersGoOn
  <1>9. ASSUME NEW s \in Subs, NEW n \in Nfs, s \in subs', <<s, n>> \notin crossed'
        PROVE  Tracked(s, n)'
    <2>1. Tracked(s, n)
      BY <1>1, <1>9 DEF KnowInv
    <2>2. \A v \in Workers \ {w} : Same(v, s, n)
      BY <1>1, OthersSame
    <2>3. CASE n # m
      <3>1. Same(w, s, n)
        BY <1>5, <2>3, OtherRole
      <3> QED
        BY <1>1, <1>4, <2>1, <2>2, <2>3, <3>1, PairStays
    <2>4. CASE n = m
      <3>1. m \notin told'[s] /\ \A v \in Workers : ~Asks(v, s)
        BY <1>1, <1>5, <2>1, <2>4 DEF Tracked
      <3>2. \A v \in Workers : ~Tells(v, s, m)'
        BY <1>5, <2>2, <3>1 DEF Same, Asks, Tells
      <3>3. \A v \in Workers : ~Registers(v, m)' /\ ~Deregisters(v, m)'
        BY <1>5, <1>6, <2>2, <2>4 DEF Same, Busy
      <3>4. \A v \in Workers : ~Misses(v, s, m)' /\ ~Spares(v, s, m)' /\ ~Removes(v, m)'
        BY <3>3 DEF Misses, Spares, Removes, Registers, Deregisters, Joining, Leaving
      <3> QED
        BY <1>4, <2>4, <3>1, <3>2, <3>3, <3>4 DEF Tracked
    <2> QED
      BY <2>3, <2>4
  <1> QED
    BY <1>7, <1>8, <1>9 DEF KnowInv
------------------------------------------------------------------------------
(* A subscription.                                                         *)
LEMMA CreateKnows ==
    ASSUME TypeInv, TypeInv', KnowInv, Next, NEW w \in Workers, NEW t \in Subs,
           CreateSubscription(w, t)
    PROVE  KnowInv'
  <1>1. Serves(w) /\ Jobs /\ UNCHANGED <<db, told>>
    BY TypedState DEF Serves, CreateSubscription
  <1>2. /\ t \notin subs /\ subs' = subs \cup {t} /\ told[t] = {}
        /\ \A v \in Workers : ~Asks(v, t)
    BY DEF CreateSubscription, KnowInv, Subscribed
  <1>3. worker[w].pc = "idle" /\ worker'[w].pc = "find" /\ worker'[w].who = t
    BY <1>1 DEF CreateSubscription, Begin, At, Jobs
  <1>4. /\ \A n : ~Busy(w, n) /\ ~Busy(w, n)' /\ ~Asks(w, n)
        /\ Finds(w, t)' /\ \A s : s # t => ~Asks(w, s)'
        /\ \A s, n : ~Tells(w, s, n)'
    BY <1>3 DEF Registers, Deregisters, Busy, Asks, Finds, Meets, Tells, Joining, Leaving
  <1>5. OneAtATime'
    BY <1>1, <1>4, OneGoesOn
  <1>6. Subscribed'
    BY <1>1, <1>2, <1>4, SubscribersGoOn
  <1>7. ASSUME NEW s \in Subs, NEW n \in Nfs, s \in subs', <<s, n>> \notin crossed'
        PROVE  Tracked(s, n)'
    <2>1. <<s, n>> \notin crossed /\ (s = t => ~Deregistering(n))
      BY <1>7 DEF CreateSubscription
    <2>2. \A v \in Workers \ {w} : Same(v, s, n)
      BY <1>1, OthersSame
    <2>3. CASE s # t
      <3>1. Same(w, s, n)
        BY <1>4, <2>3, OtherRole DEF Busy
      <3>2. Tracked(s, n)
        BY <1>2, <1>7, <2>1, <2>3 DEF KnowInv
      <3> QED
        BY <1>1, <2>2, <3>1, <3>2, PairStays
    <2>4. CASE s = t
      <3>1. \A v \in Workers : ~Deregisters(v, n)'
        BY <1>4, <2>1, <2>2, <2>4, QuietIs DEF Same, Busy
      <3>2. \A v \in Workers : ~Spares(v, t, n)' /\ ~Removes(v, n)'
        BY <3>1 DEF Spares, Removes, Deregisters, Leaving
      <3>3. \A v \in Workers : ~Tells(v, t, n)'
        BY <1>2, <1>4, <2>2, <2>4, Roles DEF Same, Asks
      <3>4. Knows(t, n)'
        BY <1>4 DEF Knows
      <3> QED
        BY <1>1, <1>2, <2>4, <3>1, <3>2, <3>3, <3>4 DEF Tracked
    <2> QED
      BY <2>3, <2>4
  <1> QED
    BY <1>5, <1>6, <1>7 DEF KnowInv

(* Whoever finds the profiles is to be told of an NF exactly if it has one.*)
LEMMA FindKnows ==
    ASSUME TypeInv, TypeInv', KnowInv, Next, NEW w \in Workers, FindProfiles(w)
    PROVE  KnowInv'
  <1>1. Serves(w) /\ Jobs /\ UNCHANGED <<db, objs, subs, told, crossed>>
    BY TypedState DEF Serves, Continue, FindProfiles
  <1>2. PICK t \in Subs : t = worker[w].who
    BY <1>1 DEF FindProfiles, At, Jobs, JobIs, ForSub
  <1>3. /\ worker[w].pc = "find" /\ worker'[w].pc = "notifyExisting" /\ worker'[w].who = t
        /\ worker'[w].to = {db[n] : n \in Nfs} \ {NoObj}
    BY <1>2, FoundOnes DEF FindProfiles, At
  <1>4. /\ \A n : ~Busy(w, n) /\ ~Busy(w, n)' /\ ~Removes(w, n)'
        /\ \A s, n : ~Misses(w, s, n)' /\ ~Spares(w, s, n)'
        /\ Finds(w, t) /\ Meets(w, t)' /\ \A s : s # t => ~Asks(w, s) /\ ~Asks(w, s)'
    BY <1>2, <1>3 DEF Registers, Deregisters, Busy, Asks, Finds, Meets, Removes, Misses, Spares,
       Joining, Leaving
  <1>5. \A n \in Nfs : Tells(w, t, n)' <=> db[n] # NoObj
    <2> SUFFICES ASSUME NEW n \in Nfs PROVE Tells(w, t, n)' <=> db[n] # NoObj
      OBVIOUS
    <2>1. ASSUME db[n] # NoObj PROVE Tells(w, t, n)'
      <3>1. db[n] \in worker'[w].to /\ objs'[db[n]].nf = n
        BY <1>1, <1>3, <2>1, TypedState
      <3> QED
        BY <1>4, <3>1 DEF Tells
    <2>2. ASSUME Tells(w, t, n)' PROVE db[n] # NoObj
      <3>1. PICK o \in worker'[w].to : objs'[o].nf = n
        BY <2>2 DEF Tells
      <3>2. PICK m \in Nfs : o = db[m] /\ o # NoObj
        BY <1>3, <3>1
      <3>3. objs[o].nf = m
        BY <3>2, TypedState
      <3> QED
        BY <1>1, <3>1, <3>2, <3>3
    <2> QED
      BY <2>1, <2>2
  <1>6. OneAtATime'
    BY <1>1, <1>4, OneGoesOn
  <1>7. Subscribed'
    <2>1. t \in subs
      BY <1>4 DEF KnowInv, Subscribed, Asks
    <2> QED
      BY <1>1, <1>4, <2>1, SubscribersGoOn
  <1>8. ASSUME NEW s \in Subs, NEW n \in Nfs, s \in subs', <<s, n>> \notin crossed'
        PROVE  Tracked(s, n)'
    <2>1. Tracked(s, n)
      BY <1>1, <1>8 DEF KnowInv
    <2>2. \A v \in Workers \ {w} : Same(v, s, n)
      BY <1>1, OthersSame
    <2>3. CASE s # t
      <3>1. Same(w, s, n)
        BY <1>4, <2>3, OtherRole DEF Busy
      <3> QED
        BY <1>1, <2>1, <2>2, <3>1, PairStays
    <2>4. CASE s = t
      <3>1. \A v \in Workers : ~Deregisters(v, n)
        BY <1>4, <2>1, <2>4 DEF Tracked, Asks
      <3>2. \A v \in Workers : ~Deregisters(v, n)' /\ ~Spares(v, t, n)' /\ ~Removes(v, n)'
        BY <1>4, <2>2, <2>4, <3>1, Roles DEF Same, Busy
      <3>3. \A v \in Workers : (Misses(v, t, n)' => Busy(v, n)) /\ (Busy(v, n)' <=> Busy(v, n))
        BY <1>4, <2>2, <2>4, Roles DEF Same, Busy
      <3>4. db[n] # NoObj => Knows(t, n)'
        BY <1>5 DEF Knows
      <3>5. \A v \in Workers : Misses(v, t, n)' => Knows(t, n)'
        BY <3>3, <3>4 DEF KnowInv, OneAtATime
      <3>6. \A v \in Workers : Tells(v, t, n)' => db[n] # NoObj
        BY <1>5, <2>1, <2>2, <2>4 DEF Same, Tracked
      <3> QED
        BY <1>1, <2>1, <2>4, <3>2, <3>4, <3>5, <3>6 DEF Tracked
    <2> QED
      BY <2>3, <2>4
  <1> QED
    BY <1>6, <1>7, <1>8 DEF KnowInv

LEMMA TellKnows ==
    ASSUME TypeInv, TypeInv', KnowInv, Next, NEW w \in Workers, NotifyExisting(w)
    PROVE  KnowInv'
  <1>1. Serves(w) /\ Jobs /\ UNCHANGED <<db, subs, crossed>>
    BY TypedState DEF Serves, Continue, NotifyExisting
  <1>2. PICK t \in Subs : t = worker[w].who
    BY <1>1 DEF NotifyExisting, At, Jobs, JobIs, ForSub
  <1>3. worker[w].pc = "notifyExisting"
    BY DEF NotifyExisting, At
  <1>4. t \in subs
    BY <1>2, <1>3 DEF KnowInv, Subscribed, Asks, Meets
  <1>5. ASSUME NEW s \in Subs, NEW n \in Nfs, s \in subs', <<s, n>> \notin crossed'
        PROVE  Tracked(s, n) /\ \A v \in Workers \ {w} : Same(v, s, n)
    BY <1>1, <1>5, OthersSame DEF KnowInv
  <1>6. CASE worker[w].to = {} /\ Finish(w) /\ UNCHANGED told
    <2>1. worker'[w].pc = "idle"
      BY <1>1, <1>6, Finished
    <2>2. /\ \A n : ~Busy(w, n) /\ ~Busy(w, n)' /\ ~Asks(w, n)'
          /\ \A s, n : ~Tells(w, s, n) /\ ~Finds(w, s)
      BY <1>3, <1>6, <2>1 DEF Registers, Deregisters, Busy, Asks, Finds, Meets, Tells,
         Joining, Leaving
    <2>3. OneAtATime'
      BY <1>1, <2>2, OneGoesOn
    <2>4. Subscribed'
      BY <1>1, <1>6, <2>2, SubscribersGoOn
    <2>5. ASSUME NEW s \in Subs, NEW n \in Nfs, s \in subs', <<s, n>> \notin crossed'
          PROVE  Tracked(s, n)'
      <3>1. Tracked(s, n) /\ \A v \in Workers \ {w} : Same(v, s, n)
        BY <1>5, <2>5
      <3>2. /\ ~Finds(w, s) /\ ~Tells(w, s, n) /\ ~Finds(w, s)' /\ ~Tells(w, s, n)'
            /\ ~Misses(w, s, n)' /\ ~Spares(w, s, n)' /\ ~Removes(w, n)'
        BY <2>1, <2>2 DEF Asks, Tells, Misses, Spares, Removes
      <3>3. Knows(s, n)' <=> Knows(s, n)
        BY <1>6, <3>1, <3>2 DEF Knows, Same
      <3>4. ASSUME NEW v \in Workers
            PROVE  /\ Busy(v, n)' <=> Busy(v, n)
                   /\ Deregisters(v, n)' => Deregisters(v, n)
                   /\ Misses(v, s, n)' => Misses(v, s, n)
                   /\ Spares(v, s, n)' => Spares(v, s, n)
                   /\ Removes(v, n)' => Removes(v, n)
                   /\ Asks(v, s)' => Asks(v, s)
                   /\ Tells(v, s, n)' => Tells(v, s, n)
        <4>1. CASE v = w
          BY <2>2, <3>2, <4>1 DEF Busy
        <4>2. CASE v # w
          BY <3>1, <4>2 DEF Same, Busy, Asks
        <4> QED
          BY <4>1, <4>2
      <3> QED
        BY <1>1, <1>6, <3>1, <3>3, <3>4 DEF Tracked
    <2> QED
      BY <2>3, <2>4, <2>5 DEF KnowInv
  <1>7. ASSUME NEW o \in worker[w].to,
               told' = [told EXCEPT ![t] = @ \cup {objs[o].nf}],
               worker' = [worker EXCEPT ![w].to = @ \ {o}]
        PROVE  KnowInv'
    <2>1. /\ worker'[w].pc = "notifyExisting" /\ worker'[w].who = t
          /\ worker'[w].to = worker[w].to \ {o}
      BY <1>2, <1>3, <1>7, ToldOne
    <2>2. /\ \A n : /\ ~Busy(w, n) /\ ~Busy(w, n)' /\ ~Removes(w, n)' /\ ~Removes(w, n)
                    /\ ~Finds(w, n) /\ ~Finds(w, n)'
          /\ \A s, n : ~Misses(w, s, n)' /\ ~Spares(w, s, n)' /\ ~Misses(w, s, n) /\ ~Spares(w, s, n)
          /\ Meets(w, t) /\ Meets(w, t)' /\ \A s : s # t => ~Asks(w, s) /\ ~Asks(w, s)'
      BY <1>2, <1>3, <2>1 DEF Registers, Deregisters, Busy, Asks, Finds, Meets, Removes,
         Misses, Spares, Joining, Leaving
    <2>3. OneAtATime'
      BY <1>1, <2>2, OneGoesOn
    <2>4. Subscribed'
      <3>1. \A s \in Subs : s \notin subs' => told'[s] = told[s]
        BY <1>1, <1>4, <1>7, TypedState
      <3> QED
        BY <1>1, <1>4, <2>2, <3>1, SubscribersGoOn DEF Asks
    <2>5. ASSUME NEW s \in Subs, NEW n \in Nfs, s \in subs', <<s, n>> \notin crossed'
          PROVE  Tracked(s, n)'
      <3>1. CASE s # t
        <4>1. Same(w, s, n)
          BY <2>2, <3>1, OtherRole DEF Busy
        <4>2. told'[s] = told[s]
          BY <1>7, <3>1, TypedState
        <4> QED
          BY <1>1, <1>5, <2>5, <4>1, <4>2, PairStays
      <3>2. CASE s = t /\ objs[o].nf # n
        <4>1. Tells(w, t, n)' <=> Tells(w, t, n)
          <5>1. \A q \in worker'[w].to : objs'[q].nf = objs[q].nf
            BY <1>3, <2>1, NfStays
          <5> QED
            BY <2>1, <2>2, <3>2, <5>1 DEF Tells
        <4>2. Same(w, t, n)
          BY <2>2, <4>1 DEF Same, Busy
        <4>3. n \in told'[t] <=> n \in told[t]
          BY <1>7, <3>2, TypedState
        <4> QED
          BY <1>1, <1>5, <2>5, <3>2, <4>2, <4>3, PairStays
      <3>3. CASE s = t /\ objs[o].nf = n
        <4>1. Tracked(t, n) /\ \A v \in Workers \ {w} : Same(v, t, n)
          BY <1>5, <2>5, <3>3
        <4>2. db[n] # NoObj
          BY <2>2, <3>3, <4>1 DEF Tells, Tracked
        <4>3. n \in told'[t]
          BY <1>7, <3>3, TypedState
        <4>4. \A v \in Workers : ~Deregisters(v, n)
          BY <2>2, <4>1 DEF Tracked, Asks
        <4>5. \A v \in Workers : ~Deregisters(v, n)' /\ ~Spares(v, t, n)' /\ ~Removes(v, n)'
          BY <2>2, <4>1, <4>4, Roles DEF Same, Busy
        <4> QED
          BY <1>1, <3>3, <4>2, <4>3, <4>5 DEF Tracked, Knows
      <3> QED
        BY <3>1, <3>2, <3>3
    <2> QED
      BY <2>3, <2>4, <2>5 DEF KnowInv
  <1> QED
    BY <1>2, <1>6, <1>7 DEF NotifyExisting

LEMMA RemoveKnows ==
    ASSUME TypeInv, TypeInv', KnowInv, Next, NEW t \in Subs, RemoveSubscription(t)
    PROVE  KnowInv'
  <1>1. UNCHANGED <<db, worker>> /\ subs' = subs \ {t} /\ crossed' = crossed \ ({t} \X Nfs)
    BY DEF RemoveSubscription
  <1>2. told'[t] = {} /\ \A s \in Subs \ {t} : told'[s] = told[s]
    BY TypedState DEF RemoveSubscription
  <1>3. \A s, n : \A w \in Workers : Same(w, s, n)
    BY <1>1, SameRole
  <1>4. \A n : \A w \in Workers : Busy(w, n)' <=> Busy(w, n)
    BY <1>3 DEF Same, Busy
  <1>5. \A w \in Workers : ~Asks(w, t)
    BY QuietIs DEF RemoveSubscription
  <1>6. \A s : \A w \in Workers : Asks(w, s)' <=> Asks(w, s)
    BY <1>3 DEF Same, Asks
  <1>7. OneAtATime'
    BY <1>1, <1>4 DEF KnowInv, OneAtATime
  <1>8. Subscribed'
    <2>1. \A w \in Workers, s \in Subs : Asks(w, s)' => s \in subs'
      BY <1>1, <1>5, <1>6 DEF KnowInv, Subscribed
    <2>2. \A s \in Subs : s \notin subs' => told'[s] = {}
      BY <1>1, <1>2 DEF KnowInv, Subscribed
    <2> QED
      BY <2>1, <2>2 DEF Subscribed
  <1>9. ASSUME NEW s \in Subs, NEW n \in Nfs, s \in subs', <<s, n>> \notin crossed'
        PROVE  Tracked(s, n)'
    <2>1. s # t /\ s \in subs /\ <<s, n>> \notin crossed
      BY <1>1, <1>9
    <2>2. Tracked(s, n)
      BY <2>1 DEF KnowInv
    <2> QED
      BY <1>1, <1>2, <1>3, <2>1, <2>2, PairStays
  <1> QED
    BY <1>7, <1>8, <1>9 DEF KnowInv
------------------------------------------------------------------------------
LEMMA InitKnows == Init => KnowInv
  <1> SUFFICES ASSUME Init PROVE KnowInv
    OBVIOUS
  <1>1. \A w \in Workers : worker[w].pc = "idle"
    BY DEF Init, Resting
  <1>2. \A n : \A w \in Workers : ~Busy(w, n) /\ ~Asks(w, n)
    BY <1>1 DEF Registers, Deregisters, Busy, Asks, Finds, Meets, Joining, Leaving
  <1>3. subs = {} /\ \A s \in Subs : told[s] = {}
    BY DEF Init
  <1> QED
    BY <1>2, <1>3 DEF KnowInv, OneAtATime, Subscribed

LEMMA NextKnows == TypeInv /\ KnowInv /\ [Next]_vars => KnowInv'
  <1> SUFFICES ASSUME TypeInv, KnowInv, [Next]_vars PROVE KnowInv'
    OBVIOUS
  <1>1. CASE UNCHANGED vars
    BY <1>1 DEF vars, KnowInv, OneAtATime, Subscribed, Tracked, Knows, Busy, Asks, Registers,
       Deregisters, Misses, Spares, Removes, Finds, Meets, Tells
  <1>2. CASE Next
    <2>1. TypeInv'
      BY NextTypes
    <2>2. ASSUME NEW w \in Workers, NEW n \in Nfs,
                 \/ Register(w, n) \/ Deregister(w, n)
                 \/ \E heartbeat \in BOOLEAN : Patch(w, n, heartbeat)
          PROVE  KnowInv'
      BY <1>2, <2>1, <2>2, RegisterKnows, DeregisterKnows, QuietSteps
    <2>3. ASSUME NEW w \in Workers, Continue(w) PROVE KnowInv'
      BY <1>2, <2>1, <2>3, QuietSteps, StatusRegisteredKnows, NotifyRegisteredKnows,
         StatusDeregisteredKnows, NotifyDeregisteredKnows, RemoveProfileKnows, FindKnows,
         TellKnows DEF Continue
    <2>4. ASSUME \/ \E o \in Objs, slot \in Slots : HeartbeatTimeout(o, slot)
                 \/ Handler
          PROVE  KnowInv'
      <3>1. UNCHANGED <<db, subs, worker, told, crossed>>
        BY <2>4 DEF HeartbeatTimeout, Handler, Suspend, ClearUpdated, EndFirst
      <3> QED
        BY <1>2, <2>1, <3>1, KnowCalm
    <2> QED
      BY <1>2, <2>1, <2>2, <2>3, <2>4, CreateKnows, RemoveKnows DEF Next
  <1> QED
    BY <1>1, <1>2

(* When no request of an NF is being served, a subscriber takes it for     *)
(* registered exactly if the NRF has a profile of it, however              *)
(* registrations, deregistrations, patches and subscriptions overlapped    *)
(* (handle_nf_status_registered, handle_nf_status_deregistered,            *)
(* handle_create_subscription).                                            *)
THEOREM SubscribersLearn == Spec => []SubscribersKnow
  <1>1. TypeInv /\ KnowInv => SubscribersKnow
    <2> SUFFICES ASSUME TypeInv, KnowInv, NEW s \in subs, NEW n \in Nfs,
                        ~Registering(n), ~Deregistering(n), ~Subscribing(s),
                        <<s, n>> \notin crossed
                 PROVE  n \in told[s] <=> db[n] # NoObj
      BY DEF SubscribersKnow
    <2>1. Tracked(s, n)
      BY TypedState DEF KnowInv
    <2>2. \A w \in Workers : ~Busy(w, n) /\ ~Asks(w, s) /\ ~Finds(w, s) /\ ~Tells(w, s, n)
      BY QuietIs, Roles DEF Busy, Asks
    <2> QED
      BY <2>1, <2>2 DEF Tracked, Knows
  <1> QED
    BY <1>1, InitTypes, NextTypes, InitKnows, NextKnows, PTL DEF Spec
==============================================================================
