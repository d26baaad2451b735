---------------------------- MODULE NrfRegistry ------------------------------
(***************************************************************************)
(* The NRF (nrf_app.cpp, nrf_profile.cpp, nrf_event.cpp, task_manager.cpp):*)
(* the profiles of the NF instances, the expiry of their heartbeats, and   *)
(* the notification of subscribers.                                        *)
(*                                                                         *)
(* Workers of the HTTP servers serve requests of NFs and of subscribers at *)
(* the same time.  A step of a worker ends where it releases a mutex or    *)
(* changes what others read; it keeps the profile it found (a shared_ptr)  *)
(* until its request is done.  The task manager is a thread of its own: it *)
(* calls the slots of the signal task_tick whose time has come.            *)
(*                                                                         *)
(* A registration makes a new profile object, and replaces the one its NF  *)
(* had.  An object lives, and its slots are called, as long as the map or a*)
(* worker refers to it: its destructor disconnects them.  The first slot,  *)
(* of two intervals, is for the first heartbeat after the registration; a  *)
(* heartbeat exchanges it for the periodic one.                            *)
(***************************************************************************)
EXTENDS Naturals

CONSTANTS
    Nfs,        \* NF instances, of the type the subscribers ask for
    Subs,       \* subscribers to registrations and deregistrations
    Workers,    \* worker threads
    MaxObjs     \* bound on the profile objects that live at a time

(* No NF registers under an empty id.                                      *)
ASSUME RegistryAssumption == MaxObjs \in Nat /\ "" \notin Nfs

Objs == 1 .. MaxObjs
NoObj == 0
Slots == {"first", "periodic"}

VARIABLES
    db,         \* instance_id2nrf_profile: the object of each NF, or NoObj
    objs,       \* the profile objects
    subs,       \* subscrition_id2nrf_subscription
    worker,     \* what each worker is doing
    task,       \* what the task manager is doing
    told,       \* the NFs each subscriber was last told are registered
    crossed     \* history: <<s, n>> such that s subscribed while n was deregistered

vars == <<db, objs, subs, worker, task, told, crossed>>

Resting == [pc |-> "idle", who |-> "", obj |-> NoObj, to |-> {}]
Waiting == [pc |-> "idle", obj |-> NoObj, slot |-> "first"]

(* nrf_profile.  Its history: good is the number of time-outs for which its*)
(* last heartbeat counts, none if it met a time-out under way; late says   *)
(* that its first heartbeat found no slot to exchange.                     *)
NewProfile(n) ==
    [nf |-> n, status |-> "REGISTERED", is_updated |-> FALSE,
     first_update |-> TRUE, slots |-> {}, good |-> 0, late |-> FALSE]

(* What is left of an object after its destructor.                         *)
Gone == NewProfile("")

Init ==
    /\ db = [n \in Nfs |-> NoObj]
    /\ objs = [o \in Objs |-> Gone]
    /\ subs = {}
    /\ worker = [w \in Workers |-> Resting]
    /\ task = Waiting
    /\ told = [s \in Subs |-> {}]
    /\ crossed = {}
------------------------------------------------------------------------------
At(w, pc) == worker[w].pc = pc
Goto(w, pc) == worker' = [worker EXCEPT ![w].pc = pc]
Finish(w) == worker' = [worker EXCEPT ![w] = Resting]
Begin(w, pc, who, o) ==
    /\ At(w, "idle")
    /\ worker' = [worker EXCEPT ![w] = [pc |-> pc, who |-> who, obj |-> o, to |-> {}]]

Serving(who, pcs) == \E w \in Workers : worker[w].who = who /\ worker[w].pc \in pcs

Registering(n) == Serving(n, {"subscribe", "registered", "notifyRegistered"})
Deregistering(n) == Serving(n, {"deregistered", "notifyDeregistered", "remove"})
Subscribing(s) == Serving(s, {"find", "notifyExisting"})

(* The map, a worker or the handler under way refers to the object.        *)
Alive(o) ==
    \/ \E n \in Nfs : db[n] = o
    \/ \E w \in Workers : \/ worker[w].obj = o
                          \/ At(w, "notifyExisting") /\ o \in worker[w].to
    \/ task.obj = o

(* The objects nobody refers to after the step are destroyed.              *)
Release(os) == objs' = [o \in Objs |-> IF Alive(o)' THEN os[o] ELSE Gone]
------------------------------------------------------------------------------
(* An NF waits for the answer to its registration or deregistration before*)
(* it sends the next; its heartbeats and other patches come when they like.*)
Quiet(n) == ~Registering(n) /\ ~Deregistering(n)

(* handle_register_nf_instance.  add_nf_profile: the profile is found from *)
(* now on, also by heartbeats.                                             *)
Register(w, n) ==
    /\ Quiet(n)
    /\ \E o \in Objs :
          /\ \A p \in Objs : ~Alive(p) => o <= p
          /\ ~Alive(o)
          /\ Begin(w, "subscribe", n, o)
          /\ db' = [db EXCEPT ![n] = o]
          /\ UNCHANGED task
          /\ Release([objs EXCEPT ![o] = NewProfile(n)])
    /\ UNCHANGED <<subs, told, crossed>>

(* subscribe_heartbeat_timeout_nfregistration                              *)
SubscribeFirst(w) ==
    /\ At(w, "subscribe")
    /\ objs' = [objs EXCEPT ![worker[w].obj].slots = @ \cup {"first"}]
    /\ Goto(w, "registered")
    /\ UNCHANGED <<db, subs, task, told, crossed>>

(* get_subscription_list: nobody, if the NF is gone meanwhile.             *)
SubscriptionList(n) == IF db[n] = NoObj THEN {} ELSE subs

(* handle_nf_status_registered                                             *)
StatusRegistered(w) ==
    /\ At(w, "registered")
    /\ worker' = [worker EXCEPT ![w].pc = "notifyRegistered",
                                ![w].to = SubscriptionList(worker[w].who)]
    /\ UNCHANGED <<db, objs, subs, task, told, crossed>>

(* notify_subscribed_event, to all of the list.                            *)
NotifyRegistered(w) ==
    /\ At(w, "notifyRegistered")
    /\ told' = [s \in Subs |-> IF s \in worker[w].to \cap subs
                               THEN told[s] \cup {worker[w].who} ELSE told[s]]
    /\ crossed' = crossed \ (worker[w].to \X {worker[w].who})
    /\ Finish(w)
    /\ UNCHANGED <<db, subs, task>>
    /\ Release(objs)
------------------------------------------------------------------------------
(* handle_deregister_nf_instance.  An NF that is not found gets 404, and   *)
(* nothing changes.                                                        *)
Deregister(w, n) ==
    /\ Quiet(n)
    /\ db[n] # NoObj
    /\ Begin(w, "deregistered", n, db[n])
    /\ crossed' = crossed \cup ({s \in Subs : Subscribing(s)} \X {n})
    /\ UNCHANGED <<db, objs, subs, task, told>>

(* handle_nf_status_deregistered                                           *)
StatusDeregistered(w) ==
    /\ At(w, "deregistered")
    /\ worker' = [worker EXCEPT ![w].pc = "notifyDeregistered",
                                ![w].to = SubscriptionList(worker[w].who)]
    /\ UNCHANGED <<db, objs, subs, task, told, crossed>>

NotifyDeregistered(w) ==
    /\ At(w, "notifyDeregistered")
    /\ told' = [s \in Subs |-> IF s \in worker[w].to
                               THEN told[s] \ {worker[w].who} ELSE told[s]]
    /\ worker' = [worker EXCEPT ![w].pc = "remove", ![w].to = {}]
    /\ UNCHANGED <<db, objs, subs, task, crossed>>

(* remove_nf_profile: whichever object the NF has now.                     *)
RemoveProfile(w) ==
    /\ At(w, "remove")
    /\ db' = [db EXCEPT ![worker[w].who] = NoObj]
    /\ Finish(w)
    /\ UNCHANGED <<subs, task, told, crossed>>
    /\ Release(objs)
------------------------------------------------------------------------------
(* handle_update_nf_instance, with one patch: of the status, which makes it*)
(* a heartbeat, or of anything else.  The profile found is changed in      *)
(* place.                                                                  *)
Patch(w, n, heartbeat) ==
    LET o == db[n] IN
    /\ o # NoObj
    /\ Begin(w, IF heartbeat THEN "updateStatus" ELSE "update", n, o)
    /\ objs' = IF heartbeat THEN [objs EXCEPT ![o].status = "REGISTERED"] ELSE objs
    /\ UNCHANGED <<db, subs, task, told, crossed>>

(* Fault: a profile that is not in the map any more is put back.           *)
PutBack(n, o) == db' = [db EXCEPT ![n] = o]

(* update_nf_profile: the profile found replaces whichever the NF has now, *)
(* if it has one.                                                          *)
UpdateProfile(n, o) == db' = [db EXCEPT ![n] = IF @ = NoObj THEN @ ELSE o]

(* The end of another patch: no subscriber has asked for changes.          *)
Update(w) ==
    /\ At(w, "update")
    /\ UpdateProfile(worker[w].who, worker[w].obj)
    /\ Finish(w)
    /\ UNCHANGED <<subs, task, told, crossed>>
    /\ Release(objs)

UpdateStatus(w) ==
    /\ At(w, "updateStatus")
    /\ UpdateProfile(worker[w].who, worker[w].obj)
    /\ Goto(w, "unsubscribe")
    /\ UNCHANGED <<subs, task, told, crossed>>
    /\ Release(objs)

(* No slot is connected, and no heartbeat is about to connect one.         *)
Unwatched(o) ==
    /\ objs[o].slots = {}
    /\ \A w \in Workers : worker[w].obj = o => ~At(w, "disconnect") /\ ~At(w, "rearm")

(* unsubscribe_heartbeat_timeout_nfregistration.  Only a heartbeat that    *)
(* finds the first slot connected goes on to connect the periodic one.     *)
UnsubscribeFirst(w) ==
    LET o == worker[w].obj IN
    /\ At(w, "unsubscribe")
    /\ \/ /\ "first" \in objs[o].slots
          /\ Goto(w, "disconnect")
          /\ UNCHANGED objs
       \/ /\ "first" \notin objs[o].slots
          /\ Goto(w, "updated")
          /\ objs' = [objs EXCEPT ![o].late = @ \/ Unwatched(o)]
    /\ UNCHANGED <<db, subs, task, told, crossed>>

DisconnectFirst(w) ==
    /\ At(w, "disconnect")
    /\ objs' = [objs EXCEPT ![worker[w].obj].slots = @ \ {"first"}]
    /\ Goto(w, "rearm")
    /\ UNCHANGED <<db, subs, task, told, crossed>>

(* Fault: the periodic slot can be connected again.                        *)
RearmAgain(w) ==
    /\ At(w, "rearm")
    /\ objs' = [objs EXCEPT ![worker[w].obj].slots = @ \cup {"periodic"}]
    /\ Goto(w, "updated")
    /\ UNCHANGED <<db, subs, task, told, crossed>>

(* Fault: first_update is cleared, but nothing is connected.               *)
RearmNothing(w) ==
    /\ At(w, "rearm")
    /\ objs' = [objs EXCEPT ![worker[w].obj].first_update = FALSE]
    /\ Goto(w, "updated")
    /\ UNCHANGED <<db, subs, task, told, crossed>>

(* After 50 ms: subscribe_heartbeat_timeout_nfupdate.                      *)
SubscribePeriodic(w) ==
    LET o == worker[w].obj IN
    /\ At(w, "rearm")
    /\ objs' = [objs EXCEPT ![o].slots = IF objs[o].first_update
                                         THEN @ \cup {"periodic"} ELSE @,
                            ![o].first_update = FALSE]
    /\ Goto(w, "updated")
    /\ UNCHANGED <<db, subs, task, told, crossed>>

(* Fault: the heartbeat is not recorded.                                   *)
ForgetUpdated(w) ==
    /\ At(w, "updated")
    /\ objs' = [objs EXCEPT ![worker[w].obj].good = IF task.obj = worker[w].obj THEN @ ELSE 2]
    /\ Goto(w, "restore")
    /\ UNCHANGED <<db, subs, task, told, crossed>>

(* set_status_updated(true)                                                *)
SetUpdated(w) ==
    LET o == worker[w].obj IN
    /\ At(w, "updated")
    /\ objs' = [objs EXCEPT ![o].is_updated = TRUE,
                            ![o].good = IF task.obj = o THEN @ ELSE 2]
    /\ Goto(w, "restore")
    /\ UNCHANGED <<db, subs, task, told, crossed>>

(* set_nf_status("REGISTERED")                                             *)
RestoreStatus(w) ==
    /\ At(w, "restore")
    /\ Finish(w)
    /\ UNCHANGED <<db, subs, task, told, crossed>>
    /\ Release([objs EXCEPT ![worker[w].obj].status = "REGISTERED"])
------------------------------------------------------------------------------
(* handle_create_subscription                                              *)
CreateSubscription(w, s) ==
    /\ s \notin subs
    /\ Begin(w, "find", s, NoObj)
    /\ subs' = subs \cup {s}
    /\ crossed' = crossed \cup ({s} \X {n \in Nfs : Deregistering(n)})
    /\ UNCHANGED <<db, objs, task, told>>

(* find_nf_profiles: the subscriber is to be told of those that exist.     *)
FindProfiles(w) ==
    /\ At(w, "find")
    /\ worker' = [worker EXCEPT ![w].pc = "notifyExisting",
                                ![w].to = {db[n] : n \in Nfs} \ {NoObj}]
    /\ UNCHANGED <<db, objs, subs, task, told, crossed>>

(* One notification after the other.                                       *)
NotifyExisting(w) ==
    /\ At(w, "notifyExisting")
    /\ \/ \E o \in worker[w].to :
             /\ told' = [told EXCEPT ![worker[w].who] = @ \cup {objs[o].nf}]
             /\ worker' = [worker EXCEPT ![w].to = @ \ {o}]
       \/ worker[w].to = {} /\ Finish(w) /\ UNCHANGED told
    /\ UNCHANGED <<db, subs, task, crossed>>
    /\ Release(objs)

(* handle_remove_subscription.  One that subscribes anew starts without    *)
(* knowledge.                                                              *)
RemoveSubscription(s) ==
    /\ s \in subs
    /\ ~Subscribing(s)
    /\ \E w \in Workers : At(w, "idle")
    /\ subs' = subs \ {s}
    /\ told' = [told EXCEPT ![s] = {}]
    /\ crossed' = crossed \ ({s} \X Nfs)
    /\ UNCHANGED <<db, objs, worker, task>>
------------------------------------------------------------------------------
(* The task manager calls a slot of an object; the handler starts by       *)
(* reading is_updated, without a lock.                                     *)
HeartbeatTimeout(o, slot) ==
    /\ task.pc = "idle"
    /\ slot \in objs[o].slots
    /\ task' = [pc |-> IF objs[o].is_updated THEN "clear" ELSE "suspend",
                obj |-> o, slot |-> slot]
    /\ objs' = [objs EXCEPT ![o].good = IF @ = 0 THEN 0 ELSE @ - 1]
    /\ UNCHANGED <<db, subs, worker, told, crossed>>

Suspend ==
    /\ task.pc = "suspend"
    /\ objs' = [objs EXCEPT ![task.obj].status = "SUSPENDED"]
    /\ task' = [task EXCEPT !.pc = "clear"]
    /\ UNCHANGED <<db, subs, worker, told, crossed>>

(* set_status_updated(false); the handler of the first slot goes on and    *)
(* unsubscribes.                                                           *)
ClearUpdated ==
    /\ task.pc = "clear"
    /\ task' = IF task.slot = "first"
               THEN [task EXCEPT !.pc = "unsubscribe"] ELSE Waiting
    /\ UNCHANGED <<db, subs, worker, told, crossed>>
    /\ Release([objs EXCEPT ![task.obj].is_updated = FALSE])

EndFirst ==
    /\ task.pc = "unsubscribe"
    /\ task' = Waiting
    /\ UNCHANGED <<db, subs, worker, told, crossed>>
    /\ Release([objs EXCEPT ![task.obj].slots = @ \ {"first"}])
------------------------------------------------------------------------------
(* A worker goes on with its request.                                      *)
Continue(w) ==
    \/ SubscribeFirst(w) \/ StatusRegistered(w) \/ NotifyRegistered(w)
    \/ StatusDeregistered(w) \/ NotifyDeregistered(w) \/ RemoveProfile(w)
    \/ Update(w) \/ UpdateStatus(w) \/ UnsubscribeFirst(w) \/ DisconnectFirst(w)
    \/ SubscribePeriodic(w) \/ SetUpdated(w) \/ RestoreStatus(w)
    \/ FindProfiles(w) \/ NotifyExisting(w)

Handler == Suspend \/ ClearUpdated \/ EndFirst

Next ==
    \/ \E w \in Workers :
          \/ \E n \in Nfs :
                \/ Register(w, n) \/ Deregister(w, n)
                \/ \E heartbeat \in BOOLEAN : Patch(w, n, heartbeat)
          \/ \E s \in Subs : CreateSubscription(w, s)
          \/ Continue(w)
    \/ \E s \in Subs : RemoveSubscription(s)
    \/ \E o \in Objs, slot \in Slots : HeartbeatTimeout(o, slot)
    \/ Handler

Spec == Init /\ [][Next]_vars
------------------------------------------------------------------------------
(* Every object that is referred to is a profile of the NF that refers to  *)
(* it, and the others are destroyed (shared_ptr<nrf_profile>); the periodic*)
(* slot is connected at most once (first_update).                          *)
TypeOK ==
    /\ db \in [Nfs -> Objs \cup {NoObj}]
    /\ objs \in [Objs -> [nf : Nfs \cup {Gone.nf}, status : {"REGISTERED", "SUSPENDED"},
                          is_updated : BOOLEAN, first_update : BOOLEAN,
                          slots : SUBSET Slots, good : 0 .. 2, late : BOOLEAN]]
    /\ \A o \in Objs : /\ Alive(o) <=> objs[o] # Gone
                       /\ "periodic" \in objs[o].slots => ~objs[o].first_update
    /\ \A n \in Nfs : db[n] # NoObj => objs[db[n]].nf = n
    /\ \A w \in Workers : worker[w].obj # NoObj => objs[worker[w].obj].nf = worker[w].who
    /\ task.pc \in {"idle", "suspend", "clear", "unsubscribe"}
    /\ subs \subseteq Subs /\ told \in [Subs -> SUBSET Nfs]

(* An NF that sent a heartbeat is not suspended before the second time-out *)
(* after it, whatever the task manager, other heartbeats and other patches *)
(* do meanwhile.  A heartbeat that meets a time-out under way promises     *)
(* nothing: the handler clears is_updated after it                         *)
(* (handle_heartbeart_timeout_nfupdate, handle_update_nf_instance).        *)
HeartbeatCounts ==
    \A o \in Objs : objs[o].good > 0 =>
        \/ objs[o].status = "REGISTERED"
        \/ \E w \in Workers : At(w, "restore") /\ worker[w].obj = o

(* When no request of an NF is being served, a subscriber takes it for     *)
(* registered exactly if the NRF has a profile of it, although             *)
(* registrations, deregistrations, patches and new subscriptions overlap:  *)
(* a registration is added before the subscribers are looked up, and a     *)
(* subscription before the profiles are.  Not promised to one that         *)
(* subscribed while the NF was deregistered, before its next registration. *)
SubscribersKnow ==
    \A s \in subs, n \in Nfs :
        \/ Registering(n) \/ Deregistering(n) \/ Subscribing(s)
        \/ <<s, n>> \in crossed
        \/ n \in told[s] <=> db[n] # NoObj

(* While the NRF takes an NF for registered, a slot is connected that will *)
(* suspend it should it fall silent, whatever heartbeats, time-outs and    *)
(* new registrations overlap: the periodic slot is connected once, by a    *)
(* heartbeat that disconnected the first (handle_update_nf_instance).  Not *)
(* promised if the first heartbeat came before the first slot was connected*)
(* or after it had done its work: nothing watches that NF any more.        *)
Watched ==
    \A n \in Nfs : LET o == db[n] IN
        o # NoObj /\ Unwatched(o) =>
            \/ objs[o].status = "SUSPENDED"
            \/ objs[o].late
            \/ \E w \in Workers : /\ worker[w].obj = o
                                 /\ worker[w].pc \in {"subscribe", "updateStatus", "unsubscribe"}
==============================================================================
