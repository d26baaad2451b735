# TLA+ models of the 5G location management testbed

The repository is a 5G core network (OpenAirInterface's AMF, SMF, UPF, NRF,
AUSF, UDM, UDR and NSSF under `oai-cn5g-fed/component/`) with a Location
Management Function of its own (`lmf-server/`) and an emulator of the AMF's
side of it (`oai-cn5g-fed/component/oai-amf/amf-server/`).  This directory
models the parts whose correctness depends on interleaving, time or an
unreliable network.  In what follows SMF stands for
`src/oai-cn5g-fed/component/oai-smf/src`, UPF for
`src/oai-cn5g-fed/component/oai-upf-equivalent/src`, and so on.

## 1. The system

| Component | State it keeps | Operations | Hard behaviour | What makes it correct |
|---|---|---|---|---|
| **LMF** `lmf-server.cpp`, `locator.cpp` | one endpoint object and one locator: `distances`, `res`, `est_pos_corrent` | `POST /localize-ue` | twenty worker threads by default share these matrices without a lock; failed localizations; iteration to convergence | a reply is about its own request; every request is answered |
| **AMF emulator** `amf_server.cc` | an HTTP client pool | `GET /determine_location/:name`, relayed to the LMF | asynchronous relay, the client may be gone | one answer, the LMF's |
| **ITTI** `itti.cpp` (AMF, SMF, UPF) | a message queue for each task; the ordered set of timers; `current_timer` | `send_msg`, `receive_msg`, `timer_setup`, `timer_remove`, the timer thread | two condition variables, unlocked reads, removal against expiry | a timer fires once, not early, not after it was removed; none is forgotten |
| **PFCP stack** `pfcp.cpp` (SMF, UPF) | pending procedures by sequence number, timers of procedures, transactions | `send_request`, `send_response`, receive callback, `time_out_event` | loss, repetition, delay; collision and wrap of numbers; retry against answer | the answer to a request is its own, handed over once; a procedure ends |
| **N4 associations** `smf_pfcp_association.cpp`, `smf_n4.cpp` (and the mirror image in the UPF) | associations by hash of the node, each with a heartbeat timer, retry count, transaction, sessions | setup, heartbeat, retries, removal, restoration | the UDP thread and the N4 task share an association without a lock; queued time-outs | an associated UPF is watched; a dead one is removed; a live one is not |
| **UPF switch** `simpleswitch/` | sessions by SEID; rules by TEID and UE address | session establishment, modification, deletion; packet lookup | packet threads against the control task | indexes and sessions agree |
| **SMF sessions** `smf_context.cpp`, `smf_procedure.cpp`, `smf_paa_dynamic.hpp` | PDU sessions, pending procedures, T3591/T3592, address pools | create, update, release | answers that come late, time-outs against answers, partial failure | a procedure ends, an address has one owner |
| **AMF** `amf_n1.cpp`, `amf_n2.cpp`, `amf_n11.cpp` | UE and NAS contexts, mobile-reachable timers | registration, service request, deregistration, session control | timers against messages of the UE | a context ends once |
| **NRF** `nrf_app.cpp`, `nrf_event.cpp` | profiles, subscriptions, search results | register, update, heartbeat, discover, subscribe | expiry against heartbeat, event signals | a silent function is removed, subscribers are told |
| **AUSF, UDM, UDR, NSSF** | subscription data, configuration | request and answer | little | data |

**Interaction.**  A program of the core is a set of threads ("tasks") that own
their message queue in ITTI and call each other's objects directly as well.
The UDP thread of a PFCP stack calls the receive callback, which calls the
handlers of `smf_n4` in the same thread; the N4 task takes time-outs and the
messages of other tasks from its queue and calls `send_request` and
`send_response`.  So every object behind N4 is reached by two threads.  The
timer thread of ITTI only ever puts `TIME_OUT` messages into queues.

## 2. Modules

| Module | Models | Correspondence |
|---|---|---|
| `LmfServer` | the LMF | one action for each read of a shared matrix, two for each write; `pc[t]` is where a worker is in `doLocalizeUE`, `mine[t]` the matrix on its stack.  A position is the *set of distance vectors* its computation read, so a mixture is visible and arithmetic is not needed |
| `MCLmfServer` | | sets of threads and vectors for TLC |
| `LmfServer_proofs` | | theorems about `LmfServer` |
| `TimerService` | what the ITTI timers promise | a timer is free, armed, fired, cancelled (removed in time), withdrawn (removed at or after its deadline) or lost (its deadline equals another's) |
| `IttiTimer` | `timer_setup`, `timer_remove`, `timer_manager_task` | `mTimers` is the holder of `m_timers`; each use of `m_timeout` is one action, since it does one thing and releases it; `tpc` is where the timer thread is, `current` is `current_timer`, `timers` the `std::set`; unlocked reads (`timer_id`, fields of `current_timer`, the comparison with the clock) are actions of their own |
| `MCIttiTimer` | | callers for TLC |
| `IttiTimer_proofs` | | that `IttiTimer` implements `TimerService` |
| `PfcpHeartbeat` | SMF associations of one UPF, heartbeat and removal | `n4.pc` and `udp.pc` are where the two threads are; each access of theirs to the association is an action; `queue` is the N4 task's queue; timers count down and are then queued, as `TimerService` has it |
| `PfcpHeartbeat_proofs` | | theorems about `PfcpHeartbeat` |
| `PfcpStack` | `pfcp_l4_stack` of every node, the network between them | `procs`, `seqOf`, `retryMap`, `cleanupMap` are `pending_procedures`, `trxn_id2seq_num`, `msg_out_retry_timers`, `proc_cleanup_timers`; one action for each call into the stack; `serving` are the requests handed to the tasks |
| `MCPfcpStack` | | nodes and message types for TLC |
| `PfcpStack_proofs` | | theorems about `PfcpStack` |
| `AddressPool` | `ipv4_pool` of the SMF | operators on the bit map `alloc`: from the number of a word to its set bits, with the surplus bits of the last word set for good and words that appear when they are looked at |
| `AddressPool_proofs` | | the arithmetic of the bit map: what taking and giving back an address does to the set of addresses taken |
| `AddressLease` | what the pool promises the PDU sessions | who holds which address, which are free; lease, return, the end of all leases |
| `UpfSwitch` | `pfcp_switch`, `pfcp_session` of the UPF | operators on the record `sw` of its tables: `cp`, `sess`, `ul`, `dl` are `cp_fseid2pfcp_sessions`, `up_seid2pfcp_sessions`, `ul_s1u_teid2pfcp_pdr`, `ue_ipv4_hbo2pfcp_pdr` |
| `SmfSessions` | PDU sessions end to end: SMF contexts and procedures, `AddressPool`, the N4 exchanges, `UpfSwitch` | `objs` are the `smf_pdu_session` objects, `cur` the one each context leads to, `n4` the procedures that wait for the UPF with their request or response; one action for each handler of the SMF and of the UPF's control task, for the loss of a message and for the restart of either program |
| `MCSmfSessions` | | sessions, tunnels, transactions for TLC |
| `SmfSessions_proofs` | | that `SmfSessions` implements `AddressLease`, and theorems about its types, the way of downlink packets and the agreement of SMF and UPF |
| `PduTimers` | the status of one PDU session, T3591 and T3592 | `status`, `upCnx`, `t3591`, `t3592`, `resends` are members of the session, `queue` is that of `TASK_SMF_APP`; one action for each message of the UE, gNB or AMF (workers of the HTTP servers), one for each message the task takes from its queue |
| `PduTimers_proofs` | | theorems about `PduTimers` |
| `NrfRegistry` | the NRF: profiles, heartbeats and their time-outs, subscribers | `db` is `instance_id2nrf_profile`, `objs` the profile objects with the flags and slots of each, `subs` the map of subscriptions; `worker[w].pc` is where a worker of an HTTP server is in its request, which object it found and whom it is to notify; `task` is the handler the task manager is in.  A step ends where a mutex is released or a shared flag or slot changes.  `told` is what the subscribers know |
| `NrfRegistry_proofs` | | theorems about `NrfRegistry` |

There are two abstract specifications.  `TimerService` is what the ITTI timers
promise; `IttiTimer` instantiates it with a refinement mapping (`Phase`) and
implements it (`KeepsContract`).  `AddressLease` is what the address
pool promises; `SmfSessions` instantiates it with the addresses of its objects
for `held` and the clear bits of the map for `free`, and implements it
(`LeasesKept`), so that bit map, procedures and responses in any order together
keep the contract, not the pool alone.  Both refinements are checked by TLC on
small instances and proved for all constants.

Modules rest on what another one shows rather than repeat it.
`PfcpHeartbeat`, `PfcpStack` and `PduTimers` use timers by the contract of
`TimerService`, without its phase *lost*, and their liveness properties assume
that an armed timer expires, which the ITTI does not always keep (section 3,
Fairness).  An N4 exchange of `SmfSessions` is executed at most once and
its answer reaches its own procedure, which is `NoDoubleService` and
`AnswersOwn` of `PfcpStack`; whether a session finds an associated UPF is a
choice there and the subject of `PfcpHeartbeat`.

Each module also has a few definitions called *Fault*: the definition next to
them with a plausible mistake.  They are no part of a specification.  They are
there to show that the properties notice: with a fault in place of the
original, TLC reports the property that `PROJECT.json` names for it.

## 3. Runs

Runs that pass:

| Run | Properties | What it shows | Bounds, and why they are enough |
|---|---|---|---|
| `lmf_solo` | `TypeOK`, `SoloExact`, `EveryRequestAnswered` | a request nothing overlapped is answered exactly, whatever torn values earlier overlapping requests left; every request is answered | 2 threads, one vector at the origin and one without a solution, 2 iterations: two threads produce every mixture of two vectors; what a request with an ordinary vector is answered follows for all constants from the proofs |
| `itti_contract` | `TypeOK`, `KeepsContract`, `UndisturbedPendingEnds` | locks and condition variables implement `TimerService`; until `timer_remove` is called no timer is forgotten | 2 callers, 2 timers, intervals 0 to 2, 2 removals, clock to 3: a timer current, one in the set, removal of either at every point of the thread, equal deadlines, equal ids |
| `hb_watch` | `TypeOK`, `Monitored`, `SilentUpfRemoved` | an associated UPF is watched at every moment, a dead one is removed | 2 setups, 1 answer, 2 retries, interval of 2 response times: every order of a repeated setup, a late answer and queued time-outs |
| `stack_pairing` | `TypeOK`, `OneAnswer`, `NoDoubleService`, `AnswersOwn` | SMF and UPF both start a transaction, with numbers that collide or not; or the SMF starts two, whose answers come in any order, late and repeated | 2 requests, at most 1 of the UPF, which alone sends reports (`FewRequests`); 2 numbers, so that they wrap; the UPF starts at every number and the SMF at 0, since only differences of numbers matter; one message twice |
| `stack_retries` | `OneAnswer`, `QuietAfterAnswer`, `ProcedureEnds` | with time-outs passed to `time_out_event`: retries race answers, procedures end | 1 request, 1 retry, one repetition |
| `sessions` | `TypeOK`, `RouteToHolder`, `Agreement`, `LeasesKept` | addresses have one owner through losses and restarts; downlink packets reach the session that holds their address; with nothing on its way SMF and UPF agree on a session | 2 PDU sessions, 2 create requests, a pool of 1 address in words of 2 bits, 1 tunnel, 2 exchanges at a time, 1 mishap: the address passes from one session to another while exchanges of both are on their way; a session is created anew, overtaken, its request or response lost, either program restarted at any moment; the second word appears |
| `registry` | `TypeOK`, `HeartbeatCounts`, `Watched`, `SubscribersKnow` | an NF that sent a heartbeat survives the next time-out; as long as it is taken for registered something waits to suspend it; its subscribers know whether it is registered | 1 NF, 1 subscriber, 2 workers and the task manager, 2 objects: any two requests and a time-out overlap, an old profile against a new one; requests and time are not bounded.  Two NFs share nothing but the maps and the task manager |
| `timers` | `TypeOK`, `ModificationWatched`, `ReleaseIsFinal`, `ModificationEnds` | a pending modification is watched by T3591 and ends; a completed release stays | 1 retransmission, 2 requests, 4 timer ids: a modification against a release, a second modification after a late time-out, an answer of the UPF between them |

Runs that find a disagreement between code and comment (findings):

| Run | Property | What the run shows |
|---|---|---|
| `itti_stuck` | `PendingEnds` | the thread compares `current_timer` with the clock without a lock; a notification of `timer_remove` between that and its wait is lost, `current_timer` is then `null_timer`, and the thread waits for decades unless somebody sets up or removes another timer |
| `hb_silent` | `FailsOnlyWhenSilent` | a time-out queued before the last answer was handled removes the association after it |
| `stack_silent` | `ProcedureEnds` | the tasks drop the stack's time-outs: no retry, no clean-up |
| `collision` | `ReplacedIsDeleted` | a create request for a PDU session id in use replaces the object without a word to the UPF, where its session stays; the comment says its resources in the UPF are deleted |

Two oddities of the timers are part of `TimerService` rather than runs of their
own, and occur in `itti_contract`: `++timer_id` from two tasks can give one id
twice, and a timer with a deadline equal to another's is not kept although its
id is returned (the phase *lost*).  Deadlines have the resolution of
`system_clock`, so the latter is rare.

`timer_setup` meets the same window: the thread then sleeps past the deadline
of a new, earlier timer, but no longer than the timer it sleeps on.  So
`UndisturbedPendingEnds` holds as long as nobody removes a timer, and
`PendingEnds` does not hold once somebody does.  In
the same way `ProcedureEnds` holds of the stack as its interface asks to be
used (`stack_retries`) and fails as both programs use it (`stack_silent`).

`AnswersOwn` needs a number for each request of a node that may still be
pending: `stack_pairing` has two for two requests, the code 2^24.  With fewer it
fails: a new request of the number of a pending one is not entered into the map
of procedures, and its answer is handed to the old transaction.  Since both
programs drop the time-outs of the stack, a request whose answer was lost stays
pending for good, and 2^24 requests later its number comes up again.  So
`AnswersOwn` is a statement about the requests before that wrap.  `OneAnswer`
and `NoDoubleService` do not depend on it.
`stack_pairing` drops the time-outs as both programs do; that `AnswersOwn`
holds with the time-outs passed on, too, is proved (section 4).

**What `SmfSessions` does not promise.**  After a restart only `TypeOK` and
`LeasesKept` are left: nobody restores sessions, and their identifiers are used
again.  Before one, three kinds of sessions are set apart by history variables.
`forsaken` objects were replaced by a new one (`collision`), gave their
resources back before the UPF did, or lost a message.  Tunnels of `raced`
sessions, two of whose exchanges overlapped, may differ, since requests
overtake each other.  An address in `early` was given back while the UPF still
had a rule for it: a release indication of the AMF only makes the UPF drop the
packets, and the SMF gives the address back.  Until the UPF deletes the
session, a new owner of that address has the old rule before it, or none, since
the rule is added behind none of lower precedence.

**What `NrfRegistry` does not promise.**  A first heartbeat that comes before
the first slot is connected, or after that slot has suspended the NF and
disconnected itself, finds nothing to exchange and connects nothing: the NF is
`REGISTERED` from then on, whether it sends heartbeats or not (`late`).  A
heartbeat while a time-out of the same profile is handled may be forgotten by
it.  A subscription made while an NF deregisters can miss the notification and
then be told of the profile that is about to go (`crossed`).

`PduTimers` has no time-out for T3592 to act on: the task has no case for it,
so a release the UE never answers stays `INACTIVE_PENDING`.

`CHECK_DEADLOCK FALSE` where the bounds stop the system: clock, requests, setups
and answers are bounded, and a system with nothing left to do is not stuck.
The LMF run checks deadlock, because clients can always send.

**Fairness.**  LMF: every worker with a request goes on (the operating system
schedules threads; clients need not send).  ITTI: time passes, the timer thread
runs, a call that has begun returns, under weak fairness; nobody has to call,
and no wait ends spuriously by obligation.  For a caller between the load and
the store of `timer_id` nothing is assumed: `Pending` begins after it.
Heartbeat and stack: time passes, expired timers are queued, both threads run;
the network and the peer promise nothing.  Timers of PDU sessions: an armed
timer expires and `TASK_SMF_APP` empties its queue; UE, gNB, UPF and AMF promise
nothing, so that `ModificationEnds` holds without them.

That an armed timer is delivered is an assumption of `SilentUpfRemoved`,
`ProcedureEnds` and `ModificationEnds`, and the finding `itti_stuck` contradicts
it: a removal of a timer in the window between the comparison with the clock and
the wait makes the timer thread sleep until somebody sets up or removes another
one, and until then no armed timer is delivered; and of two timers with the same
deadline one is lost.  The three properties say what heartbeats, the stack and
the status of a session do as long as neither happens.  In a program with
traffic the first heals itself with the next timer that is set up or removed;
the second does not.

**Bounds** are constants with names (`MaxTimers`, `MaxTime`, `MaxRemoves`,
`MaxSetups`, `MaxAnswers`, `MaxRequests`, `MaxDups`, `MaxObjs`, `MaxMishaps`, and
the sizes of `Trxns` and `TimerIds`) and appear in guards; `FewRequests` of
`stack_pairing` is a constraint on two counters at once.  `MaxResend` is a
constant of the code.  The sets `Pdus` and `Trxns` of `sessions` are symmetric:
no property tells their members apart.
That `PfcpHeartbeat` stays finite without a bound on its timers and
transactions is due to those on setups and answers: each association fails
after its retries.

## 4. Proofs

Checked by TLAPS, for every value of the constants:

| Theorem | Statement |
|---|---|
| `LmfServer_proofs!Typed` | `Spec => []TypeOK` |
| `LmfServer_proofs!SoloCorrect` | `Spec => []SoloExact` |
| `LmfServer_proofs!OneThreadCorrect` | `Spec => []OneThreadExact` |
| `PfcpHeartbeat_proofs!HeartbeatTyped` | `Spec => []TypeOK` |
| `PfcpHeartbeat_proofs!AlwaysMonitored` | `Spec => []Monitored` |
| `PduTimers_proofs!TimersTyped` | `Spec => []TypeOK` |
| `PduTimers_proofs!AlwaysWatched` | `Spec => []ModificationWatched` |
| `PduTimers_proofs!ReleaseFinal` | `Spec => []ReleaseIsFinal` |
| `IttiTimer_proofs!TimerTyped` | `Spec => []TypeOK` |
| `IttiTimer_proofs!TimersKeepContract` | `Spec => KeepsContract` |
| `PfcpStack_proofs!StackTypes` | `Spec => []TypeOK` |
| `PfcpStack_proofs!AnsweredOnce` | `Spec => []OneAnswer` |
| `PfcpStack_proofs!ServedOnce` | `Spec => []NoDoubleService`, the time-outs dropped |
| `PfcpStack_proofs!OwnAnswers` | `Spec => []AnswersOwn`, with `MaxRequests <= SeqMod` |
| `PfcpStack_proofs!Quiet` | `Spec => QuietAfterAnswer`, with `MaxRequests <= SeqMod` |
| `AddressPool_proofs!FreeIsFree` | the free bit found is that of an untaken address of the range |
| `SmfSessions_proofs!SessionsKeepLeases` | `Spec => LeasesKept` |
| `SmfSessions_proofs!LeasesExclusive` | `LeasesKept => []Leases!Exclusive` |
| `SmfSessions_proofs!AddressesOwned` | `Spec => []OneOwner` |
| `SmfSessions_proofs!SessionsTyped` | `Spec => []TypeOK` |
| `SmfSessions_proofs!PacketsReachTheirHolder` | `Spec => []RouteToHolder` |
| `SmfSessions_proofs!SidesAgree` | `Spec => []Agreement` |
| `NrfRegistry_proofs!RegistryTyped` | `Spec => []TypeOK` |
| `NrfRegistry_proofs!HeartbeatsCount` | `Spec => []HeartbeatCounts` |
| `NrfRegistry_proofs!RegisteredAreWatched` | `Spec => []Watched` |
| `NrfRegistry_proofs!SubscribersLearn` | `Spec => []SubscribersKnow` |

*Assumptions* are the ones the modules name (`LmfAssumption`,
`TimerAssumption`, `HeartbeatAssumption`, `StackAssumption`, `TimersAssumption`,
`PoolAssumption`, `SessionsAssumption`, `RegistryAssumption`): vectors without a solution and at the
origin are distinct, a bad body is no vector, intervals and bounds are numbers,
no timer has the id 0, words and pools are not empty, the addresses of UEs
are those of the pool, the UPF can tell apart as many sessions as the SMF asks
for in `MaxMishaps + 1` lives, and no NF has an empty instance id.  `AddressLease` needs none.  Two assumptions are of the
theorems themselves.  `ServedOnce` needs the time-outs dropped, as both programs
drop them: `time_out_event` would delete a procedure whose request is still
being served.  `OwnAnswers` and `Quiet` need no more requests than there are
sequence numbers; the code has 2^24.

*LMF.*  `SoloExact` speaks of replies only, and is not inductive.  `SoloInv`
adds the types, `Asked` (past parsing a thread serves a vector) and `Serving`:
a thread whose request nobody has overlapped is alone, and `Phase` says for
each place in the handler which matrix already holds what the request asks for.
`OwnServing` takes `Phase` through the thread's own steps, `OthersServing` says
that other threads have none, and `OwnReply` that the reply follows.  With one
thread `NeverOverlapped` holds of every request, and `OneThreadExact` follows
from `SoloExact`; it has no run of its own.

*Heartbeat.*  `Monitored` is inductive relative to `TypeOK`: every step that
takes away one reason (a timer expires, its time-out is taken from the queue, a
thread stops a timer) provides another or removes the association.  Its
disjunct `armed # {}` would be disturbed by `StopTimer`, which is why the
threads' places are part of the statement: the thread that stops a timer is
about to set one up.

*Timers of PDU sessions.*  `ModificationWatched` alone is not inductive: a
time-out of T3591 ends the state or starts the timer again only if a command is
pending.  `CommandKept` says
that a session waiting for a modification has a pending command;
together with `TypeOK` it gives `WatchInv`.  For `ReleaseIsFinal` the invariant
`Settled` says what is still possible after such a release: the UE
does not know the session, no T3591 runs, and all that can still reach the task
are time-outs of T3592, which it drops, and answers to disposals, which make the
session inactive once more.

*ITTI timers.*  `TimerInv` follows a timer through the program: the one a task
is about to insert is its own and nowhere else (`Inserting`), those of the set
are not the thread's (`Queued`), the thread's was not sent before `SendMsg`,
was after it, and is due once the thread is past its wait (`AtHand`), and the
timer a field of the message was read of is the thread's or one removed at or
after its deadline (`Read`).  The last is what the unlocked reads of
`current_timer` could break.  Every step is then a step of `TimerService` or a
stutter: `SetupConstruct` arms, `SendMsg` fires, both forms of removal remove,
and `SetupInsert` and `Requeue` lose a timer whose deadline another has.
`Counted` bounds the timers under construction and is there for the types.

*PFCP stack.*  `StackInv` ties the tables to each other.  `Numbered`: the map of
sequence numbers has every pending procedure, and only transactions given out.
`Owned`: a procedure with a message to send again is that of a transaction begun
here.  `UnderWay` and `BeingServed`: what is on the way or being served belongs
to a transaction that was begun, and carries the number it began with.
`Unanswered`: a procedure that would take an answer has had none.
`OneAnswer` is part of it.  For `NoDoubleService` the further invariant `Kept`
says that the procedure of what is served is still pending; for `AnswersOwn`,
`Window` and `OneSeq` say that a node's own sequence numbers are distinct while
they last; for `QuietAfterAnswer`, `Waited` says that a timer in the retry map
waits for the last transmission of an unanswered transaction.

*Leases.*  `Exclusive` follows from the inductive `Owned` of the contract; like
the contract it is stated of the addresses and the bit map of `SmfSessions`.
`AddressPool_proofs` shows for any width of the words and any size of the pool
that `SetBit` adds its address to `Taken` and no other, that `Released` takes
it away, that both keep the surplus bits of the last word (`Shape`), and that
the free bit the pool finds is in its range and not taken.  `SessionInv` adds
what the sessions contribute: an object without a UPF has no flow, and only
objects with a UPF have exchanges (`ExchangesOK`), so that a response never
gives back an address its object already lost.  With that, `CreateSMContext`
leases, `Deallocate` returns, `RestartSmf` ends all leases and every other step
stutters (`NextLeases`).  `AddressesOwned` then carries `Exclusive` back to the
objects and the bits.

*Types of the sessions.*  That every UP F-SEID is one of `UpSeids` is not a
matter of types: `Counted` says that the SEIDs the UPF generated and the
establishments on their way to it are no more than the objects the SMF created
in all its lives.  A set of exchanges loses one for each SEID generated and
gets one for each object, so the proof is about cardinalities (`CountedOpen`,
`CountedHandled`).

*The way of downlink packets.*  `RouteToHolder` needs that no rule is installed
late for an address that has a new owner.  `Routes` says why.  `SessionOf`: the
sessions of the UPF and its index of CP F-SEIDs are inverse to each other.
`Led`: an UP F-SEID an object or one of its exchanges knows leads to the
session of that object or nowhere, also when a request is executed long after
it was sent.  `First`: until an establishment is answered and the answer read,
no other request of its object can succeed.  `Addressed`: a rule to be created
is for the address its object holds, or the address was given back early, or
the session is gone for good and the request will be refused.  `Routed`: the
table of addresses has one rule for each address in use and none for another.
With `OneOwner` a rule under an address is then that of its holder.

*Agreement of SMF and UPF.*  `Agreement` speaks of sessions with nothing on
their way, so its invariant `Agrees` says what may be on its way when the sides
differ.  `Attached`: if only the UPF has the session the answer to its
establishment is on its way, if only the SMF has it the answer to its deletion
is, and that answer finds its procedure.  `Alone`: a session that was never
raced has one exchange at most.  `InStep`: that exchange carries the tunnel the
SMF has stored (which it stores before the UPF has answered), the UPF can
execute it, and once the UPF has, or if there is none, both have the same
downlink.  Each of the three holds only as long as the session was not
forsaken or raced, and the proof of each step says which (`UpfAgrees`,
`ResponseAgrees`, `LossAgrees`).  `RouteToHolder` gives the last conjunct.

*NRF.*  `TypeInv` adds to the types that every reference of a worker, of the
task manager and of the map leads to a profile of the right NF (`Referring`),
that a profile nobody refers to is gone (`Destroyed`), and that a heartbeat
clears `first_update` once (`OncePeriodic`).  `HeartbeatCounts` becomes
inductive with the two facts of `HeartbeatInv`: a heartbeat that counts for two
time-outs has set `is_updated` outside the handler of its profile, and the
handler that is about to suspend found none that counts.  `Watched` rests on
`WatchInv`: whoever records a heartbeat has first secured the profile (its
periodic slot is connected, or a worker goes on to connect it, or the heartbeat
came late), and a handler that disconnects the first slot leaves a profile that
is secured, suspended, or about to be met by a heartbeat.  `SubscribersKnow`
rests on `Tracked`: a subscriber not told of a registration yet will be found
by the worker that tells of it, or finds the profile itself; who is told of a
registration is told of the deregistration before the profile is removed.

Every safety property of a passing run is proved.  What stays with TLC:

* liveness under fairness, out of the prover's reach: `EveryRequestAnswered`,
  `UndisturbedPendingEnds`, `SilentUpfRemoved`, `ProcedureEnds`,
  `ModificationEnds`;
* the properties of the runs that find a disagreement, which do not hold.

No module declares a RECURSIVE operator, and no theorem needs induction over
data.

## 5. What is abstracted, and what is not modelled

* LMF: the arithmetic of the trilateration; whether it converges is a choice.
  A shared matrix is written in two steps, so that a reader finds its old
  value, its new value or a mixture; the undefined behaviour of a reallocation
  under a reader (`res` changes its size when a localization fails) is beyond
  that.  Exceptions that leave a handler are answered 500 by pistache.
* ITTI: `send_msg` for a task that is not ready drops the message; the tasks
  are ready here.  The queues and the life cycle of the tasks are not modelled.
  `timer_remove` is called with ids that `timer_setup` returned, and with 0.
* Heartbeat: one UPF, found by its hash; IPv4 or FQDN (for an IPv6 node id
  `send_heartbeat_request` has a TODO and sets no timer).  Graceful release and
  session restoration are planned.  A removal of the association and the
  report to the SMF application are one step.  A heartbeat response counts once,
  because its procedure stays pending in the stack (`stack_pairing`).
* Stack: a call is one step.  That the UDP thread and a task can be inside the
  unlocked maps at once is undefined behaviour with no outcomes to enumerate.
  `send_response` with `CONTINUE_TX`, which no caller uses, is left out.  The
  dispatch of time-outs together with requests from both nodes is left out,
  because `time_out_event` would use a `retry_msg` that a peer's procedure does
  not have.  Response types match by message type, as in `check_response_type`.
* PDU sessions (`SmfSessions`): a handler is one step, in the SMF and in the
  UPF, so interleavings of two handlers inside the same session object are not
  explored; handlers do interleave between their steps.  A session has one QoS flow and IPv4 only; one UPF, one pool; no static
  and no IPv6 addresses.  Of the handover procedures only the path switch is
  there; service requests, modifications the network asks for and QoS rules are
  not.  The UPF's buffering and reports, and the removal of single rules, which
  the SMF never asks for, are left out.  Generators of identifiers do not wrap.
  A restart of the UPF goes unnoticed here: restoration in the SMF sends
  nothing, since nothing calls `notify_add_session` and an association has no
  sessions to restore.
* Timers of PDU sessions (`PduTimers`): one session; a handler is one step.  Two
  workers of the HTTP server inside one session without a lock, such as the
  completion of a modification between `smf_context.cpp:1900` and `1902` while
  another is within `1857`-`1875`, are not explored; that the AMF sends the
  messages of a session one at a time largely rules this out.  The N4 part of a procedure is a count of exchanges, whose content is in
  `SmfSessions`.
* NRF (`NrfRegistry`): subscribers ask for registrations and deregistrations of
  one type of NF, without an end of validity, and a notification that is sent is
  received.  Nobody asks for changes of a profile, so other patches only put the
  profile back.  A request has one patch, and a heartbeat says `REGISTERED`.  An
  NF waits for the answer to a registration or deregistration before it sends
  the next (`Quiet`).  The look-up of the subscriptions, which iterates over
  their map without its lock, is one step.  A profile lives until the task
  manager is done with its handler: the slots hold a raw pointer and the code
  does not see to it.  Intervals are left out: a slot can be called whenever it
  is connected.  Search results, access tokens and the other conditions of a
  subscription are not modelled.
* AMF emulator: one asynchronous call and two continuations, with pistache's
  client as the part that matters and outside the repository.  UPF
  associations: the mirror image of `smf_pfcp_association.cpp`.  Only the
  heartbeat in one direction is modelled, and its watching is the SMF's.
* Not modelled: codecs, ASN.1, generated API models, configuration, logging,
  HTTP, cryptography, databases, deployment.  The components with their status
  are listed in `PROJECT.json`.

## 6. Plan

Done: `LmfServer`, `TimerService`, `IttiTimer`, `PfcpHeartbeat`, `PfcpStack`,
`AddressPool`, `AddressLease`, `UpfSwitch`, `SmfSessions`, `PduTimers`,
`NrfRegistry`; proofs as in section 4.

Next, in this order:

1. `UpfAssociation`: candidates, heartbeats and removal on the UPF's side, then
   both sides composed: an association one side keeps and the other lost.
2. `IttiTask`: queues, `create_task`, `send_msg`, `terminate` (messages for a
   task in order, none to an ended one; everybody ends).
3. `UidGenerator`: numbers after the wrap, freed by one thread while another
   searches.
4. `AmfRelay`: the emulator in front of the LMF, composed with an abstract LMF
   (one answer for each request, whoever disconnects when).
5. `NrfRegistry`: search and stored results, changes of a subscription, and the
   clients in AMF, SMF and UPF that register and send the heartbeats.

Theorems planned: that uplink packets reach the session of their tunnel (the
tables `ul` of `UpfSwitch` with the TEIDs the UPF chooses), and the safety
properties of the modules above with them.
