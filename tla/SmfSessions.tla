----------------------------- MODULE SmfSessions -----------------------------
(***************************************************************************)
(* PDU sessions end to end: the session contexts and procedures of the SMF *)
(* (smf_context.cpp, smf_procedure.cpp), its address pool (AddressPool),   *)
(* the session requests it sends over N4, and the tables they change in    *)
(* the UPF (UpfSwitch).                                                    *)
(*                                                                         *)
(* The SMF.  Every PDU session is of a subscriber of its own.  A create    *)
(* request makes a new smf_pdu_session object; an object that another one  *)
(* replaced lives on in the procedures that use it.  Object o is created   *)
(* with the CP F-SEID o.  Workers of the HTTP servers start procedures at  *)
(* any time, also while others of the same session wait for the UPF.       *)
(*                                                                         *)
(* N4.  An exchange is one procedure's request and its response.  They     *)
(* overtake each other and get lost; a request is executed at most once    *)
(* and its response reaches the procedure that waits for it or nobody      *)
(* (NoDoubleService and AnswersOwn of PfcpStack).  A lost request is not   *)
(* sent again: both tasks drop the time-outs of the stack.                 *)
(*                                                                         *)
(* When the SMF restarts it forgets everything and its generators start    *)
(* again; so does the UPF.                                                 *)
(***************************************************************************)
EXTENDS UpfSwitch, AddressPool

CONSTANTS
    Pdus,          \* PDU sessions, each of a subscriber of its own
    MaxObjs,       \* bound on the create requests the SMF serves in a life
    Trxns,         \* transaction ids; their number bounds the N4 exchanges
                   \* at a time
    MaxMishaps     \* bound on lost messages and restarts together

Objs == 1 .. MaxObjs
NoObj == 0

ASSUME SessionsAssumption ==
    /\ MaxObjs \in Nat
    /\ MaxMishaps \in Nat
    /\ CpSeids = Objs
    /\ UpSeids = 1 .. MaxObjs * (MaxMishaps + 1)
    /\ UeAddrs = 0 .. PoolSize - 1
    /\ NoUe \notin UeAddrs

VARIABLES
    alloc,      \* the bit map of the pool
    objs,       \* the smf_pdu_session objects, in the order of their creation
    cur,        \* the object of each PDU session, NoObj if there is none
    offered,    \* PDU sessions whose N2 setup request went to the gNB
    n4,         \* exchanges not yet ended
    upf,        \* the tables of the UPF
    losses,     \* messages lost
    restarts,   \* restarts
    forsaken,   \* history: objects that a new one replaced, that gave back
                \* their resources before the UPF did, or that a loss hit
    raced,      \* history: objects two of whose exchanges overlapped
    early       \* history: addresses given back while the UPF used them

smfVars == <<alloc, objs, cur, offered>>
envVars == <<losses, restarts>>
history == <<forsaken, raced, early>>
vars == <<smfVars, n4, upf, envVars, history>>

Init ==
    /\ alloc = FreshPool
    /\ objs = <<>>
    /\ cur = [p \in Pdus |-> NoObj]
    /\ offered = {}
    /\ n4 = {}
    /\ upf = FreshSwitch
    /\ losses = 0
    /\ restarts = 0
    /\ forsaken = {}
    /\ raced = {}
    /\ early = {}
------------------------------------------------------------------------------
ExchangesOf(o) == {x \in n4 : x.obj = o}

(* A procedure sends its request.  A transaction is free again once its    *)
(* exchange has ended.                                                     *)
Send(op, o, seid, tunnel) ==
    /\ \E i \in Trxns \ {x.trxn : x \in n4} :
          n4' = n4 \cup {[trxn |-> i, op |-> op, obj |-> o, cp |-> o,
                          seid |-> seid, ue |-> objs'[o].addr,
                          tunnel |-> tunnel, phase |-> "request",
                          cause |-> Accepted]}
    /\ raced' = IF ExchangesOf(o) = {} THEN raced ELSE raced \cup {o}

(* A new smf_pdu_session; node: the UPF was selected, flow: it has its     *)
(* default QoS flow, dl: the tunnel of the DL FAR the flow has.            *)
NewObject(p, addr, node) ==
    [pdu |-> p, addr |-> addr, node |-> node, up |-> NoSeid, flow |-> node,
     dl |-> NoFar, released |-> FALSE]

(* handle_pdu_session_create_sm_context_request and the create procedure.  *)
(* An earlier object of the PDU session is dropped as it is.  Without an   *)
(* address the request is rejected; without an associated UPF              *)
(* (PfcpHeartbeat says when there is one) too, and the address is given    *)
(* back but stays in the object.                                           *)
CreateSMContext(p) ==
    LET o == Len(objs) + 1 IN
    /\ o \in Objs
    /\ cur' = [cur EXCEPT ![p] = o]
    /\ forsaken' = forsaken \cup ({cur[p]} \ {NoObj})
    /\ \/ /\ ~HasFree(alloc)
          /\ objs' = Append(objs, NewObject(p, NoUe, FALSE))
          /\ UNCHANGED <<alloc, n4, raced>>
       \/ /\ HasFree(alloc)
          /\ LET a == FreeAddress(alloc)
                 taken == SetBit(alloc, a)
             IN  \/ /\ objs' = Append(objs, NewObject(p, a, TRUE))
                    /\ alloc' = taken
                    /\ Send("establish", o, NoSeid, NoFar)
                 \/ /\ objs' = Append(objs, NewObject(p, a, FALSE))
                    /\ alloc' = Released(taken, a)
                    /\ UNCHANGED <<n4, raced>>
    /\ UNCHANGED <<offered, upf, envVars, early>>

(* An update with the tunnel of a gNB (PDU_RES_SETUP_RSP, PATH_SWITCH_REQ):*)
(* the flow gets its tunnel before the UPF has answered.  One that changes *)
(* nothing, or finds no flow, ends without a request.                      *)
UpdateTunnel(p, t) ==
    LET o == cur[p] IN
    /\ o # NoObj
    /\ p \in offered
    /\ objs[o].flow
    /\ objs[o].dl # t \/ objs[o].released
    /\ objs' = [objs EXCEPT ![o].dl = t]
    /\ Send(IF objs[o].dl = NoFar THEN "create" ELSE "update",
            o, objs[o].up, t)
    /\ UNCHANGED <<alloc, cur, offered, upf, envVars, forsaken, early>>

(* An update with the release indication of the AMF: the UPF is told to    *)
(* drop the packets of the flow.                                           *)
ReleaseFlows(p) ==
    LET o == cur[p] IN
    /\ o # NoObj
    /\ objs[o].flow
    /\ objs' = [objs EXCEPT ![o].released = TRUE]
    /\ Send("silence", o, objs[o].up, objs[o].dl)
    /\ UNCHANGED <<alloc, cur, offered, upf, envVars, forsaken, early>>

(* A release request.  Without a UPF its request goes nowhere.             *)
ReleaseSMContext(p) ==
    LET o == cur[p] IN
    /\ o # NoObj
    /\ objs[o].node
    /\ UNCHANGED objs
    /\ Send("delete", o, objs[o].up, NoFar)
    /\ UNCHANGED <<alloc, cur, offered, upf, envVars, forsaken, early>>
------------------------------------------------------------------------------
(* TASK_SPGWU_APP executes a request; x.cp is the CP F-SEID of an           *)
(* establishment, and then the SEID of the response.                       *)
Answer(x, r) ==
    /\ upf' = r.sw
    /\ n4' = (n4 \ {x}) \cup {[x EXCEPT !.phase = "response",
                                       !.cause = r.cause, !.cp = r.cp,
                                       !.seid = r.seid]}

UpfHandle(x) ==
    /\ x.phase = "request"
    /\ \/ /\ x.op = "establish"
          /\ Answer(x, Establish(upf, x.cp))
       \/ /\ x.op # "establish"
          /\ ~Live(upf, x.seid)
          /\ Answer(x, Unknown(upf))
       \/ /\ Live(upf, x.seid)
          /\ \/ x.op = "create"
                /\ Answer(x, CreateDownlink(upf, x.seid, x.ue, x.tunnel))
             \/ x.op = "update"
                /\ Answer(x, UpdateDownlink(upf, x.seid, x.tunnel))
             \/ x.op = "silence"
                /\ Answer(x, Silence(upf, x.seid, x.tunnel # NoFar))
             \/ x.op = "delete"
                /\ Answer(x, Delete(upf, x.seid))
    /\ UNCHANGED <<smfVars, envVars, history>>
------------------------------------------------------------------------------
(* Fault: clear() is forgotten, the object keeps what it gave back.        *)
DeallocateOnly(o) ==
    LET a == objs[o].addr IN
    /\ alloc' = IF a = NoUe THEN alloc ELSE Released(alloc, a)
    /\ UNCHANGED <<objs, forsaken, early>>

(* deallocate_ressources and clear.                                        *)
Deallocate(o) ==
    LET a == objs[o].addr
        inUse == \E s \in DOMAIN upf.sess : upf.sess[s].cp = o
    IN
    /\ alloc' = IF a = NoUe THEN alloc ELSE Released(alloc, a)
    /\ objs' = [objs EXCEPT ![o] = [NewObject(@.pdu, NoUe, FALSE)
                                        EXCEPT !.node = objs[o].node]]
    /\ forsaken' = IF inUse THEN forsaken \cup {o} ELSE forsaken
    /\ early' = IF inUse THEN early \cup {a} ELSE early

(* A response finds its procedure by the transaction among those of the    *)
(* context its SEID leads to.                                              *)
Expected(x) ==
    /\ x.obj # NoObj
    /\ x.cp \in DOMAIN objs
    /\ objs[x.cp].pdu = objs[x.obj].pdu

(* Fault: the UP F-SEID of the response is not stored.                     *)
ResponseUnread(x) ==
    /\ x.op = "establish"
    /\ offered' = offered \cup {objs[x.obj].pdu}
    /\ UNCHANGED <<alloc, objs, forsaken, early>>

(* handle_itti_msg of the three kinds of procedure.  The answer to a       *)
(* rejected establishment still offers the session to the gNB.             *)
EstablishmentResponse(x) ==
    /\ x.op = "establish"
    /\ objs' = IF x.cause = Accepted THEN [objs EXCEPT ![x.obj].up = x.seid]
               ELSE objs
    /\ offered' = offered \cup {objs[x.obj].pdu}
    /\ UNCHANGED <<alloc, forsaken, early>>

(* The flow, if it is still there, gets the tunnel of the request once     *)
(* more.  Only the response to a creation ends its release.                *)
TunnelResponse(x) ==
    /\ x.op \in {"create", "update"}
    /\ objs' = IF x.cause = Accepted /\ objs[x.obj].flow
               THEN [objs EXCEPT ![x.obj].dl = x.tunnel,
                                 ![x.obj].released = @ /\ x.op = "update"]
               ELSE objs
    /\ UNCHANGED <<alloc, offered, forsaken, early>>

ReleaseResponse(x) ==
    /\ x.op \in {"silence", "delete"}
    /\ IF x.cause = Accepted THEN Deallocate(x.obj)
       ELSE UNCHANGED <<alloc, objs, forsaken, early>>
    /\ UNCHANGED offered

N4Response(x) ==
    /\ x.phase = "response"
    /\ n4' = n4 \ {x}
    /\ IF Expected(x)
       THEN EstablishmentResponse(x) \/ TunnelResponse(x) \/ ReleaseResponse(x)
       ELSE UNCHANGED <<alloc, objs, offered, forsaken, early>>
    /\ UNCHANGED <<cur, upf, envVars, raced>>
------------------------------------------------------------------------------
Lose(x) ==
    /\ losses + restarts < MaxMishaps
    /\ losses' = losses + 1
    /\ n4' = n4 \ {x}
    /\ forsaken' = forsaken \cup ({x.obj} \ {NoObj})
    /\ UNCHANGED <<smfVars, upf, restarts, raced, early>>

RestartUpf ==
    /\ losses + restarts < MaxMishaps
    /\ restarts' = restarts + 1
    /\ upf' = FreshSwitch
    /\ UNCHANGED <<smfVars, n4, losses, history>>

(* Requests on their way still reach the UPF, their answers nobody.        *)
RestartSmf ==
    /\ losses + restarts < MaxMishaps
    /\ restarts' = restarts + 1
    /\ alloc' = FreshPool
    /\ objs' = <<>>
    /\ cur' = [p \in Pdus |-> NoObj]
    /\ n4' = {[x EXCEPT !.obj = NoObj] : x \in {y \in n4 : y.phase = "request"}}
    /\ UNCHANGED <<offered, upf, losses, history>>
------------------------------------------------------------------------------
Next ==
    \/ \E p \in Pdus :
          \/ CreateSMContext(p)
          \/ \E t \in Tunnels : UpdateTunnel(p, t)
          \/ ReleaseFlows(p)
          \/ ReleaseSMContext(p)
    \/ \E x \in n4 : UpfHandle(x) \/ N4Response(x) \/ Lose(x)
    \/ RestartUpf
    \/ RestartSmf

Spec == Init /\ [][Next]_vars
------------------------------------------------------------------------------
TypeOK ==
    /\ \A o \in DOMAIN objs :
          objs[o] \in [pdu : Pdus, addr : UeAddrs \cup {NoUe}, node : BOOLEAN,
                      up : UpSeids \cup {NoSeid}, flow : BOOLEAN,
                      dl : Tunnels \cup {NoFar}, released : BOOLEAN]
    /\ cur \in [Pdus -> DOMAIN objs \cup {NoObj}]
    /\ offered \subseteq Pdus
    /\ \A x \in n4 :
          /\ x.op \in {"establish", "create", "update", "silence", "delete"}
          /\ x.phase \in {"request", "response"}
          /\ x.obj \in DOMAIN objs \cup {NoObj}
    /\ \A s \in DOMAIN upf.sess :
          /\ upf.sess[s].ulFar \in {Forward, Drop}
          /\ upf.sess[s].dlFar \in Tunnels \cup {NoFar, Notify}
    /\ losses + restarts \in 0 .. MaxMishaps

(* Addresses have one owner: the bit map and the objects together do what  *)
(* AddressLease says, whatever exchanges overlap, get lost or are          *)
(* forgotten (get_free_paa, release_paa, deallocate_ressources).           *)
Leases == INSTANCE AddressLease WITH
    Holders <- Objs,
    Addresses <- UeAddrs,
    NoAddr <- NoUe,
    held <- [o \in Objs |-> IF o \in DOMAIN objs /\ objs[o].node
                           THEN objs[o].addr ELSE NoUe],
    free <- UeAddrs \ Taken(alloc)

LeasesKept == Leases!LeaseSpec

(* Downlink packets go to the session that owns their destination: as long *)
(* as nobody gave the address back before the UPF forgot it, the session   *)
(* with a rule for the address is the only one, the table leads to it, and *)
(* its object holds the address (add_pfcp_dl_pdr_by_ue_ip, cleanup).       *)
RouteToHolder ==
    restarts = 0 =>
        \A s \in DOMAIN upf.sess :
            LET a == upf.sess[s].ue IN
            a \notin early \cup {NoUe} =>
                /\ DownlinkSession(upf, a) = s
                /\ objs[upf.sess[s].cp].addr = a

(* When no exchange of a session is on its way, the SMF and the UPF agree  *)
(* on it: it exists on both sides or on none, and its downlink packets go  *)
(* to the tunnel the SMF was told last.  Not promised: sessions that were  *)
(* forsaken, tunnels of those whose exchanges overlapped.                  *)
Agreement ==
    restarts = 0 =>
        \A o \in DOMAIN objs \ forsaken : ExchangesOf(o) = {} =>
            LET up == objs[o].up IN
            /\ {s \in DOMAIN upf.sess : upf.sess[s].cp = o} = {up} \ {NoSeid}
            /\ up # NoSeid /\ o \notin raced =>
                  /\ upf.sess[up].dlFar = objs[o].dl
                  /\ objs[o].dl # NoFar /\ objs[o].addr \notin early =>
                        DownlinkSession(upf, objs[o].addr) = up

(* "Delete the local context (including and any associated resources in    *)
(* the UPF and PCF) and create a new one" (smf_app.cpp:998-1001): once     *)
(* nothing is on its way, no session of the UPF belongs to an object that  *)
(* a new one replaced.                                                     *)
ReplacedIsDeleted ==
    n4 = {} /\ losses + restarts = 0 =>
        \A s \in DOMAIN upf.sess : \E p \in Pdus : cur[p] = upf.sess[s].cp
==============================================================================
