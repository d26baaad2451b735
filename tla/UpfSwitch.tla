------------------------------ MODULE UpfSwitch ------------------------------
(***************************************************************************)
(* The rule tables of the UPF (pfcp_switch and pfcp_session): what its     *)
(* control task does to them on the session requests of the SMF.  They are *)
(* operators on the record sw of the tables:                               *)
(*   cp        UP SEID by CP F-SEID          cp_fseid2pfcp_sessions        *)
(*   sess      sessions by UP SEID           up_seid2pfcp_sessions         *)
(*   ul        uplink rules by TEID          ul_s1u_teid2pfcp_pdr          *)
(*   dl        downlink rules by UE address  ue_ipv4_hbo2pfcp_pdr          *)
(*   lastSeid, lastTeid   the generators                                   *)
(* A key absent from a table leads to NoSeid or to an empty sequence.      *)
(*                                                                         *)
(* A session has one QoS flow: an uplink rule with its forwarding action,  *)
(* and at most one downlink rule.  A rule in a table is the SEID of its    *)
(* session and its precedence.  The requests are those the SMF sends, so   *)
(* no mandatory element is missing and no rule is ever removed alone.      *)
(***************************************************************************)
EXTENDS Integers, Sequences, SequencesExt

CONSTANTS
    CpSeids,    \* the CP F-SEIDs the SMF may use
    UpSeids,    \* the UP SEIDs, and TEIDs, the UPF may generate
    UeAddrs,    \* addresses of UEs
    NoUe,       \* no address
    Tunnels     \* F-TEIDs of gNBs

NoSeid == 0
Drop == "drop"       \* the actions of a FAR besides forwarding
Notify == "nocp"
Forward == "forw"
NoFar == "none"

(* The causes of responses.                                                *)
Accepted == "REQUEST_ACCEPTED"
Rejected == "REQUEST_REJECTED"
NotFound == "SESSION_CONTEXT_NOT_FOUND"
RuleFailure == "RULE_CREATION_MODIFICATION_FAILURE"

Pdr(seid, precedence) == [seid |-> seid, precedence |-> precedence]

FreshSwitch ==
    [cp |-> [f \in CpSeids |-> NoSeid],
     sess |-> <<>>,
     ul |-> [t \in UpSeids |-> <<>>],
     dl |-> [a \in UeAddrs |-> <<>>],
     lastSeid |-> 0,
     lastTeid |-> 0]

Live(sw, seid) == seid \in DOMAIN sw.sess

(* add_pfcp_ul_pdr_by_up_teid and add_pfcp_dl_pdr_by_ue_ip: the first rule *)
(* of a key makes a list; a later one goes before the first rule of lower  *)
(* precedence value, and nowhere if there is none.                         *)
WithPdr(pdrs, pdr) ==
    LET lower == {i \in DOMAIN pdrs : pdrs[i].precedence < pdr.precedence} IN
    IF pdrs = <<>> THEN <<pdr>>
    ELSE IF lower = {} THEN pdrs
    ELSE InsertAt(pdrs, Min(lower), pdr)

(* handle_pfcp_session_establishment_request, with one uplink rule whose   *)
(* F-TEID the UPF is to choose.                                            *)
Establish(sw, cp) ==
    LET seid == sw.lastSeid + 1
        teid == sw.lastTeid + 1
        session == [cp |-> cp, teid |-> teid, ulFar |-> Forward,
                    dlFar |-> NoFar, ue |-> NoUe]
    IN
    IF sw.cp[cp] # NoSeid
    THEN [sw |-> sw, cause |-> Rejected, cp |-> cp, seid |-> NoSeid]
    ELSE [sw |-> [sw EXCEPT !.cp[cp] = seid,
                            !.sess = [s \in DOMAIN @ \cup {seid} |->
                                         IF s = seid THEN session ELSE @[s]],
                            !.ul[teid] = WithPdr(@, Pdr(seid, 0)),
                            !.lastSeid = seid,
                            !.lastTeid = teid],
          cause |-> Accepted, cp |-> cp, seid |-> seid]

(* handle_pfcp_session_modification_request.  An unknown SEID leaves the   *)
(* CP SEID of the response 0.                                              *)
Unknown(sw) == [sw |-> sw, cause |-> NotFound, cp |-> NoSeid, seid |-> NoSeid]

(* A FAR to the tunnel of the gNB and the rule of the UE's address.        *)
CreateDownlink(sw, seid, ue, tunnel) ==
    [sw |-> [sw EXCEPT !.sess[seid].dlFar = tunnel,
                       !.sess[seid].ue = ue,
                       !.dl[ue] = WithPdr(@, Pdr(seid, 0))],
     cause |-> Accepted, cp |-> sw.sess[seid].cp, seid |-> NoSeid]

(* An update of a FAR that is not there fails.                             *)
UpdateDownlink(sw, seid, tunnel) ==
    LET there == sw.sess[seid].dlFar # NoFar IN
    [sw |-> IF there THEN [sw EXCEPT !.sess[seid].dlFar = tunnel] ELSE sw,
     cause |-> IF there THEN Accepted ELSE RuleFailure,
     cp |-> sw.sess[seid].cp, seid |-> NoSeid]

(* The updates of a release: the downlink FAR, if the SMF has one, then    *)
(* the uplink FAR whether the first update failed or not.                  *)
Silence(sw, seid, downlink) ==
    LET done == IF downlink THEN UpdateDownlink(sw, seid, Notify)
                ELSE [sw |-> sw, cause |-> Accepted,
                      cp |-> sw.sess[seid].cp, seid |-> NoSeid]
    IN  [done EXCEPT !.sw.sess[seid].ulFar = Drop]

(* Fault: the session goes without its cleanup.                            *)
UncleanSession(sw, seid) ==
    [sw EXCEPT !.cp[sw.sess[seid].cp] = NoSeid,
               !.sess = [t \in DOMAIN @ \ {seid} |-> @[t]]]

(* remove_pfcp_session: cleanup erases the whole list of each key of its   *)
(* rules.                                                                  *)
WithoutSession(sw, seid) ==
    LET s == sw.sess[seid] IN
    [sw EXCEPT !.cp[s.cp] = NoSeid,
               !.sess = [t \in DOMAIN @ \ {seid} |-> @[t]],
               !.ul[s.teid] = <<>>,
               !.dl = IF s.ue = NoUe THEN @ ELSE [@ EXCEPT ![s.ue] = <<>>]]

(* handle_pfcp_session_deletion_request.                                   *)
Delete(sw, seid) ==
    [sw |-> WithoutSession(sw, seid), cause |-> Accepted,
     cp |-> sw.sess[seid].cp, seid |-> NoSeid]

(* pfcp_session_look_up_pack_in_core: the first rule of the destination    *)
(* address decides; its session may be gone.                               *)
DownlinkSession(sw, a) == IF sw.dl[a] = <<>> THEN NoSeid ELSE sw.dl[a][1].seid
==============================================================================
