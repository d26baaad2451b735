-------------------------- MODULE SmfSessions_proofs --------------------------
(***************************************************************************)
(* What SmfSessions promises, for any number of sessions, exchanges and    *)
(* addresses.  Each part rests on the ones before it:                      *)
(*   - the sessions keep the contract AddressLease of the address pool     *)
(*     (SessionInv), so that no two of them have one address (Owned);      *)
(*   - everything has its type, and the UPF never runs out of SEIDs        *)
(*     (TypedInv);                                                         *)
(*   - downlink packets reach the holder of their destination (RouteInv);  *)
(*   - the SMF and the UPF agree on a session when none of its exchanges   *)
(*     is on its way (AgreeInv).                                           *)
(***************************************************************************)
EXTENDS SmfSessions, AddressPool_proofs, SequenceTheorems, FiniteSetTheorems

Held ==
    [o \in Objs |-> IF o \in DOMAIN objs /\ objs[o].node THEN objs[o].addr ELSE NoUe]

Free == UeAddrs \ Taken(alloc)

(* Without a UPF an object has no flow.                                    *)
IsObject(b) ==
    /\ {"addr", "node", "flow"} \subseteq DOMAIN b
    /\ b.addr \in UeAddrs \cup {NoUe}
    /\ b.node \in BOOLEAN /\ b.flow \in BOOLEAN
    /\ b.flow => b.node

ObjectsOK ==
    /\ \E T : objs \in Seq(T)
    /\ Len(objs) <= MaxObjs
    /\ \A o \in DOMAIN objs : IsObject(objs[o])

CurOK == cur \in [Pdus -> DOMAIN objs \cup {NoObj}]

(* Only objects with a UPF have exchanges: what a response gives back is   *)
(* an address somebody holds.                                              *)
ExchangesOK ==
    \A x \in n4 :
        /\ "obj" \in DOMAIN x
        /\ x.obj # NoObj => x.obj \in DOMAIN objs /\ objs[x.obj].node

SessionInv == Shape(alloc) /\ ObjectsOK /\ CurOK /\ ExchangesOK
------------------------------------------------------------------------------
LEMMA RangeIsAddresses == UeAddrs = Range4 /\ NoUe \notin UeAddrs
  BY SessionsAssumption DEF Range4

LEMMA ObjectNumbers ==
    ASSUME ObjectsOK
    PROVE  /\ Len(objs) \in Nat /\ DOMAIN objs = 1 .. Len(objs)
           /\ DOMAIN objs \subseteq Objs /\ NoObj \notin DOMAIN objs
  BY SessionsAssumption, LenProperties DEF ObjectsOK, Objs, NoObj

LEMMA Appended ==
    ASSUME ObjectsOK, NEW b, IsObject(b), Len(objs) + 1 \in Objs,
           objs' = Append(objs, b)
    PROVE  /\ ObjectsOK'
           /\ DOMAIN objs' = DOMAIN objs \cup {Len(objs) + 1}
           /\ \A o \in DOMAIN objs : objs'[o] = objs[o]
           /\ objs'[Len(objs) + 1] = b
  <1>1. PICK T : objs \in Seq(T)
    BY DEF ObjectsOK
  <1>2. objs \in Seq(T \cup {b})
    BY <1>1
  <1>3. /\ objs' \in Seq(T \cup {b}) /\ Len(objs') = Len(objs) + 1
        /\ \A i \in 1 .. Len(objs) : objs'[i] = objs[i]
        /\ objs'[Len(objs) + 1] = b
    BY <1>2, AppendProperties
  <1>4. DOMAIN objs' = DOMAIN objs \cup {Len(objs) + 1}
    BY <1>2, <1>3, LenProperties
  <1>5. Len(objs') <= MaxObjs
    BY <1>3, ObjectNumbers, SessionsAssumption DEF Objs
  <1>6. \A o \in DOMAIN objs' : IsObject(objs'[o])
    BY <1>3, <1>4, ObjectNumbers DEF ObjectsOK
  <1>7. \A o \in DOMAIN objs : objs'[o] = objs[o]
    BY <1>3, ObjectNumbers
  <1> QED
    BY <1>3, <1>4, <1>5, <1>6, <1>7 DEF ObjectsOK, IsObject

LEMMA Replaced ==
    ASSUME ObjectsOK, NEW q \in DOMAIN objs, NEW b, IsObject(b),
           objs' = [objs EXCEPT ![q] = b]
    PROVE  /\ ObjectsOK' /\ DOMAIN objs' = DOMAIN objs
           /\ \A o \in DOMAIN objs : objs'[o] = IF o = q THEN b ELSE objs[o]
  <1>1. PICK T : objs \in Seq(T)
    BY DEF ObjectsOK
  <1>2. objs \in Seq(T \cup {b})
    BY <1>1
  <1>3. objs' \in Seq(T \cup {b}) /\ Len(objs') = Len(objs)
    BY <1>2, ExceptSeq, ObjectNumbers
  <1>4. /\ DOMAIN objs' = DOMAIN objs
        /\ \A o \in DOMAIN objs : objs'[o] = IF o = q THEN b ELSE objs[o]
    OBVIOUS
  <1>5. \A o \in DOMAIN objs' : IsObject(objs'[o])
    BY <1>4 DEF ObjectsOK
  <1> QED
    BY <1>3, <1>4, <1>5 DEF ObjectsOK, IsObject
------------------------------------------------------------------------------
LEMMA Stuttered ==
    ASSUME Held' = Held, Free' = Free
    PROVE  UNCHANGED Leases!lvars
  BY DEF Leases!lvars, Held, Free

LEMMA Leased ==
    ASSUME NEW h \in Objs, NEW a \in Free, Held[h] = NoUe,
           Held' = [Held EXCEPT ![h] = a], Free' = Free \ {a}
    PROVE  Leases!Lease(h)
  BY DEF Leases!Lease, Held, Free

LEMMA Returned ==
    ASSUME NEW h \in Objs, Held[h] # NoUe,
           Held' = [Held EXCEPT ![h] = NoUe], Free' = Free \cup {Held[h]}
    PROVE  Leases!Return(h)
  BY DEF Leases!Return, Held, Free

LEMMA Ended ==
    ASSUME Held' = [h \in Objs |-> NoUe], Free' = UeAddrs
    PROVE  Leases!EndLeases
  BY DEF Leases!EndLeases, Held, Free

LEMMA InitLeases == Init => SessionInv /\ Leases!LeaseInit
  <1> SUFFICES ASSUME Init PROVE SessionInv /\ Leases!LeaseInit
    OBVIOUS
  <1>1. Shape(alloc) /\ Taken(alloc) = {}
    BY FreshShape DEF Init
  <1>2. ObjectsOK /\ DOMAIN objs = {}
    BY SessionsAssumption DEF Init, ObjectsOK
  <1>3. CurOK /\ ExchangesOK
    BY DEF Init, CurOK, ExchangesOK
  <1>4. Leases!LeaseInit
    BY <1>1, <1>2 DEF Leases!LeaseInit
  <1> QED
    BY <1>1, <1>2, <1>3, <1>4 DEF SessionInv
------------------------------------------------------------------------------
(* No step but a restart takes away an object or its UPF.                  *)
SameNodes ==
    /\ DOMAIN objs \subseteq DOMAIN objs'
    /\ \A o \in DOMAIN objs : objs'[o].node = objs[o].node

LEMMA OldExchanges ==
    ASSUME ExchangesOK, SameNodes, n4' \subseteq n4
    PROVE  ExchangesOK'
  BY DEF ExchangesOK, SameNodes

LEMMA NewExchange ==
    ASSUME ExchangesOK, SameNodes, NEW op, NEW o \in DOMAIN objs', objs'[o].node,
           NEW seid, NEW tunnel, Send(op, o, seid, tunnel)
    PROVE  ExchangesOK'
  <1>1. PICK i : n4' = n4 \cup {[trxn |-> i, op |-> op, obj |-> o, cp |-> o,
                                seid |-> seid, ue |-> objs'[o].addr,
                                tunnel |-> tunnel, phase |-> "request",
                                cause |-> Accepted]}
    BY DEF Send
  <1> QED
    BY <1>1 DEF ExchangesOK, SameNodes

(* A change of an object that leaves its address and its UPF alone.        *)
LEMMA ObjectChanged ==
    ASSUME ObjectsOK, CurOK, UNCHANGED cur, NEW q \in DOMAIN objs, NEW b,
           IsObject(b), b.addr = objs[q].addr, b.node = objs[q].node,
           objs' = [objs EXCEPT ![q] = b]
    PROVE  ObjectsOK' /\ CurOK' /\ SameNodes /\ Held' = Held
  <1>1. /\ ObjectsOK' /\ DOMAIN objs' = DOMAIN objs
        /\ \A o \in DOMAIN objs : objs'[o] = IF o = q THEN b ELSE objs[o]
    BY Replaced
  <1> QED
    BY <1>1 DEF SameNodes, Held, CurOK

LEMMA ObjectsUnchanged ==
    ASSUME ObjectsOK, CurOK, UNCHANGED <<objs, cur>>
    PROVE  ObjectsOK' /\ CurOK' /\ SameNodes /\ Held' = Held
  BY DEF ObjectsOK, IsObject, CurOK, SameNodes, Held

LEMMA PoolUnchanged ==
    ASSUME Shape(alloc), UNCHANGED alloc
    PROVE  Shape(alloc)' /\ Free' = Free
  BY DEF Shape, Free, Taken, Word

(* An object of a create request.                                          *)
LEMMA NewObjectIs ==
    ASSUME NEW p, NEW a \in UeAddrs \cup {NoUe}, NEW node \in BOOLEAN
    PROVE  /\ IsObject(NewObject(p, a, node))
           /\ NewObject(p, a, node).addr = a
           /\ NewObject(p, a, node).node = node
  BY DEF IsObject, NewObject
------------------------------------------------------------------------------
LEMMA CreateLeases ==
    ASSUME SessionInv, NEW p \in Pdus, CreateSMContext(p)
    PROVE  SessionInv' /\ [Leases!LeaseNext]_(Leases!lvars)
  <1>1. PICK o \in Objs : o = Len(objs) + 1 /\ cur' = [cur EXCEPT ![p] = o]
    BY DEF CreateSMContext
  <1>2. o \notin DOMAIN objs /\ Len(objs) \in Nat
    BY <1>1, ObjectNumbers DEF SessionInv
  <1>3. ASSUME NEW b, IsObject(b), objs' = Append(objs, b)
        PROVE  /\ ObjectsOK' /\ CurOK' /\ SameNodes
               /\ o \in DOMAIN objs' /\ objs'[o] = b
               /\ Held' = [Held EXCEPT ![o] = IF b.node THEN b.addr ELSE NoUe]
               /\ Held[o] = NoUe
    <2>1. /\ ObjectsOK' /\ DOMAIN objs' = DOMAIN objs \cup {o}
          /\ \A q \in DOMAIN objs : objs'[q] = objs[q]
          /\ objs'[o] = b
      BY <1>1, <1>3, Appended DEF SessionInv
    <2> QED
      BY <1>1, <1>2, <2>1 DEF SessionInv, CurOK, SameNodes, Held
  <1>4. CASE /\ objs' = Append(objs, NewObject(p, NoUe, FALSE))
             /\ UNCHANGED <<alloc, n4>>
    <2>1. /\ ObjectsOK' /\ CurOK' /\ SameNodes
          /\ Held' = [Held EXCEPT ![o] = NoUe] /\ Held[o] = NoUe
      BY <1>3, <1>4, NewObjectIs
    <2>2. Held' = Held
      BY <2>1 DEF Held
    <2>3. ExchangesOK' /\ Shape(alloc)' /\ Free' = Free
      BY <1>4, <2>1, OldExchanges, PoolUnchanged DEF SessionInv
    <2> QED
      BY <2>1, <2>2, <2>3, Stuttered DEF SessionInv
  <1> DEFINE a == FreeAddress(alloc)
             taken == SetBit(alloc, a)
  <1>5. ASSUME HasFree(alloc)
        PROVE  /\ a \in Free /\ a \in Range4 /\ a \in UeAddrs
               /\ Shape(taken) /\ Taken(taken) = Taken(alloc) \cup {a}
    BY <1>5, FreeIsFree, SetBitTakes, RangeIsAddresses DEF Free, SessionInv
  <1> HIDE DEF a, taken
  <1>6. CASE /\ HasFree(alloc)
             /\ objs' = Append(objs, NewObject(p, a, TRUE))
             /\ alloc' = taken
             /\ Send("establish", o, NoSeid, NoFar)
    <2> DEFINE b == NewObject(p, a, TRUE)
    <2>0. IsObject(b) /\ b.addr = a /\ b.node = TRUE
      BY <1>5, <1>6, NewObjectIs
    <2> HIDE DEF b
    <2>1. /\ ObjectsOK' /\ CurOK' /\ SameNodes
          /\ o \in DOMAIN objs' /\ objs'[o].node
          /\ Held' = [Held EXCEPT ![o] = a] /\ Held[o] = NoUe
      BY <1>3, <1>6, <2>0 DEF b
    <2>2. ExchangesOK'
      BY <1>6, <2>1, NewExchange DEF SessionInv
    <2>3. Shape(alloc)' /\ Free' = Free \ {a}
      BY <1>5, <1>6 DEF Free
    <2>4. Leases!Lease(o)
      <3>1. PICK c \in Free : c = a
        BY <1>5, <1>6
      <3> QED
        BY <2>1, <2>3, <3>1, Leased
    <2>5. Leases!LeaseNext
      BY <1>1, <2>4 DEF Leases!LeaseNext
    <2> QED
      BY <2>1, <2>2, <2>3, <2>5 DEF SessionInv
  <1>7. CASE /\ HasFree(alloc)
             /\ objs' = Append(objs, NewObject(p, a, FALSE))
             /\ alloc' = Released(taken, a)
             /\ UNCHANGED n4
    <2>1. /\ ObjectsOK' /\ CurOK' /\ SameNodes
          /\ Held' = [Held EXCEPT ![o] = NoUe] /\ Held[o] = NoUe
      BY <1>3, <1>5, <1>7, NewObjectIs
    <2>2. Held' = Held
      BY <2>1 DEF Held
    <2>3. ExchangesOK'
      BY <1>7, <2>1, OldExchanges DEF SessionInv
    <2>4. Shape(alloc)' /\ Free' = Free
      BY <1>5, <1>7, ReleasedFrees DEF Free
    <2> QED
      BY <2>1, <2>2, <2>3, <2>4, Stuttered DEF SessionInv
  <1> QED
    BY <1>1, <1>4, <1>6, <1>7 DEF CreateSMContext, a, taken
------------------------------------------------------------------------------
(* The steps that leave alone who has which address.                       *)
LEMMA RequestKeeps ==
    ASSUME SessionInv, NEW p \in Pdus,
           \/ \E t \in Tunnels : UpdateTunnel(p, t)
           \/ ReleaseFlows(p)
           \/ ReleaseSMContext(p)
    PROVE  SessionInv' /\ UNCHANGED Leases!lvars
  <1>1. UNCHANGED <<alloc, cur>>
    BY DEF UpdateTunnel, ReleaseFlows, ReleaseSMContext
  <1>2. Shape(alloc)' /\ Free' = Free
    BY <1>1, PoolUnchanged DEF SessionInv
  <1>3. PICK q : q = cur[p]
    OBVIOUS
  <1>4. q # NoObj
    BY <1>3 DEF UpdateTunnel, ReleaseFlows, ReleaseSMContext
  <1>5. q \in DOMAIN objs /\ IsObject(objs[q])
    BY <1>3, <1>4 DEF SessionInv, CurOK, ObjectsOK
  <1>6. ASSUME ObjectsOK', CurOK', SameNodes, Held' = Held, objs[q].node,
               NEW op, NEW seid, NEW tunnel, Send(op, q, seid, tunnel)
        PROVE  SessionInv' /\ UNCHANGED Leases!lvars
    <2>1. q \in DOMAIN objs' /\ objs'[q].node
      BY <1>5, <1>6 DEF SameNodes
    <2> QED
      BY <1>2, <1>6, <2>1, NewExchange, Stuttered DEF SessionInv
  <1>7. CASE \E t \in Tunnels : UpdateTunnel(p, t)
    <2>1. PICK t \in Tunnels : UpdateTunnel(p, t)
      BY <1>7
    <2>2. PICK b : b = [objs[q] EXCEPT !.dl = t]
      OBVIOUS
    <2>3. /\ objs[q].flow /\ objs' = [objs EXCEPT ![q] = b]
          /\ \E op, seid : Send(op, q, seid, t)
      BY <1>3, <2>1, <2>2 DEF UpdateTunnel
    <2>4. /\ IsObject(b) /\ objs[q].node
          /\ b.addr = objs[q].addr /\ b.node = objs[q].node
      BY <1>5, <2>2, <2>3 DEF IsObject
    <2>5. ObjectsOK' /\ CurOK' /\ SameNodes /\ Held' = Held
      BY <1>1, <1>5, <2>3, <2>4, ObjectChanged DEF SessionInv
    <2> QED
      BY <1>6, <2>3, <2>4, <2>5
  <1>8. CASE ReleaseFlows(p)
    <2>1. PICK b : b = [objs[q] EXCEPT !.released = TRUE]
      OBVIOUS
    <2>2. /\ objs[q].flow /\ objs' = [objs EXCEPT ![q] = b]
          /\ \E seid, t : Send("silence", q, seid, t)
      BY <1>3, <1>8, <2>1 DEF ReleaseFlows
    <2>3. /\ IsObject(b) /\ objs[q].node
          /\ b.addr = objs[q].addr /\ b.node = objs[q].node
      BY <1>5, <2>1, <2>2 DEF IsObject
    <2>4. ObjectsOK' /\ CurOK' /\ SameNodes /\ Held' = Held
      BY <1>1, <1>5, <2>2, <2>3, ObjectChanged DEF SessionInv
    <2> QED
      BY <1>6, <2>2, <2>3, <2>4
  <1>9. CASE ReleaseSMContext(p)
    <2>1. /\ objs[q].node /\ UNCHANGED objs
          /\ \E seid : Send("delete", q, seid, NoFar)
      BY <1>3, <1>9 DEF ReleaseSMContext
    <2>2. ObjectsOK' /\ CurOK' /\ SameNodes /\ Held' = Held
      BY <1>1, <2>1, ObjectsUnchanged DEF SessionInv
    <2> QED
      BY <1>6, <2>1, <2>2
  <1> QED
    BY <1>7, <1>8, <1>9

LEMMA UpfKeeps ==
    ASSUME SessionInv, NEW x \in n4, UpfHandle(x)
    PROVE  SessionInv' /\ UNCHANGED Leases!lvars
  <1>1. UNCHANGED <<alloc, objs, cur>>
    BY DEF UpfHandle, smfVars
  <1>2. /\ ObjectsOK' /\ CurOK' /\ SameNodes /\ Held' = Held
        /\ Shape(alloc)' /\ Free' = Free
    BY <1>1, ObjectsUnchanged, PoolUnchanged DEF SessionInv
  <1>3. PICK r : Answer(x, r)
    BY DEF UpfHandle
  <1>4. \A y \in n4' : "obj" \in DOMAIN y /\ \E z \in n4 : y.obj = z.obj
    BY <1>3 DEF Answer, SessionInv, ExchangesOK
  <1>5. ExchangesOK'
    BY <1>2, <1>4 DEF SessionInv, ExchangesOK, SameNodes
  <1> QED
    BY <1>2, <1>5, Stuttered DEF SessionInv

LEMMA LossKeeps ==
    ASSUME SessionInv, (\E x \in n4 : Lose(x)) \/ RestartUpf \/ UNCHANGED vars
    PROVE  SessionInv' /\ UNCHANGED Leases!lvars
  <1>1. UNCHANGED <<alloc, objs, cur>> /\ n4' \subseteq n4
    BY DEF Lose, RestartUpf, vars, smfVars
  <1>2. /\ ObjectsOK' /\ CurOK' /\ SameNodes /\ Held' = Held
        /\ Shape(alloc)' /\ Free' = Free
    BY <1>1, ObjectsUnchanged, PoolUnchanged DEF SessionInv
  <1> QED
    BY <1>1, <1>2, OldExchanges, Stuttered DEF SessionInv

LEMMA RestartEnds ==
    ASSUME SessionInv, RestartSmf
    PROVE  SessionInv' /\ Leases!EndLeases
  <1>1. Shape(alloc)' /\ Free' = UeAddrs
    BY FreshShape DEF RestartSmf, Free
  <1>2. /\ ObjectsOK' /\ DOMAIN objs' = {} /\ CurOK'
        /\ Held' = [h \in Objs |-> NoUe]
    BY SessionsAssumption DEF RestartSmf, ObjectsOK, CurOK, Held
  <1>3. ExchangesOK'
    BY DEF RestartSmf, SessionInv, ExchangesOK
  <1> QED
    BY <1>1, <1>2, <1>3, Ended DEF SessionInv
------------------------------------------------------------------------------
(* The responses.                                                          *)
LEMMA DeallocateReturns ==
    ASSUME SessionInv, NEW o \in DOMAIN objs, objs[o].node, Deallocate(o), UNCHANGED cur
    PROVE  /\ Shape(alloc)' /\ ObjectsOK' /\ CurOK' /\ SameNodes
           /\ Leases!Return(o) \/ UNCHANGED Leases!lvars
  <1>1. PICK b : b = [NewObject(objs[o].pdu, NoUe, FALSE) EXCEPT !.node = objs[o].node]
    OBVIOUS
  <1>2. IsObject(b) /\ b.addr = NoUe /\ b.node = objs[o].node
    BY <1>1 DEF IsObject, NewObject, SessionInv, ObjectsOK
  <1>3. objs' = [objs EXCEPT ![o] = b]
    BY <1>1 DEF Deallocate
  <1>4. /\ ObjectsOK' /\ DOMAIN objs' = DOMAIN objs
        /\ \A q \in DOMAIN objs : objs'[q] = IF q = o THEN b ELSE objs[q]
    BY <1>2, <1>3, Replaced DEF SessionInv
  <1>5. CurOK' /\ SameNodes
    BY <1>2, <1>4 DEF SessionInv, CurOK, SameNodes
  <1>6. o \in Objs /\ Held[o] = objs[o].addr /\ Held' = [Held EXCEPT ![o] = NoUe]
    BY <1>2, <1>4, ObjectNumbers DEF SessionInv, Held
  <1>7. CASE objs[o].addr = NoUe
    <2>1. Held' = Held
      BY <1>6, <1>7 DEF Held
    <2>2. Shape(alloc)' /\ Free' = Free
      BY <1>7, PoolUnchanged DEF SessionInv, Deallocate
    <2> QED
      BY <1>4, <1>5, <2>1, <2>2, Stuttered
  <1>8. CASE objs[o].addr # NoUe
    <2>1. objs[o].addr \in Range4 /\ objs[o].addr \in UeAddrs
      BY <1>8, RangeIsAddresses DEF SessionInv, ObjectsOK, IsObject
    <2>2. alloc' = Released(alloc, objs[o].addr)
      BY <1>8 DEF Deallocate
    <2>3. Shape(alloc)' /\ Taken(alloc)' = Taken(alloc) \ {objs[o].addr}
      BY <2>1, <2>2, ReleasedFrees DEF SessionInv
    <2>4. Free' = Free \cup {Held[o]}
      BY <1>6, <2>1, <2>3 DEF Free
    <2>5. Leases!Return(o)
      BY <1>6, <1>8, <2>4, Returned
    <2> QED
      BY <1>4, <1>5, <2>3, <2>5
  <1> QED
    BY <1>7, <1>8

LEMMA ResponseLeases ==
    ASSUME SessionInv, NEW x \in n4, N4Response(x)
    PROVE  SessionInv' /\ [Leases!LeaseNext]_(Leases!lvars)
  <1>1. UNCHANGED cur /\ n4' \subseteq n4
    BY DEF N4Response
  <1>2. CASE UNCHANGED <<alloc, objs>>
    <2>1. /\ ObjectsOK' /\ CurOK' /\ SameNodes /\ Held' = Held
          /\ Shape(alloc)' /\ Free' = Free
      BY <1>1, <1>2, ObjectsUnchanged, PoolUnchanged DEF SessionInv
    <2> QED
      BY <1>1, <2>1, OldExchanges, Stuttered DEF SessionInv
  <1>3. PICK q : q = x.obj
    OBVIOUS
  <1>4. ASSUME Expected(x)
        PROVE  q \in DOMAIN objs /\ objs[q].node /\ IsObject(objs[q])
    BY <1>3, <1>4 DEF Expected, SessionInv, ExchangesOK, ObjectsOK
  <1>5. ASSUME Expected(x), UNCHANGED alloc, NEW b, objs' = [objs EXCEPT ![q] = b],
               IsObject(b), b.addr = objs[q].addr, b.node = objs[q].node
        PROVE  SessionInv' /\ UNCHANGED Leases!lvars
    <2>1. /\ ObjectsOK' /\ CurOK' /\ SameNodes /\ Held' = Held
          /\ Shape(alloc)' /\ Free' = Free
      BY <1>1, <1>4, <1>5, ObjectChanged, PoolUnchanged DEF SessionInv
    <2> QED
      BY <1>1, <2>1, OldExchanges, Stuttered DEF SessionInv
  <1>6. CASE Expected(x) /\ EstablishmentResponse(x) /\ ~UNCHANGED objs
    <2>1. PICK b : b = [objs[q] EXCEPT !.up = x.seid]
      OBVIOUS
    <2>2. objs' = [objs EXCEPT ![q] = b] /\ UNCHANGED alloc
      BY <1>3, <1>6, <2>1 DEF EstablishmentResponse
    <2>3. IsObject(b) /\ b.addr = objs[q].addr /\ b.node = objs[q].node
      BY <1>4, <1>6, <2>1 DEF IsObject
    <2> QED
      BY <1>5, <1>6, <2>2, <2>3
  <1>7. CASE Expected(x) /\ TunnelResponse(x) /\ ~UNCHANGED objs
    <2>1. PICK b : b = [objs[q] EXCEPT !.dl = x.tunnel,
                                      !.released = @ /\ x.op = "update"]
      OBVIOUS
    <2>2. objs' = [objs EXCEPT ![q] = b] /\ UNCHANGED alloc
      BY <1>3, <1>4, <1>7, <2>1 DEF TunnelResponse
    <2>3. IsObject(b) /\ b.addr = objs[q].addr /\ b.node = objs[q].node
      BY <1>4, <1>7, <2>1 DEF IsObject
    <2> QED
      BY <1>5, <1>7, <2>2, <2>3
  <1>8. CASE Expected(x) /\ ReleaseResponse(x) /\ ~UNCHANGED <<alloc, objs>>
    <2>1. Deallocate(q)
      BY <1>3, <1>8 DEF ReleaseResponse
    <2>2. /\ Shape(alloc)' /\ ObjectsOK' /\ CurOK' /\ SameNodes
          /\ Leases!Return(q) \/ UNCHANGED Leases!lvars
      BY <1>1, <1>4, <1>8, <2>1, DeallocateReturns
    <2>3. q \in Objs
      BY <1>4, <1>8, ObjectNumbers DEF SessionInv
    <2>4. [Leases!LeaseNext]_(Leases!lvars)
      BY <2>2, <2>3 DEF Leases!LeaseNext
    <2> QED
      BY <1>1, <2>2, <2>4, OldExchanges DEF SessionInv
  <1> QED
    BY <1>2, <1>6, <1>7, <1>8
       DEF N4Response, EstablishmentResponse, TunnelResponse, ReleaseResponse
------------------------------------------------------------------------------
LEMMA NextLeases ==
    SessionInv /\ [Next]_vars => SessionInv' /\ [Leases!LeaseNext]_(Leases!lvars)
  <1> SUFFICES ASSUME SessionInv, [Next]_vars
               PROVE  SessionInv' /\ [Leases!LeaseNext]_(Leases!lvars)
    OBVIOUS
  <1>1. ASSUME NEW p \in Pdus, CreateSMContext(p)
        PROVE  SessionInv' /\ [Leases!LeaseNext]_(Leases!lvars)
    BY <1>1, CreateLeases
  <1>2. ASSUME NEW p \in Pdus,
               \/ \E t \in Tunnels : UpdateTunnel(p, t)
               \/ ReleaseFlows(p)
               \/ ReleaseSMContext(p)
        PROVE  SessionInv' /\ [Leases!LeaseNext]_(Leases!lvars)
    BY <1>2, RequestKeeps
  <1>3. ASSUME NEW x \in n4, UpfHandle(x)
        PROVE  SessionInv' /\ [Leases!LeaseNext]_(Leases!lvars)
    BY <1>3, UpfKeeps
  <1>4. ASSUME NEW x \in n4, N4Response(x)
        PROVE  SessionInv' /\ [Leases!LeaseNext]_(Leases!lvars)
    BY <1>4, ResponseLeases
  <1>5. CASE (\E x \in n4 : Lose(x)) \/ RestartUpf \/ UNCHANGED vars
    BY <1>5, LossKeeps
  <1>6. CASE RestartSmf
    BY <1>6, RestartEnds DEF Leases!LeaseNext
  <1> QED
    BY <1>1, <1>2, <1>3, <1>4, <1>5, <1>6 DEF Next

(* The objects and the bit map keep the contract of the pool: whatever     *)
(* procedures overlap, get lost or are forgotten, an address goes to a     *)
(* session only while nobody has it, and comes back only from the session  *)
(* that has it (get_free_paa, release_paa, deallocate_ressources).         *)
THEOREM SessionsKeepLeases == Spec => LeasesKept
  BY InitLeases, NextLeases, PTL DEF Spec, LeasesKept, Leases!LeaseSpec
------------------------------------------------------------------------------
(* What follows from the contract, whatever the sessions.                  *)
Owned ==
    /\ \A o \in Objs : Held[o] # NoUe => Held[o] \notin Free
    /\ \A o, q \in Objs : Held[o] = Held[q] /\ Held[o] # NoUe => o = q

HeldTyped == Held \in [Objs -> UeAddrs \cup {NoUe}] /\ Free \subseteq UeAddrs

LEMMA LeaseSteps ==
    ASSUME [Leases!LeaseNext]_(Leases!lvars)
    PROVE  \/ \E h \in Objs, a \in Free : /\ Held[h] = NoUe
                                          /\ Held' = [Held EXCEPT ![h] = a]
                                          /\ Free' = Free \ {a}
           \/ \E h \in Objs : /\ Held[h] # NoUe
                              /\ Held' = [Held EXCEPT ![h] = NoUe]
                              /\ Free' = Free \cup {Held[h]}
           \/ Held' = [h \in Objs |-> NoUe] /\ Free' = UeAddrs
           \/ Held' = Held /\ Free' = Free
  BY DEF Leases!LeaseNext, Leases!Lease, Leases!Return, Leases!EndLeases, Leases!lvars,
         Held, Free

LEMMA LeaseInitOwned == Leases!LeaseInit => HeldTyped /\ Owned
  <1> SUFFICES ASSUME Leases!LeaseInit PROVE HeldTyped /\ Owned
    OBVIOUS
  <1>1. Held = [h \in Objs |-> NoUe] /\ Free = UeAddrs
    BY DEF Leases!LeaseInit, Held, Free
  <1> QED
    BY <1>1 DEF HeldTyped, Owned

LEMMA LeaseNextOwned ==
    ASSUME HeldTyped, Owned, [Leases!LeaseNext]_(Leases!lvars)
    PROVE  HeldTyped' /\ Owned'
  <1>1. ASSUME NEW h \in Objs, NEW a \in Free, Held[h] = NoUe,
               Held' = [Held EXCEPT ![h] = a], Free' = Free \ {a}
        PROVE  HeldTyped' /\ Owned'
    <2>1. \A q \in Objs : Held[q] # NoUe => Held[q] # a
      BY <1>1 DEF Owned
    <2> QED
      BY <1>1, <2>1 DEF HeldTyped, Owned
  <1>2. ASSUME NEW h \in Objs, Held[h] # NoUe,
               Held' = [Held EXCEPT ![h] = NoUe], Free' = Free \cup {Held[h]}
        PROVE  HeldTyped' /\ Owned'
    <2>1. \A q \in Objs : q # h /\ Held[q] # NoUe => Held[q] # Held[h]
      BY <1>2 DEF Owned
    <2> QED
      BY <1>2, <2>1 DEF HeldTyped, Owned
  <1>3. CASE Held' = [h \in Objs |-> NoUe] /\ Free' = UeAddrs
    BY <1>3 DEF HeldTyped, Owned
  <1>4. CASE Held' = Held /\ Free' = Free
    BY <1>4 DEF HeldTyped, Owned
  <1> QED
    BY <1>1, <1>2, <1>3, <1>4, LeaseSteps

(* No address is held by two sessions, and none that is held is free       *)
(* (alloc_address and free_address of ipv4_pool).                          *)
THEOREM LeasesExclusive == LeasesKept => []Leases!Exclusive
  <1>1. Owned => Leases!Exclusive
    BY DEF Owned, Leases!Exclusive, Held, Free
  <1> QED
    BY <1>1, LeaseInitOwned, LeaseNextOwned, PTL DEF LeasesKept, Leases!LeaseSpec

(* No two objects that got their UPF hold the same address, and the bit of *)
(* each one's address is set.                                              *)
OneOwner ==
    /\ \A o \in DOMAIN objs :
          objs[o].node /\ objs[o].addr # NoUe => objs[o].addr \in Taken(alloc)
    /\ \A o, q \in DOMAIN objs :
          /\ objs[o].node /\ objs[q].node
          /\ objs[o].addr = objs[q].addr /\ objs[o].addr # NoUe
          => o = q

LEMMA OwnersFollow == SessionInv /\ Owned => OneOwner
  <1> SUFFICES ASSUME SessionInv, Owned PROVE OneOwner
    OBVIOUS
  <1>1. \A o \in DOMAIN objs : o \in Objs /\ (objs[o].node => Held[o] = objs[o].addr)
    BY ObjectNumbers DEF SessionInv, Held
  <1>2. \A o \in DOMAIN objs : objs[o].addr # NoUe => objs[o].addr \in UeAddrs
    BY DEF SessionInv, ObjectsOK, IsObject
  <1> QED
    BY <1>1, <1>2 DEF Owned, OneOwner, Free

(* No two PDU sessions share an address of the pool, those that a create   *)
(* request replaced included, and the pool knows whose are taken           *)
(* (alloc_address, free_address, deallocate_ressources).                   *)
THEOREM AddressesOwned == Spec => []OneOwner
  BY InitLeases, NextLeases, LeaseInitOwned, LeaseNextOwned, OwnersFollow, PTL DEF Spec
------------------------------------------------------------------------------
(* The tables of the UPF, and what its operations do to them.              *)
IsSession(z) ==
    /\ {"cp", "teid", "ulFar", "dlFar", "ue"} \subseteq DOMAIN z
    /\ z.cp \in CpSeids
    /\ z.ulFar \in {Forward, Drop}
    /\ z.dlFar \in Tunnels \cup {NoFar, Notify}
    /\ z.ue \in UeAddrs \cup {NoUe}

IsSwitch(sw) ==
    /\ {"cp", "sess", "ul", "dl", "lastSeid", "lastTeid"} \subseteq DOMAIN sw
    /\ DOMAIN sw.cp = CpSeids
    /\ DOMAIN sw.dl = UeAddrs
    /\ sw.lastSeid \in Nat
    /\ \A s \in DOMAIN sw.sess : IsSession(sw.sess[s]) /\ s \in 1 .. sw.lastSeid

LEMMA FreshIsSwitch == IsSwitch(FreshSwitch) /\ DOMAIN FreshSwitch.sess = {}
  BY DEF IsSwitch, FreshSwitch

LEMMA Established ==
    ASSUME IsSwitch(upf), NEW c \in CpSeids, upf.cp[c] = NoSeid,
           NEW r, r = Establish(upf, c)
    PROVE  LET new == upf.lastSeid + 1 IN
           /\ r.cause = Accepted /\ r.cp = c /\ r.seid = new
           /\ IsSwitch(r.sw)
           /\ new \notin DOMAIN upf.sess
           /\ r.sw.lastSeid = new
           /\ r.sw.cp = [upf.cp EXCEPT ![c] = new]
           /\ DOMAIN r.sw.sess = DOMAIN upf.sess \cup {new}
           /\ \A s \in DOMAIN upf.sess : r.sw.sess[s] = upf.sess[s]
           /\ r.sw.sess[new].cp = c /\ r.sw.sess[new].dlFar = NoFar
           /\ r.sw.sess[new].ue = NoUe
           /\ r.sw.dl = upf.dl
  <1> DEFINE new == upf.lastSeid + 1
             session == [cp |-> c, teid |-> upf.lastTeid + 1, ulFar |-> Forward,
                         dlFar |-> NoFar, ue |-> NoUe]
             table == [s \in DOMAIN upf.sess \cup {new} |->
                          IF s = new THEN session ELSE upf.sess[s]]
  <1>1. /\ r.cause = Accepted /\ r.cp = c /\ r.seid = new
        /\ r.sw.sess = table
        /\ r.sw.cp = [upf.cp EXCEPT ![c] = new]
        /\ r.sw.lastSeid = new
        /\ r.sw.dl = upf.dl
        /\ DOMAIN r.sw = DOMAIN upf
    BY DEF Establish, IsSwitch
  <1>2. new \notin DOMAIN upf.sess
    BY DEF IsSwitch
  <1>3. /\ DOMAIN table = DOMAIN upf.sess \cup {new}
        /\ \A s \in DOMAIN upf.sess : table[s] = upf.sess[s]
        /\ table[new] = session
    BY <1>2
  <1>4. IsSession(session)
    BY DEF IsSession, Forward, NoFar
  <1>5. session.cp = c /\ session.dlFar = NoFar /\ session.ue = NoUe
    OBVIOUS
  <1> HIDE DEF session, table
  <1>6. \A s \in DOMAIN table : IsSession(table[s]) /\ s \in 1 .. new
    BY <1>3, <1>4 DEF IsSwitch
  <1> HIDE DEF new
  <1>7. IsSwitch(r.sw)
    <2>1. new \in Nat /\ DOMAIN [upf.cp EXCEPT ![c] = new] = CpSeids
      BY DEF IsSwitch, new
    <2>2. \A s \in DOMAIN r.sw.sess :
             IsSession(r.sw.sess[s]) /\ s \in 1 .. r.sw.lastSeid
      BY <1>1, <1>6
    <2> QED
      BY <1>1, <2>1, <2>2 DEF IsSwitch
  <1> QED
    BY <1>1, <1>2, <1>3, <1>5, <1>7 DEF new

LEMMA NotEstablished ==
    ASSUME NEW c, upf.cp[c] # NoSeid, NEW r, r = Establish(upf, c)
    PROVE  r.cause = Rejected /\ r.cp = c /\ r.seid = NoSeid /\ r.sw = upf
  BY DEF Establish

(* What a modification of a session leaves alone.                          *)
OnlyRules(sw, new, seid) ==
    /\ new.cp = sw.cp /\ new.lastSeid = sw.lastSeid
    /\ DOMAIN new.sess = DOMAIN sw.sess
    /\ \A s \in DOMAIN sw.sess :
          /\ new.sess[s].cp = sw.sess[s].cp
          /\ s # seid => new.sess[s] = sw.sess[s]

LEMMA RulesAgain ==
    ASSUME NEW sw, NEW mid, NEW new, NEW seid, OnlyRules(sw, mid, seid),
           OnlyRules(mid, new, seid)
    PROVE  OnlyRules(sw, new, seid)
  BY DEF OnlyRules

(* A session gets another rule or action.                                  *)
LEMMA SessionChanged ==
    ASSUME NEW sw, IsSwitch(sw), NEW seid \in DOMAIN sw.sess, NEW z, IsSession(z),
           z.cp = sw.sess[seid].cp, NEW new,
           new.sess = [sw.sess EXCEPT ![seid] = z],
           DOMAIN new = DOMAIN sw, new.cp = sw.cp, new.lastSeid = sw.lastSeid,
           DOMAIN new.dl = DOMAIN sw.dl
    PROVE  IsSwitch(new) /\ OnlyRules(sw, new, seid) /\ new.sess[seid] = z
  <1>1. /\ DOMAIN new.sess = DOMAIN sw.sess
        /\ \A s \in DOMAIN sw.sess :
              new.sess[s] = IF s = seid THEN z ELSE sw.sess[s]
    OBVIOUS
  <1>2. \A s \in DOMAIN new.sess : IsSession(new.sess[s]) /\ s \in 1 .. new.lastSeid
    BY <1>1 DEF IsSwitch
  <1>3. IsSwitch(new)
    BY <1>2 DEF IsSwitch
  <1> QED
    BY <1>1, <1>3 DEF OnlyRules

LEMMA Created ==
    ASSUME IsSwitch(upf), NEW seid \in DOMAIN upf.sess, NEW ue \in UeAddrs,
           NEW t \in Tunnels, NEW r, r = CreateDownlink(upf, seid, ue, t)
    PROVE  /\ r.cause = Accepted /\ r.cp = upf.sess[seid].cp /\ r.seid = NoSeid
           /\ IsSwitch(r.sw) /\ OnlyRules(upf, r.sw, seid)
           /\ r.sw.sess[seid].dlFar = t /\ r.sw.sess[seid].ue = ue
           /\ r.sw.dl = [upf.dl EXCEPT ![ue] = WithPdr(upf.dl[ue], Pdr(seid, 0))]
  <1>1. PICK z : z = [upf.sess[seid] EXCEPT !.dlFar = t, !.ue = ue]
    OBVIOUS
  <1>2. /\ IsSession(z) /\ z.cp = upf.sess[seid].cp
        /\ z.dlFar = t /\ z.ue = ue
    BY <1>1 DEF IsSwitch, IsSession
  <1>3. /\ r.cause = Accepted /\ r.cp = upf.sess[seid].cp /\ r.seid = NoSeid
        /\ DOMAIN r.sw = DOMAIN upf /\ r.sw.cp = upf.cp
        /\ r.sw.lastSeid = upf.lastSeid
        /\ r.sw.dl = [upf.dl EXCEPT ![ue] = WithPdr(upf.dl[ue], Pdr(seid, 0))]
    BY DEF CreateDownlink, IsSwitch
  <1>4. r.sw.sess = [upf.sess EXCEPT ![seid] = z]
    BY <1>1 DEF CreateDownlink, IsSwitch
  <1> QED
    BY <1>2, <1>3, <1>4, SessionChanged

LEMMA Updated ==
    ASSUME IsSwitch(upf), NEW seid \in DOMAIN upf.sess,
           NEW t \in Tunnels \cup {Notify}, NEW r, r = UpdateDownlink(upf, seid, t)
    PROVE  /\ r.cp = upf.sess[seid].cp /\ r.seid = NoSeid
           /\ IsSwitch(r.sw) /\ OnlyRules(upf, r.sw, seid)
           /\ r.sw.dl = upf.dl /\ r.sw.sess[seid].ue = upf.sess[seid].ue
           /\ IF upf.sess[seid].dlFar # NoFar
              THEN r.cause = Accepted /\ r.sw.sess[seid].dlFar = t
              ELSE r.cause = RuleFailure /\ r.sw = upf
           /\ {"sw", "cause", "cp", "seid"} = DOMAIN r
  <1>0. /\ r.cp = upf.sess[seid].cp /\ r.seid = NoSeid
        /\ {"sw", "cause", "cp", "seid"} = DOMAIN r
    BY DEF UpdateDownlink
  <1>1. CASE upf.sess[seid].dlFar # NoFar
    <2>1. PICK z : z = [upf.sess[seid] EXCEPT !.dlFar = t]
      OBVIOUS
    <2>2. /\ IsSession(z) /\ z.cp = upf.sess[seid].cp
          /\ z.dlFar = t /\ z.ue = upf.sess[seid].ue
      BY <2>1 DEF IsSwitch, IsSession
    <2>3. /\ r.cause = Accepted
          /\ DOMAIN r.sw = DOMAIN upf /\ r.sw.cp = upf.cp
          /\ r.sw.lastSeid = upf.lastSeid /\ r.sw.dl = upf.dl
      BY <1>1 DEF UpdateDownlink, IsSwitch
    <2>4. r.sw.sess = [upf.sess EXCEPT ![seid] = z]
      BY <1>1, <2>1 DEF UpdateDownlink, IsSwitch
    <2>5. IsSwitch(r.sw) /\ OnlyRules(upf, r.sw, seid) /\ r.sw.sess[seid] = z
      BY <2>2, <2>3, <2>4, SessionChanged
    <2> QED
      BY <1>0, <1>1, <2>2, <2>3, <2>5
  <1>2. CASE upf.sess[seid].dlFar = NoFar
    <2>1. r.cause = RuleFailure /\ r.sw = upf
      BY <1>2 DEF UpdateDownlink
    <2> QED
      BY <1>0, <1>2, <2>1 DEF OnlyRules
  <1> QED
    BY <1>1, <1>2

(* The two steps of Silence.                                               *)
Untouched(seid) ==
    [sw |-> upf, cause |-> Accepted, cp |-> upf.sess[seid].cp, seid |-> NoSeid]

UplinkOff(done, seid) == [done EXCEPT !.sw.sess[seid].ulFar = Drop]

LEMMA Silenced ==
    ASSUME IsSwitch(upf), NEW seid \in DOMAIN upf.sess, NEW t, NEW done,
           t # NoFar => done = UpdateDownlink(upf, seid, Notify),
           t = NoFar => done = Untouched(seid),
           NEW r, r = UplinkOff(done, seid)
    PROVE  /\ r.cp = upf.sess[seid].cp /\ r.seid = NoSeid
           /\ IsSwitch(r.sw) /\ OnlyRules(upf, r.sw, seid)
           /\ r.sw.dl = upf.dl /\ r.sw.sess[seid].ue = upf.sess[seid].ue
           /\ r.cause \in {Accepted, RuleFailure}
           /\ t # NoFar /\ upf.sess[seid].dlFar # NoFar => r.cause = Accepted
           /\ t = NoFar => r.cause = Accepted
  <1>1. /\ done.cp = upf.sess[seid].cp /\ done.seid = NoSeid
        /\ IsSwitch(done.sw) /\ OnlyRules(upf, done.sw, seid)
        /\ done.sw.dl = upf.dl /\ done.sw.sess[seid].ue = upf.sess[seid].ue
        /\ done.cause \in {Accepted, RuleFailure}
        /\ t # NoFar /\ upf.sess[seid].dlFar # NoFar => done.cause = Accepted
        /\ t = NoFar => done.cause = Accepted
        /\ {"sw", "cause", "cp", "seid"} = DOMAIN done
    <2>1. CASE t # NoFar
      <3>1. done = UpdateDownlink(upf, seid, Notify)
        BY <2>1
      <3> QED
        BY <2>1, <3>1, Updated
    <2>2. CASE t = NoFar
      <3>1. done = Untouched(seid)
        BY <2>2
      <3> QED
        BY <2>2, <3>1 DEF OnlyRules, Untouched
    <2> QED
      BY <2>1, <2>2
  <1>2. seid \in DOMAIN done.sw.sess
    BY <1>1 DEF OnlyRules
  <1>3. PICK z : z = [done.sw.sess[seid] EXCEPT !.ulFar = Drop]
    OBVIOUS
  <1>4. /\ IsSession(z) /\ z.cp = done.sw.sess[seid].cp
        /\ z.ue = done.sw.sess[seid].ue
    BY <1>1, <1>2, <1>3 DEF IsSwitch, IsSession, Drop
  <1>5. /\ r.cp = done.cp /\ r.seid = done.seid /\ r.cause = done.cause
        /\ r.sw.sess = [done.sw.sess EXCEPT ![seid] = z]
        /\ DOMAIN r.sw = DOMAIN done.sw /\ r.sw.cp = done.sw.cp
        /\ r.sw.lastSeid = done.sw.lastSeid /\ r.sw.dl = done.sw.dl
    BY <1>1, <1>3 DEF IsSwitch, UplinkOff
  <1>6. IsSwitch(r.sw) /\ OnlyRules(done.sw, r.sw, seid) /\ r.sw.sess[seid] = z
    BY <1>1, <1>2, <1>4, <1>5, SessionChanged
  <1>7. OnlyRules(upf, r.sw, seid)
    BY <1>1, <1>6, RulesAgain
  <1> QED
    BY <1>1, <1>4, <1>5, <1>6, <1>7

LEMMA Deleted ==
    ASSUME IsSwitch(upf), NEW seid \in DOMAIN upf.sess,
           NEW r, r = Delete(upf, seid)
    PROVE  LET z == upf.sess[seid] IN
           /\ r.cause = Accepted /\ r.cp = z.cp /\ r.seid = NoSeid
           /\ IsSwitch(r.sw)
           /\ r.sw.lastSeid = upf.lastSeid
           /\ r.sw.cp = [upf.cp EXCEPT ![z.cp] = NoSeid]
           /\ DOMAIN r.sw.sess = DOMAIN upf.sess \ {seid}
           /\ \A s \in DOMAIN r.sw.sess : r.sw.sess[s] = upf.sess[s]
           /\ r.sw.dl = IF z.ue = NoUe THEN upf.dl ELSE [upf.dl EXCEPT ![z.ue] = <<>>]
  <1> DEFINE z == upf.sess[seid]
             table == [s \in DOMAIN upf.sess \ {seid} |-> upf.sess[s]]
  <1>1. /\ r.cause = Accepted /\ r.cp = z.cp /\ r.seid = NoSeid
        /\ r.sw = WithoutSession(upf, seid)
    BY DEF Delete
  <1>2. /\ r.sw.sess = table
        /\ r.sw.cp = [upf.cp EXCEPT ![z.cp] = NoSeid]
        /\ r.sw.lastSeid = upf.lastSeid
        /\ r.sw.dl = IF z.ue = NoUe THEN upf.dl ELSE [upf.dl EXCEPT ![z.ue] = <<>>]
        /\ DOMAIN r.sw = DOMAIN upf
    BY <1>1 DEF WithoutSession, IsSwitch
  <1>3. /\ DOMAIN table = DOMAIN upf.sess \ {seid}
        /\ \A s \in DOMAIN table : table[s] = upf.sess[s]
    OBVIOUS
  <1> HIDE DEF table
  <1>4. \A s \in DOMAIN r.sw.sess :
           IsSession(r.sw.sess[s]) /\ s \in 1 .. r.sw.lastSeid
    BY <1>2, <1>3 DEF IsSwitch
  <1>5. IsSwitch(r.sw)
    <2>1. DOMAIN r.sw.cp = CpSeids /\ DOMAIN r.sw.dl = UeAddrs
      BY <1>2 DEF IsSwitch
    <2> QED
      BY <1>2, <1>4, <2>1 DEF IsSwitch
  <1> HIDE DEF z
  <1>6. /\ DOMAIN r.sw.sess = DOMAIN upf.sess \ {seid}
        /\ \A s \in DOMAIN r.sw.sess : r.sw.sess[s] = upf.sess[s]
    BY <1>2, <1>3
  <1> QED
    BY <1>1, <1>2, <1>5, <1>6 DEF z
------------------------------------------------------------------------------
(* The types of everything the SMF and the UPF keep.  Every establishment  *)
(* under way is of a create request of its own, which bounds the SEIDs the *)
(* UPF can have generated.                                                 *)
Object ==
    [pdu : Pdus, addr : UeAddrs \cup {NoUe}, node : BOOLEAN,
     up : UpSeids \cup {NoSeid}, flow : BOOLEAN, dl : Tunnels \cup {NoFar},
     released : BOOLEAN]

IsExchange(x) ==
    /\ {"op", "obj", "cp", "seid", "ue", "tunnel", "phase", "cause"} \subseteq DOMAIN x
    /\ x.op \in {"establish", "create", "update", "silence", "delete"}
    /\ x.phase \in {"request", "response"}
    /\ x.cp \in CpSeids \cup {NoSeid}
    /\ x.seid \in UpSeids \cup {NoSeid}
    /\ x.ue \in UeAddrs \cup {NoUe}
    /\ x.tunnel \in Tunnels \cup {NoFar}
    /\ x.op = "establish" => x.cp \in CpSeids
    /\ x.op = "create" => x.ue \in UeAddrs
    /\ x.op \in {"create", "update"} => x.tunnel \in Tunnels

Establishing(x) == x.op = "establish" /\ x.phase = "request"

Openings == {x \in n4 : Establishing(x)}

ObjectsTyped ==
    \A o \in DOMAIN objs :
        objs[o] \in Object /\ (objs[o].flow => objs[o].addr \in UeAddrs)

ExchangesTyped == \A x \in n4 : IsExchange(x)

Counted ==
    /\ IsFiniteSet(Openings)
    /\ Cardinality(Openings) + upf.lastSeid <= Len(objs) + MaxObjs * restarts

Mishaps == losses \in Nat /\ restarts \in Nat /\ losses + restarts <= MaxMishaps

TypedInv ==
    /\ ObjectsTyped
    /\ ExchangesTyped
    /\ IsSwitch(upf)
    /\ offered \subseteq Pdus
    /\ Counted
    /\ Mishaps

LEMMA InitTyped == Init => TypedInv
  <1> SUFFICES ASSUME Init PROVE TypedInv
    OBVIOUS
  <1>1. DOMAIN objs = {} /\ Len(objs) = 0 /\ Openings = {}
    BY DEF Init, Openings
  <1>2. IsSwitch(upf) /\ upf.lastSeid = 0
    BY FreshIsSwitch DEF Init, FreshSwitch
  <1>3. Counted
    BY <1>1, <1>2, FS_EmptySet, SessionsAssumption DEF Counted, Init
  <1>4. ObjectsTyped /\ ExchangesTyped /\ offered \subseteq Pdus
    BY <1>1 DEF Init, ObjectsTyped, ExchangesTyped
  <1>5. Mishaps
    BY SessionsAssumption DEF Init, Mishaps
  <1> QED
    BY <1>2, <1>3, <1>4, <1>5 DEF TypedInv

(* A request of the SMF.                                                   *)
IsRequest(x, op, o, seid, tunnel) ==
    /\ {"op", "obj", "cp", "seid", "ue", "tunnel", "phase", "cause"} \subseteq DOMAIN x
    /\ x.op = op /\ x.obj = o /\ x.cp = o /\ x.seid = seid
    /\ x.ue = objs'[o].addr /\ x.tunnel = tunnel
    /\ x.phase = "request" /\ x.cause = Accepted

LEMMA Sent ==
    ASSUME NEW op, NEW o, NEW seid, NEW tunnel, Send(op, o, seid, tunnel)
    PROVE  /\ \E x : n4' = n4 \cup {x} /\ IsRequest(x, op, o, seid, tunnel)
           /\ raced' = IF ExchangesOf(o) = {} THEN raced ELSE raced \cup {o}
  <1>1. PICK i : n4' = n4 \cup {[trxn |-> i, op |-> op, obj |-> o, cp |-> o,
                                seid |-> seid, ue |-> objs'[o].addr,
                                tunnel |-> tunnel, phase |-> "request",
                                cause |-> Accepted]}
    BY DEF Send
  <1>2. PICK x : x = [trxn |-> i, op |-> op, obj |-> o, cp |-> o,
                      seid |-> seid, ue |-> objs'[o].addr,
                      tunnel |-> tunnel, phase |-> "request",
                      cause |-> Accepted]
    OBVIOUS
  <1>3. IsRequest(x, op, o, seid, tunnel)
    BY <1>2 DEF IsRequest
  <1>4. n4' = n4 \cup {x}
    BY <1>1, <1>2
  <1> QED
    BY <1>3, <1>4 DEF Send

LEMMA MayHave ==
    ASSUME NEW k \in Nat
    PROVE  MaxObjs * k \in Nat /\ MaxObjs * (k + 1) = MaxObjs * k + MaxObjs
  BY SessionsAssumption

LEMMA Counts ==
    ASSUME NEW S, NEW T, IsFiniteSet(S), T \subseteq S
    PROVE  /\ IsFiniteSet(T)
           /\ \E c, d \in Nat : /\ c = Cardinality(S) /\ d = Cardinality(T) /\ d <= c
  BY FS_Subset, FS_CardinalityType

LEMMA Fits ==
    ASSUME NEW b \in Nat, NEW l \in Nat, NEW n \in Nat, NEW m \in Nat, b + l <= n + m,
           NEW d \in Nat, NEW l2 \in Nat, NEW n2 \in Nat, NEW k \in Nat, m <= k,
           \/ d <= b /\ l2 <= l /\ n2 = n
           \/ d <= b + 1 /\ l2 = l /\ n2 = n + 1
           \/ d <= b - 1 /\ l2 <= l + 1 /\ n2 = n
    PROVE  d + l2 <= n2 + k
  OBVIOUS

(* No establishment is sent.                                               *)
LEMMA CountedFewer ==
    ASSUME Counted, Openings' \subseteq Openings,
           upf.lastSeid \in Nat, upf.lastSeid' \in Nat, upf.lastSeid' <= upf.lastSeid,
           Len(objs) \in Nat, Len(objs') = Len(objs),
           restarts \in Nat, restarts' \in {restarts, restarts + 1}
    PROVE  Counted'
  <1>1. /\ IsFiniteSet(Openings')
        /\ \E c, d \in Nat : /\ c = Cardinality(Openings)
                             /\ d = Cardinality(Openings') /\ d <= c
    BY Counts DEF Counted
  <1>2. PICK c, d \in Nat : /\ c = Cardinality(Openings)
                            /\ d = Cardinality(Openings') /\ d <= c
    BY <1>1
  <1>3. PICK m \in Nat : m = MaxObjs * restarts /\ MaxObjs * (restarts + 1) = m + MaxObjs
    BY MayHave
  <1>4. PICK k \in Nat : k = MaxObjs * restarts' /\ m <= k
    <2>1. CASE restarts' = restarts
      BY <1>3, <2>1
    <2>2. CASE restarts' = restarts + 1
      BY <1>3, <2>2, SessionsAssumption
    <2> QED
      BY <2>1, <2>2
  <1>5. c + upf.lastSeid <= Len(objs) + m
    BY <1>2, <1>3 DEF Counted
  <1>6. d + upf.lastSeid' <= Len(objs') + k
    <2>1. d <= c /\ m <= k
      BY <1>2, <1>4
    <2> QED
      BY <1>5, <2>1, Fits
  <1> QED
    BY <1>1, <1>2, <1>4, <1>6 DEF Counted

LEMMA CountedOpen ==
    ASSUME Counted, NEW x, Openings' \subseteq Openings \cup {x},
           UNCHANGED <<upf, restarts>>, upf.lastSeid \in Nat,
           Len(objs) \in Nat, Len(objs') = Len(objs) + 1, restarts \in Nat
    PROVE  Counted'
  <1>1. IsFiniteSet(Openings) /\ IsFiniteSet(Openings \cup {x})
    BY FS_AddElement DEF Counted
  <1>2. /\ IsFiniteSet(Openings')
        /\ \E c, d \in Nat : /\ c = Cardinality(Openings \cup {x})
                             /\ d = Cardinality(Openings') /\ d <= c
    BY <1>1, Counts
  <1>3. PICK c, d \in Nat : /\ c = Cardinality(Openings \cup {x})
                            /\ d = Cardinality(Openings') /\ d <= c
    BY <1>2
  <1>4. PICK b \in Nat : b = Cardinality(Openings)
    BY <1>1, FS_CardinalityType
  <1>5. c <= b + 1
    <2>1. Cardinality(Openings \cup {x}) =
              IF x \in Openings THEN Cardinality(Openings) ELSE Cardinality(Openings) + 1
      BY <1>1, FS_AddElement
    <2>2. c = IF x \in Openings THEN b ELSE b + 1
      BY <1>3, <1>4, <2>1
    <2> QED
      BY <2>2
  <1>6. PICK m \in Nat : m = MaxObjs * restarts
    BY MayHave
  <1>7. b + upf.lastSeid <= Len(objs) + m
    BY <1>4, <1>6 DEF Counted
  <1>8. d + upf.lastSeid' <= Len(objs') + m
    <2>1. d <= b + 1
      BY <1>3, <1>5
    <2> QED
      BY <1>3, <1>7, <2>1, Fits
  <1> QED
    BY <1>2, <1>3, <1>6, <1>8 DEF Counted

LEMMA CountedHandled ==
    ASSUME Counted, NEW x \in Openings, Openings' \subseteq Openings \ {x},
           UNCHANGED <<objs, restarts>>, Len(objs) \in Nat, restarts \in Nat,
           upf.lastSeid \in Nat, upf.lastSeid' \in Nat,
           upf.lastSeid' <= upf.lastSeid + 1
    PROVE  Counted'
  <1>1. IsFiniteSet(Openings) /\ IsFiniteSet(Openings \ {x})
    BY FS_RemoveElement DEF Counted
  <1>2. /\ IsFiniteSet(Openings')
        /\ \E c, d \in Nat : /\ c = Cardinality(Openings \ {x})
                             /\ d = Cardinality(Openings') /\ d <= c
    BY <1>1, Counts
  <1>3. PICK c, d \in Nat : /\ c = Cardinality(Openings \ {x})
                            /\ d = Cardinality(Openings') /\ d <= c
    BY <1>2
  <1>4. PICK b \in Nat : b = Cardinality(Openings)
    BY <1>1, FS_CardinalityType
  <1>5. c = b - 1
    <2>1. Cardinality(Openings \ {x}) = Cardinality(Openings) - 1
      BY <1>1, FS_RemoveElement
    <2> QED
      BY <1>3, <1>4, <2>1
  <1>6. PICK m \in Nat : m = MaxObjs * restarts
    BY MayHave
  <1>7. b + upf.lastSeid <= Len(objs) + m
    BY <1>4, <1>6 DEF Counted
  <1>8. d + upf.lastSeid' <= Len(objs') + m
    <2>1. d <= b - 1
      BY <1>3, <1>5
    <2> QED
      BY <1>3, <1>7, <2>1, Fits
  <1> QED
    BY <1>2, <1>3, <1>6, <1>8 DEF Counted

(* There is a SEID for every establishment the UPF executes.               *)
LEMMA NextSeid ==
    ASSUME TypedInv, ObjectsOK, Openings # {}
    PROVE  upf.lastSeid + 1 \in UpSeids
  <1>1. PICK c \in Nat : c = Cardinality(Openings) /\ c # 0
    BY FS_EmptySet, FS_CardinalityType DEF TypedInv, Counted
  <1>2. /\ restarts \in Nat /\ upf.lastSeid \in Nat /\ restarts <= MaxMishaps
        /\ Len(objs) \in Nat /\ Len(objs) <= MaxObjs
        /\ MaxObjs \in Nat /\ MaxMishaps \in Nat
    BY SessionsAssumption, ObjectNumbers DEF TypedInv, Mishaps, IsSwitch, ObjectsOK
  <1>3. PICK m \in Nat : m = MaxObjs * restarts
    BY <1>2, MayHave
  <1>4. PICK k \in Nat : k = MaxObjs * MaxMishaps /\ m <= k
    BY <1>2, <1>3
  <1>5. MaxObjs * (MaxMishaps + 1) = k + MaxObjs
    BY <1>2, <1>4
  <1>6. c + upf.lastSeid <= Len(objs) + m
    BY <1>1, <1>3 DEF TypedInv, Counted
  <1>7. upf.lastSeid + 1 <= k + MaxObjs
    <2>1. PICK l, n \in Nat : l = upf.lastSeid /\ n = Len(objs)
      BY <1>2
    <2>2. c + l <= n + m /\ n <= MaxObjs /\ c >= 1
      BY <1>1, <1>2, <1>6, <2>1
    <2>3. l + 1 <= k + MaxObjs
      BY <1>2, <1>4, <2>2
    <2> QED
      BY <2>1, <2>3
  <1> QED
    BY <1>2, <1>5, <1>7, SessionsAssumption
------------------------------------------------------------------------------
(* What the UPF may do with the request x, and its response y.             *)
IsResponse(x, y) ==
    /\ {"op", "obj", "cp", "seid", "ue", "tunnel", "phase", "cause"} \subseteq DOMAIN y
    /\ y.op = x.op /\ y.obj = x.obj /\ y.ue = x.ue /\ y.tunnel = x.tunnel
    /\ y.phase = "response"

Opened(x, y) ==
    LET new == upf.lastSeid + 1 IN
    /\ x.op = "establish" /\ upf.cp[x.cp] = NoSeid
    /\ y.cause = Accepted /\ y.cp = x.cp /\ y.seid = new
    /\ new \notin DOMAIN upf.sess
    /\ upf'.lastSeid = new
    /\ upf'.cp = [upf.cp EXCEPT ![x.cp] = new]
    /\ DOMAIN upf'.sess = DOMAIN upf.sess \cup {new}
    /\ \A s \in DOMAIN upf.sess : upf'.sess[s] = upf.sess[s]
    /\ upf'.sess[new].cp = x.cp /\ upf'.sess[new].dlFar = NoFar
    /\ upf'.sess[new].ue = NoUe
    /\ upf'.dl = upf.dl

Refused(x, y) ==
    /\ IF x.op = "establish" THEN upf.cp[x.cp] # NoSeid /\ y.cp = x.cp
       ELSE ~Live(upf, x.seid) /\ y.cp = NoSeid
    /\ y.cause # Accepted /\ y.seid = NoSeid
    /\ upf' = upf

Ruled(x, y) ==
    LET z == upf.sess[x.seid]
        new == upf'.sess[x.seid]
    IN
    /\ OnlyRules(upf, upf', x.seid)
    /\ y.cause \in {Accepted, RuleFailure}
    /\ \/ /\ x.op = "create" /\ y.cause = Accepted
          /\ new.dlFar = x.tunnel /\ new.ue = x.ue
          /\ upf'.dl = [upf.dl EXCEPT ![x.ue] = WithPdr(upf.dl[x.ue], Pdr(x.seid, 0))]
       \/ /\ x.op = "update" /\ new.ue = z.ue /\ upf'.dl = upf.dl
          /\ z.dlFar # NoFar => new.dlFar = x.tunnel
       \/ /\ x.op = "silence" /\ new.ue = z.ue /\ upf'.dl = upf.dl
          /\ x.tunnel # NoFar /\ z.dlFar # NoFar => y.cause = Accepted
          /\ x.tunnel = NoFar => y.cause = Accepted

Closed(x, y) ==
    LET z == upf.sess[x.seid] IN
    /\ x.op = "delete" /\ y.cause = Accepted
    /\ upf'.lastSeid = upf.lastSeid
    /\ upf'.cp = [upf.cp EXCEPT ![z.cp] = NoSeid]
    /\ DOMAIN upf'.sess = DOMAIN upf.sess \ {x.seid}
    /\ \A s \in DOMAIN upf'.sess : upf'.sess[s] = upf.sess[s]
    /\ upf'.dl = IF z.ue = NoUe THEN upf.dl ELSE [upf.dl EXCEPT ![z.ue] = <<>>]

Outcome(x, y) ==
    \/ Opened(x, y)
    \/ Refused(x, y)
    \/ /\ x.op # "establish" /\ Live(upf, x.seid)
       /\ y.cp = upf.sess[x.seid].cp /\ y.seid = NoSeid
       /\ Ruled(x, y) \/ Closed(x, y)

LEMMA Answered ==
    ASSUME NEW x \in n4, IsExchange(x), NEW r, Answer(x, r)
    PROVE  /\ upf' = r.sw
           /\ \E y : /\ n4' = (n4 \ {x}) \cup {y} /\ IsResponse(x, y)
                     /\ y.cause = r.cause /\ y.cp = r.cp /\ y.seid = r.seid
  <1>1. PICK y : y = [x EXCEPT !.phase = "response", !.cause = r.cause, !.cp = r.cp,
                               !.seid = r.seid]
    OBVIOUS
  <1>2. n4' = (n4 \ {x}) \cup {y} /\ upf' = r.sw
    BY <1>1 DEF Answer
  <1>3. /\ IsResponse(x, y)
        /\ y.cause = r.cause /\ y.cp = r.cp /\ y.seid = r.seid
    BY <1>1 DEF IsExchange, IsResponse
  <1> QED
    BY <1>2, <1>3

LEMMA UpfResult ==
    ASSUME IsSwitch(upf), NEW x \in n4, IsExchange(x), UpfHandle(x)
    PROVE  /\ IsSwitch(upf') /\ x.phase = "request"
           /\ \E y : /\ n4' = (n4 \ {x}) \cup {y} /\ IsResponse(x, y)
                     /\ Outcome(x, y)
  <1>0. x.phase = "request"
    BY DEF UpfHandle
  <1>1. CASE x.op = "establish"
    <2>1. x.cp \in CpSeids
      BY <1>1 DEF IsExchange
    <2>2. PICK r : r = Establish(upf, x.cp)
      OBVIOUS
    <2>3. Answer(x, r)
      BY <1>1, <2>2 DEF UpfHandle
    <2>4. PICK y : /\ n4' = (n4 \ {x}) \cup {y} /\ IsResponse(x, y)
                   /\ y.cause = r.cause /\ y.cp = r.cp /\ y.seid = r.seid
      BY <2>3, Answered
    <2>5. upf' = r.sw
      BY <2>3, Answered
    <2>6. CASE upf.cp[x.cp] = NoSeid
      <3>0. LET new == upf.lastSeid + 1 IN
            /\ r.cause = Accepted /\ r.cp = x.cp /\ r.seid = new
            /\ IsSwitch(r.sw)
            /\ new \notin DOMAIN upf.sess
            /\ r.sw.lastSeid = new
            /\ r.sw.cp = [upf.cp EXCEPT ![x.cp] = new]
            /\ DOMAIN r.sw.sess = DOMAIN upf.sess \cup {new}
            /\ \A s \in DOMAIN upf.sess : r.sw.sess[s] = upf.sess[s]
            /\ r.sw.sess[new].cp = x.cp /\ r.sw.sess[new].dlFar = NoFar
            /\ r.sw.sess[new].ue = NoUe
            /\ r.sw.dl = upf.dl
        BY <2>1, <2>2, <2>6, Established
      <3>1. IsSwitch(upf') /\ Opened(x, y)
        BY <1>1, <2>4, <2>5, <2>6, <3>0 DEF Opened
      <3> QED
        BY <1>0, <2>4, <3>1 DEF Outcome
    <2>7. CASE upf.cp[x.cp] # NoSeid
      <3>1. r.cause = Rejected /\ r.cp = x.cp /\ r.seid = NoSeid /\ r.sw = upf
        BY <2>2, <2>7, NotEstablished
      <3>2. IsSwitch(upf') /\ Refused(x, y)
        BY <1>1, <2>1, <2>4, <2>5, <2>7, <3>1 DEF Refused, Rejected, Accepted
      <3> QED
        BY <1>0, <2>4, <3>2 DEF Outcome
    <2> QED
      BY <2>6, <2>7
  <1>2. CASE x.op # "establish" /\ ~Live(upf, x.seid)
    <2>1. PICK r : r = Unknown(upf)
      OBVIOUS
    <2>2. Answer(x, r)
      BY <1>2, <2>1 DEF UpfHandle
    <2>3. PICK y : /\ n4' = (n4 \ {x}) \cup {y} /\ IsResponse(x, y)
                   /\ y.cause = r.cause /\ y.cp = r.cp /\ y.seid = r.seid
      BY <2>2, Answered
    <2>4. upf' = r.sw
      BY <2>2, Answered
    <2>5. r.cause = NotFound /\ r.cp = NoSeid /\ r.seid = NoSeid /\ r.sw = upf
      BY <2>1 DEF Unknown
    <2>6. IsSwitch(upf') /\ Refused(x, y)
      BY <1>2, <2>3, <2>4, <2>5 DEF Refused, NotFound, Accepted
    <2> QED
      BY <1>0, <2>3, <2>6 DEF Outcome
  <1>3. CASE x.op # "establish" /\ Live(upf, x.seid)
    <2>0. x.seid \in DOMAIN upf.sess
      BY <1>3 DEF Live
    <2>1. ASSUME NEW r, Answer(x, r), IsSwitch(r.sw), r.cp = upf.sess[x.seid].cp,
                 r.seid = NoSeid,
                 \A y : /\ upf' = r.sw /\ y.cause = r.cause
                        => Ruled(x, y) \/ Closed(x, y)
          PROVE  /\ IsSwitch(upf')
                 /\ \E y : /\ n4' = (n4 \ {x}) \cup {y} /\ IsResponse(x, y)
                           /\ Outcome(x, y)
      <3>1. PICK y : /\ n4' = (n4 \ {x}) \cup {y} /\ IsResponse(x, y)
                     /\ y.cause = r.cause /\ y.cp = r.cp /\ y.seid = r.seid
        BY <2>1, Answered
      <3>2. upf' = r.sw
        BY <2>1, Answered
      <3>3. Ruled(x, y) \/ Closed(x, y)
        BY <2>1, <3>1, <3>2
      <3>4. Outcome(x, y)
        BY <1>3, <2>1, <3>1, <3>3 DEF Outcome
      <3> QED
        BY <2>1, <3>1, <3>2, <3>4
    <2>2. CASE x.op = "create" /\ Answer(x, CreateDownlink(upf, x.seid, x.ue, x.tunnel))
      <3>1. PICK r : r = CreateDownlink(upf, x.seid, x.ue, x.tunnel)
        OBVIOUS
      <3>2. x.ue \in UeAddrs /\ x.tunnel \in Tunnels
        BY <2>2 DEF IsExchange
      <3>3. /\ r.cause = Accepted /\ r.cp = upf.sess[x.seid].cp /\ r.seid = NoSeid
            /\ IsSwitch(r.sw) /\ OnlyRules(upf, r.sw, x.seid)
            /\ r.sw.sess[x.seid].dlFar = x.tunnel /\ r.sw.sess[x.seid].ue = x.ue
            /\ r.sw.dl = [upf.dl EXCEPT ![x.ue] = WithPdr(upf.dl[x.ue], Pdr(x.seid, 0))]
        BY <2>0, <3>1, <3>2, Created
      <3>4. \A y : upf' = r.sw /\ y.cause = r.cause => Ruled(x, y)
        BY <2>2, <3>3 DEF Ruled
      <3> QED
        BY <1>0, <2>1, <2>2, <3>1, <3>3, <3>4
    <2>3. CASE x.op = "update" /\ Answer(x, UpdateDownlink(upf, x.seid, x.tunnel))
      <3>1. PICK r : r = UpdateDownlink(upf, x.seid, x.tunnel)
        OBVIOUS
      <3>2. x.tunnel \in Tunnels \cup {Notify}
        BY <2>3 DEF IsExchange
      <3>3. /\ r.cp = upf.sess[x.seid].cp /\ r.seid = NoSeid
            /\ IsSwitch(r.sw) /\ OnlyRules(upf, r.sw, x.seid)
            /\ r.sw.dl = upf.dl /\ r.sw.sess[x.seid].ue = upf.sess[x.seid].ue
            /\ IF upf.sess[x.seid].dlFar # NoFar
               THEN r.cause = Accepted /\ r.sw.sess[x.seid].dlFar = x.tunnel
               ELSE r.cause = RuleFailure /\ r.sw = upf
        BY <2>0, <3>1, <3>2, Updated
      <3>4. \A y : upf' = r.sw /\ y.cause = r.cause => Ruled(x, y)
        BY <2>3, <3>3 DEF Ruled
      <3> QED
        BY <1>0, <2>1, <2>3, <3>1, <3>3, <3>4
    <2>4. CASE x.op = "silence" /\ Answer(x, Silence(upf, x.seid, x.tunnel # NoFar))
      <3>1. PICK r : r = Silence(upf, x.seid, x.tunnel # NoFar)
        OBVIOUS
      <3>3. /\ r.cp = upf.sess[x.seid].cp /\ r.seid = NoSeid
            /\ IsSwitch(r.sw) /\ OnlyRules(upf, r.sw, x.seid)
            /\ r.sw.dl = upf.dl /\ r.sw.sess[x.seid].ue = upf.sess[x.seid].ue
            /\ r.cause \in {Accepted, RuleFailure}
            /\ x.tunnel # NoFar /\ upf.sess[x.seid].dlFar # NoFar => r.cause = Accepted
            /\ x.tunnel = NoFar => r.cause = Accepted
        <4>1. PICK done : done = IF x.tunnel # NoFar
                                 THEN UpdateDownlink(upf, x.seid, Notify)
                                 ELSE Untouched(x.seid)
          OBVIOUS
        <4>2. r = UplinkOff(done, x.seid)
          BY <3>1, <4>1 DEF Silence, Untouched, UplinkOff
        <4>3. /\ x.tunnel # NoFar => done = UpdateDownlink(upf, x.seid, Notify)
              /\ x.tunnel = NoFar => done = Untouched(x.seid)
          BY <4>1
        <4> QED
          BY <2>0, <4>2, <4>3, Silenced
      <3>4. \A y : upf' = r.sw /\ y.cause = r.cause => Ruled(x, y)
        BY <2>4, <3>3 DEF Ruled
      <3> QED
        BY <1>0, <2>1, <2>4, <3>1, <3>3, <3>4
    <2>5. CASE x.op = "delete" /\ Answer(x, Delete(upf, x.seid))
      <3>1. PICK r : r = Delete(upf, x.seid)
        OBVIOUS
      <3>2. LET z == upf.sess[x.seid] IN
            /\ r.cause = Accepted /\ r.cp = z.cp /\ r.seid = NoSeid
            /\ IsSwitch(r.sw)
            /\ r.sw.lastSeid = upf.lastSeid
            /\ r.sw.cp = [upf.cp EXCEPT ![z.cp] = NoSeid]
            /\ DOMAIN r.sw.sess = DOMAIN upf.sess \ {x.seid}
            /\ \A s \in DOMAIN r.sw.sess : r.sw.sess[s] = upf.sess[s]
            /\ r.sw.dl = IF z.ue = NoUe THEN upf.dl ELSE [upf.dl EXCEPT ![z.ue] = <<>>]
        BY <2>0, <3>1, Deleted
      <3>3. \A y : upf' = r.sw /\ y.cause = r.cause => Closed(x, y)
        BY <2>5, <3>2 DEF Closed
      <3> QED
        BY <1>0, <2>1, <2>5, <3>1, <3>2, <3>3
    <2> QED
      BY <1>3, <2>2, <2>3, <2>4, <2>5, <1>0 DEF UpfHandle
  <1> QED
    BY <1>1, <1>2, <1>3
------------------------------------------------------------------------------
(* What the other steps do to the objects and the exchanges.               *)
Becomes(q, b) ==
    /\ DOMAIN objs' = DOMAIN objs /\ Len(objs') = Len(objs)
    /\ \A o \in DOMAIN objs : objs'[o] = IF o = q THEN b ELSE objs[o]

(* A create request made the object o.                                     *)
Made(p, o) ==
    /\ o = Len(objs) + 1 /\ o \in Objs \ DOMAIN objs
    /\ DOMAIN objs' = DOMAIN objs \cup {o} /\ Len(objs') = Len(objs) + 1
    /\ \A q \in DOMAIN objs : objs'[q] = objs[q]
    /\ forsaken' = forsaken \cup ({cur[p]} \ {NoObj})
    /\ \/ /\ UNCHANGED n4
          /\ \E a \in UeAddrs \cup {NoUe} : objs'[o] = NewObject(p, a, FALSE)
       \/ /\ \E a \in UeAddrs : objs'[o] = NewObject(p, a, TRUE)
          /\ \E x : n4' = n4 \cup {x} /\ IsRequest(x, "establish", o, NoSeid, NoFar)

(* A procedure of the session of q sent the request x.                     *)
Asked(q, b, x) ==
    \/ \E t \in Tunnels :
          /\ objs[q].flow
          /\ b = [objs[q] EXCEPT !.dl = t]
          /\ IsRequest(x, IF objs[q].dl = NoFar THEN "create" ELSE "update",
                       q, objs[q].up, t)
    \/ /\ b = [objs[q] EXCEPT !.released = TRUE]
       /\ IsRequest(x, "silence", q, objs[q].up, objs[q].dl)
    \/ /\ b = objs[q]
       /\ IsRequest(x, "delete", q, objs[q].up, NoFar)

(* What its response x does to the object q.                               *)
Stored(q, b, x) ==
    /\ x.op = "establish" /\ x.cause = Accepted
    /\ b = [objs[q] EXCEPT !.up = x.seid]
    /\ UNCHANGED <<forsaken, early>>

Tunnelled(q, b, x) ==
    /\ x.op \in {"create", "update"} /\ objs[q].flow
    /\ b = [objs[q] EXCEPT !.dl = x.tunnel, !.released = @ /\ x.op = "update"]
    /\ UNCHANGED <<forsaken, early>>

Dropped(q, b, x) ==
    LET inUse == \E s \in DOMAIN upf.sess : upf.sess[s].cp = q IN
    /\ x.op \in {"silence", "delete"} /\ x.cause = Accepted
    /\ b = [NewObject(objs[q].pdu, NoUe, FALSE) EXCEPT !.node = objs[q].node]
    /\ forsaken' = IF inUse THEN forsaken \cup {q} ELSE forsaken
    /\ early' = IF inUse THEN early \cup {objs[q].addr} ELSE early

LEMMA Becoming ==
    ASSUME ObjectsOK, NEW q \in DOMAIN objs, NEW b, objs' = [objs EXCEPT ![q] = b]
    PROVE  Becomes(q, b)
  <1>1. PICK T : objs \in Seq(T)
    BY DEF ObjectsOK
  <1>2. objs \in Seq(T \cup {b})
    BY <1>1
  <1>3. Len(objs') = Len(objs)
    BY <1>2, ExceptSeq, ObjectNumbers
  <1> QED
    BY <1>3 DEF Becomes

LEMMA CreateResult ==
    ASSUME SessionInv, NEW p \in Pdus, CreateSMContext(p)
    PROVE  /\ \E o : Made(p, o)
           /\ UNCHANGED <<offered, upf, losses, restarts, early, raced>>
  <1>1. PICK o : o = Len(objs) + 1
    OBVIOUS
  <1>2. /\ o \in Objs /\ o \notin DOMAIN objs /\ Len(objs) \in Nat
        /\ forsaken' = forsaken \cup ({cur[p]} \ {NoObj})
        /\ UNCHANGED <<offered, upf, losses, restarts, early>>
    BY <1>1, ObjectNumbers DEF CreateSMContext, SessionInv, envVars
  <1>3. \A x \in n4 : x.obj # o
    BY <1>2, SessionsAssumption DEF SessionInv, ExchangesOK, Objs, NoObj
  <1>4. ASSUME NEW b, objs' = Append(objs, b)
        PROVE  /\ DOMAIN objs' = DOMAIN objs \cup {o} /\ Len(objs') = Len(objs) + 1
               /\ \A q \in DOMAIN objs : objs'[q] = objs[q]
               /\ objs'[o] = b
    <2>1. PICK T : objs \in Seq(T)
      BY DEF SessionInv, ObjectsOK
    <2>2. objs \in Seq(T \cup {b})
      BY <2>1
    <2>3. /\ objs' \in Seq(T \cup {b}) /\ Len(objs') = Len(objs) + 1
          /\ \A i \in 1 .. Len(objs) : objs'[i] = objs[i]
          /\ objs'[Len(objs) + 1] = b
      BY <1>4, <2>2, AppendProperties
    <2>4. DOMAIN objs' = DOMAIN objs \cup {o}
      BY <1>1, <2>2, <2>3, LenProperties
    <2>5. \A q \in DOMAIN objs : objs'[q] = objs[q]
      BY <2>3, ObjectNumbers DEF SessionInv
    <2> QED
      BY <1>1, <2>3, <2>4, <2>5
  <1>5. ASSUME NEW a \in UeAddrs \cup {NoUe}, UNCHANGED <<n4, raced>>,
               objs' = Append(objs, NewObject(p, a, FALSE))
        PROVE  Made(p, o) /\ UNCHANGED raced
    <2>1. /\ DOMAIN objs' = DOMAIN objs \cup {o} /\ Len(objs') = Len(objs) + 1
          /\ \A q \in DOMAIN objs : objs'[q] = objs[q]
          /\ objs'[o] = NewObject(p, a, FALSE)
      BY <1>4, <1>5
    <2> QED
      BY <1>1, <1>2, <1>5, <2>1 DEF Made
  <1>6. ASSUME NEW a \in UeAddrs, Send("establish", o, NoSeid, NoFar),
               objs' = Append(objs, NewObject(p, a, TRUE))
        PROVE  Made(p, o) /\ UNCHANGED raced
    <2>1. /\ DOMAIN objs' = DOMAIN objs \cup {o} /\ Len(objs') = Len(objs) + 1
          /\ \A q \in DOMAIN objs : objs'[q] = objs[q]
          /\ objs'[o] = NewObject(p, a, TRUE)
      BY <1>4, <1>6
    <2>2. /\ \E x : n4' = n4 \cup {x} /\ IsRequest(x, "establish", o, NoSeid, NoFar)
          /\ raced' = IF ExchangesOf(o) = {} THEN raced ELSE raced \cup {o}
      BY <1>6, Sent
    <2>3. ExchangesOf(o) = {}
      BY <1>3 DEF ExchangesOf
    <2> QED
      BY <1>1, <1>2, <2>1, <2>2, <2>3 DEF Made
  <1>7. HasFree(alloc) => FreeAddress(alloc) \in UeAddrs
    BY FreeIsFree, RangeIsAddresses DEF SessionInv
  <1>8. \/ \E a \in UeAddrs \cup {NoUe} :
              /\ objs' = Append(objs, NewObject(p, a, FALSE))
              /\ UNCHANGED <<n4, raced>>
        \/ \E a \in UeAddrs :
              /\ objs' = Append(objs, NewObject(p, a, TRUE))
              /\ Send("establish", o, NoSeid, NoFar)
    BY <1>1, <1>7 DEF CreateSMContext
  <1> QED
    BY <1>2, <1>5, <1>6, <1>8

LEMMA RequestResult ==
    ASSUME SessionInv, NEW p \in Pdus,
           \/ \E t \in Tunnels : UpdateTunnel(p, t)
           \/ ReleaseFlows(p)
           \/ ReleaseSMContext(p)
    PROVE  /\ \E q, b, x :
                 /\ q \in DOMAIN objs /\ Becomes(q, b) /\ Asked(q, b, x)
                 /\ n4' = n4 \cup {x}
                 /\ raced' = IF ExchangesOf(q) = {} THEN raced ELSE raced \cup {q}
           /\ UNCHANGED <<offered, upf, losses, restarts, forsaken, early>>
  <1>1. UNCHANGED <<offered, upf, losses, restarts, forsaken, early>>
    BY DEF UpdateTunnel, ReleaseFlows, ReleaseSMContext, envVars
  <1>2. PICK q : q = cur[p]
    OBVIOUS
  <1>3. q # NoObj
    BY <1>2 DEF UpdateTunnel, ReleaseFlows, ReleaseSMContext
  <1>4. q \in DOMAIN objs
    BY <1>2, <1>3 DEF SessionInv, CurOK
  <1>5. ASSUME NEW b, Becomes(q, b), NEW op, NEW seid, NEW tunnel,
               Send(op, q, seid, tunnel),
               \A x : IsRequest(x, op, q, seid, tunnel) => Asked(q, b, x)
        PROVE  \E c, x : /\ Becomes(q, c) /\ Asked(q, c, x)
                         /\ n4' = n4 \cup {x}
                         /\ raced' = IF ExchangesOf(q) = {} THEN raced ELSE raced \cup {q}
    <2>1. PICK x : n4' = n4 \cup {x} /\ IsRequest(x, op, q, seid, tunnel)
      BY <1>5, Sent
    <2>2. raced' = IF ExchangesOf(q) = {} THEN raced ELSE raced \cup {q}
      BY <1>5, Sent
    <2>3. Asked(q, b, x)
      BY <1>5, <2>1
    <2> QED
      BY <1>5, <2>1, <2>2, <2>3
  <1>6. ASSUME NEW t \in Tunnels, UpdateTunnel(p, t)
        PROVE  \E c, x : /\ Becomes(q, c) /\ Asked(q, c, x)
                         /\ n4' = n4 \cup {x}
                         /\ raced' = IF ExchangesOf(q) = {} THEN raced ELSE raced \cup {q}
    <2>1. PICK b : b = [objs[q] EXCEPT !.dl = t]
      OBVIOUS
    <2>2. PICK op : op = IF objs[q].dl = NoFar THEN "create" ELSE "update"
      OBVIOUS
    <2>3. /\ objs[q].flow /\ objs' = [objs EXCEPT ![q] = b]
          /\ Send(op, q, objs[q].up, t)
      BY <1>2, <1>6, <2>1, <2>2 DEF UpdateTunnel
    <2>4. Becomes(q, b)
      BY <1>4, <2>3, Becoming DEF SessionInv
    <2>5. \A x : IsRequest(x, op, q, objs[q].up, t) => Asked(q, b, x)
      BY <2>1, <2>2, <2>3 DEF Asked
    <2> QED
      BY <1>5, <2>3, <2>4, <2>5
  <1>7. CASE ReleaseFlows(p)
    <2>1. PICK b : b = [objs[q] EXCEPT !.released = TRUE]
      OBVIOUS
    <2>2. objs' = [objs EXCEPT ![q] = b] /\ Send("silence", q, objs[q].up, objs[q].dl)
      BY <1>2, <1>7, <2>1 DEF ReleaseFlows
    <2>3. Becomes(q, b)
      BY <1>4, <2>2, Becoming DEF SessionInv
    <2>4. \A x : IsRequest(x, "silence", q, objs[q].up, objs[q].dl) => Asked(q, b, x)
      BY <2>1 DEF Asked
    <2> QED
      BY <1>1, <1>4, <1>5, <2>2, <2>3, <2>4
  <1>8. CASE ReleaseSMContext(p)
    <2>1. UNCHANGED objs /\ Send("delete", q, objs[q].up, NoFar)
      BY <1>2, <1>8 DEF ReleaseSMContext
    <2>2. Becomes(q, objs[q])
      BY <2>1 DEF Becomes
    <2>3. \A x : IsRequest(x, "delete", q, objs[q].up, NoFar) => Asked(q, objs[q], x)
      BY DEF Asked
    <2> QED
      BY <1>1, <1>4, <1>5, <2>1, <2>2, <2>3
  <1> QED
    BY <1>1, <1>4, <1>6, <1>7, <1>8

LEMMA ResponseResult ==
    ASSUME SessionInv, NEW x \in n4, N4Response(x)
    PROVE  /\ x.phase = "response" /\ n4' = n4 \ {x}
           /\ UNCHANGED <<upf, losses, restarts, raced>>
           /\ \/ offered' = offered
              \/ x.obj \in DOMAIN objs /\ offered' = offered \cup {objs[x.obj].pdu}
           /\ \/ /\ x.obj \in DOMAIN objs /\ Expected(x)
                 /\ \E b : /\ Becomes(x.obj, b)
                           /\ \/ Stored(x.obj, b, x)
                              \/ Tunnelled(x.obj, b, x)
                              \/ Dropped(x.obj, b, x)
              \/ /\ UNCHANGED <<objs, forsaken, early>>
                 /\ \/ ~Expected(x) \/ x.cause # Accepted
                    \/ x.op \in {"create", "update"}
  <1>1. /\ x.phase = "response" /\ n4' = n4 \ {x}
        /\ UNCHANGED <<upf, losses, restarts, raced>>
    BY DEF N4Response, envVars
  <1>2. Expected(x) => x.obj \in DOMAIN objs
    BY DEF Expected, SessionInv, ExchangesOK
  <1>3. \/ offered' = offered
        \/ x.obj \in DOMAIN objs /\ offered' = offered \cup {objs[x.obj].pdu}
    BY <1>2 DEF N4Response, EstablishmentResponse, TunnelResponse, ReleaseResponse
  <1>4. CASE ~Expected(x)
    <2>1. UNCHANGED <<objs, forsaken, early>>
      BY <1>4 DEF N4Response
    <2> QED
      BY <1>1, <1>3, <1>4, <2>1
  <1>5. CASE Expected(x) /\ EstablishmentResponse(x)
    <2>1. CASE x.cause # Accepted
      <3>1. UNCHANGED <<objs, forsaken, early>>
        BY <1>5, <2>1 DEF EstablishmentResponse
      <3> QED
        BY <1>1, <1>3, <2>1, <3>1
    <2>2. CASE x.cause = Accepted
      <3>1. PICK b : b = [objs[x.obj] EXCEPT !.up = x.seid]
        OBVIOUS
      <3>2. objs' = [objs EXCEPT ![x.obj] = b] /\ Stored(x.obj, b, x)
        BY <1>5, <2>2, <3>1 DEF EstablishmentResponse, Stored
      <3>3. Becomes(x.obj, b)
        BY <1>2, <1>5, <3>2, Becoming DEF SessionInv
      <3> QED
        BY <1>1, <1>2, <1>3, <1>5, <3>2, <3>3
    <2> QED
      BY <2>1, <2>2
  <1>6. CASE Expected(x) /\ TunnelResponse(x)
    <2>1. CASE x.cause = Accepted /\ objs[x.obj].flow
      <3>1. PICK b : b = [objs[x.obj] EXCEPT !.dl = x.tunnel,
                                            !.released = @ /\ x.op = "update"]
        OBVIOUS
      <3>2. Tunnelled(x.obj, b, x)
        BY <1>6, <2>1, <3>1 DEF TunnelResponse, Tunnelled
      <3>3. objs' = [objs EXCEPT ![x.obj] = b]
        BY <1>2, <1>6, <2>1, <3>1 DEF TunnelResponse
      <3>4. Becomes(x.obj, b)
        BY <1>2, <1>6, <3>3, Becoming DEF SessionInv
      <3> QED
        BY <1>1, <1>2, <1>3, <1>6, <3>2, <3>4
    <2>2. CASE ~(x.cause = Accepted /\ objs[x.obj].flow)
      <3>1. /\ UNCHANGED <<objs, forsaken, early>>
            /\ x.op \in {"create", "update"}
        BY <1>6, <2>2 DEF TunnelResponse
      <3> QED
        BY <1>1, <1>3, <3>1
    <2> QED
      BY <2>1, <2>2
  <1>7. CASE Expected(x) /\ ReleaseResponse(x)
    <2>1. CASE x.cause # Accepted
      <3>1. UNCHANGED <<objs, forsaken, early>>
        BY <1>7, <2>1 DEF ReleaseResponse
      <3> QED
        BY <1>1, <1>3, <2>1, <3>1
    <2>2. CASE x.cause = Accepted
      <3>1. PICK b : b = [NewObject(objs[x.obj].pdu, NoUe, FALSE)
                             EXCEPT !.node = objs[x.obj].node]
        OBVIOUS
      <3>2. Deallocate(x.obj) /\ x.op \in {"silence", "delete"}
        BY <1>7, <2>2 DEF ReleaseResponse
      <3>3. objs' = [objs EXCEPT ![x.obj] = b] /\ Dropped(x.obj, b, x)
        BY <2>2, <3>1, <3>2 DEF Deallocate, Dropped
      <3>4. Becomes(x.obj, b)
        BY <1>2, <1>7, <3>3, Becoming DEF SessionInv
      <3> QED
        BY <1>1, <1>2, <1>3, <1>7, <3>3, <3>4
    <2> QED
      BY <2>1, <2>2
  <1> QED
    BY <1>4, <1>5, <1>6, <1>7 DEF N4Response
------------------------------------------------------------------------------
LEMMA Numbers ==
    ASSUME SessionInv, TypedInv
    PROVE  /\ Len(objs) \in Nat /\ restarts \in Nat /\ upf.lastSeid \in Nat
           /\ DOMAIN objs \subseteq CpSeids /\ NoSeid \notin DOMAIN objs
  BY ObjectNumbers, SessionsAssumption
     DEF SessionInv, TypedInv, Mishaps, IsSwitch, NoObj, NoSeid

LEMMA NewObjectTyped ==
    ASSUME NEW p \in Pdus
    PROVE  /\ \A a \in UeAddrs \cup {NoUe} :
                 /\ NewObject(p, a, FALSE) \in Object
                 /\ ~NewObject(p, a, FALSE).flow
           /\ \A a \in UeAddrs :
                 /\ NewObject(p, a, TRUE) \in Object
                 /\ NewObject(p, a, TRUE).addr = a
  BY DEF NewObject, Object

LEMMA CreateTyped ==
    ASSUME SessionInv, TypedInv, NEW p \in Pdus, CreateSMContext(p)
    PROVE  TypedInv'
  <1>1. PICK o : Made(p, o)
    BY CreateResult
  <1>2. UNCHANGED <<offered, upf, losses, restarts>>
    BY CreateResult
  <1>3. ObjectsTyped'
    <2>1. objs'[o] \in Object /\ (objs'[o].flow => objs'[o].addr \in UeAddrs)
      BY <1>1, NewObjectTyped DEF Made
    <2> QED
      BY <1>1, <2>1 DEF Made, ObjectsTyped, TypedInv
  <1>4. CASE UNCHANGED n4
    <2>1. ExchangesTyped'
      BY <1>4 DEF TypedInv, ExchangesTyped
    <2>2. Openings' \subseteq Openings \cup {o}
      BY <1>4 DEF Openings
    <2>3. Counted'
      BY <1>1, <1>2, <2>2, Numbers, CountedOpen DEF TypedInv, Made
    <2> QED
      BY <1>2, <1>3, <2>1, <2>3 DEF TypedInv, Mishaps
  <1>5. CASE \E x : n4' = n4 \cup {x} /\ IsRequest(x, "establish", o, NoSeid, NoFar)
    <2>1. PICK x : n4' = n4 \cup {x} /\ IsRequest(x, "establish", o, NoSeid, NoFar)
      BY <1>5
    <2>2. o \in CpSeids /\ objs'[o].addr \in UeAddrs \cup {NoUe}
      BY <1>1, <1>3, SessionsAssumption DEF Made, ObjectsTyped, Object
    <2>3. IsExchange(x)
      BY <2>1, <2>2 DEF IsExchange, IsRequest
    <2>4. ExchangesTyped'
      BY <2>1, <2>3 DEF TypedInv, ExchangesTyped
    <2>5. Openings' \subseteq Openings \cup {x}
      BY <2>1 DEF Openings
    <2>6. Counted'
      BY <1>1, <1>2, <2>5, Numbers, CountedOpen DEF TypedInv, Made
    <2> QED
      BY <1>2, <1>3, <2>4, <2>6 DEF TypedInv, Mishaps
  <1> QED
    BY <1>1, <1>4, <1>5 DEF Made

LEMMA RequestTyped ==
    ASSUME SessionInv, TypedInv, NEW p \in Pdus,
           \/ \E t \in Tunnels : UpdateTunnel(p, t)
           \/ ReleaseFlows(p)
           \/ ReleaseSMContext(p)
    PROVE  TypedInv'
  <1>1. PICK q, b, x : /\ q \in DOMAIN objs /\ Becomes(q, b) /\ Asked(q, b, x)
                       /\ n4' = n4 \cup {x}
    BY RequestResult
  <1>2. UNCHANGED <<offered, upf, losses, restarts>>
    BY RequestResult
  <1>3. objs[q] \in Object /\ (objs[q].flow => objs[q].addr \in UeAddrs)
    BY <1>1 DEF TypedInv, ObjectsTyped
  <1>4. /\ b \in Object /\ b.addr = objs[q].addr /\ b.flow = objs[q].flow
    BY <1>1, <1>3 DEF Asked, Object
  <1>5. ObjectsTyped'
    BY <1>1, <1>3, <1>4 DEF Becomes, TypedInv, ObjectsTyped
  <1>6. objs'[q] = b /\ q \in CpSeids
    BY <1>1, Numbers DEF Becomes
  <1>7. IsExchange(x) /\ x.op # "establish"
    <2>1. /\ b.addr \in UeAddrs \cup {NoUe} /\ objs[q].up \in UpSeids \cup {NoSeid}
          /\ objs[q].dl \in Tunnels \cup {NoFar}
      BY <1>3, <1>4 DEF Object
    <2>2. CASE \E t \in Tunnels :
                 /\ objs[q].flow
                 /\ IsRequest(x, IF objs[q].dl = NoFar THEN "create" ELSE "update",
                              q, objs[q].up, t)
      BY <1>3, <1>4, <1>6, <2>1, <2>2 DEF IsExchange, IsRequest
    <2>3. CASE IsRequest(x, "silence", q, objs[q].up, objs[q].dl)
      BY <1>6, <2>1, <2>3 DEF IsExchange, IsRequest
    <2>4. CASE IsRequest(x, "delete", q, objs[q].up, NoFar)
      BY <1>6, <2>1, <2>4 DEF IsExchange, IsRequest
    <2> QED
      BY <1>1, <2>2, <2>3, <2>4 DEF Asked
  <1>8. ExchangesTyped'
    BY <1>1, <1>7 DEF TypedInv, ExchangesTyped
  <1>9. Openings' \subseteq Openings
    BY <1>1, <1>7 DEF Openings, Establishing
  <1>10. Counted'
    BY <1>1, <1>2, <1>9, Numbers, CountedFewer DEF TypedInv, Becomes
  <1> QED
    BY <1>2, <1>5, <1>8, <1>10 DEF TypedInv, Mishaps

LEMMA UpfTyped ==
    ASSUME SessionInv, TypedInv, NEW x \in n4, UpfHandle(x)
    PROVE  TypedInv'
  <1>0. IsSwitch(upf) /\ IsExchange(x)
    BY DEF TypedInv, ExchangesTyped
  <1>1. IsSwitch(upf') /\ x.phase = "request"
    BY <1>0, UpfResult
  <1>2. PICK y : n4' = (n4 \ {x}) \cup {y} /\ IsResponse(x, y) /\ Outcome(x, y)
    BY <1>0, UpfResult
  <1>3. UNCHANGED <<objs, offered, losses, restarts>>
    BY DEF UpfHandle, smfVars, envVars
  <1>4. Opened(x, y) => x \in Openings
    BY <1>1 DEF Opened, Openings, Establishing
  <1>5. y.seid \in UpSeids \cup {NoSeid}
    BY <1>2, <1>4, NextSeid DEF Outcome, Opened, Refused, SessionInv
  <1>6. y.cp \in CpSeids \cup {NoSeid} /\ (y.op = "establish" => y.cp \in CpSeids)
    <2>1. CASE Opened(x, y)
      BY <1>0, <2>1 DEF Opened, IsExchange
    <2>2. CASE Refused(x, y)
      BY <1>0, <1>2, <2>2 DEF Refused, IsResponse, IsExchange
    <2>3. CASE /\ x.op # "establish" /\ Live(upf, x.seid)
               /\ y.cp = upf.sess[x.seid].cp
      BY <1>0, <1>2, <2>3 DEF Live, IsSwitch, IsSession, IsResponse
    <2> QED
      BY <1>2, <2>1, <2>2, <2>3 DEF Outcome
  <1>7. IsExchange(y)
    BY <1>0, <1>2, <1>5, <1>6 DEF IsExchange, IsResponse
  <1>8. ExchangesTyped'
    BY <1>2, <1>7 DEF TypedInv, ExchangesTyped
  <1>9. Openings' \subseteq Openings \ {x}
    BY <1>2 DEF Openings, Establishing, IsResponse
  <1>10. upf'.lastSeid \in Nat
    BY <1>1 DEF IsSwitch
  <1>11. Counted'
    <2>1. CASE Opened(x, y)
      <3>1. upf'.lastSeid <= upf.lastSeid + 1
        BY <2>1, <1>10 DEF Opened
      <3> QED
        BY <1>3, <1>4, <1>9, <1>10, <2>1, <3>1, Numbers, CountedHandled DEF TypedInv
    <2>2. CASE ~Opened(x, y)
      <3>1. upf'.lastSeid = upf.lastSeid
        BY <1>2, <2>2 DEF Outcome, Refused, Ruled, Closed, OnlyRules
      <3>2. upf'.lastSeid <= upf.lastSeid
        BY <1>10, <3>1
      <3> QED
        BY <1>3, <1>9, <1>10, <3>2, Numbers, CountedFewer DEF TypedInv
    <2> QED
      BY <2>1, <2>2
  <1>12. ObjectsTyped' /\ offered' \subseteq Pdus /\ Mishaps'
    BY <1>3 DEF TypedInv, ObjectsTyped, Mishaps
  <1> QED
    BY <1>1, <1>8, <1>11, <1>12 DEF TypedInv

LEMMA ResponseTyped ==
    ASSUME SessionInv, TypedInv, NEW x \in n4, N4Response(x)
    PROVE  TypedInv'
  <1>1. n4' = n4 \ {x} /\ UNCHANGED <<upf, losses, restarts>>
    BY ResponseResult
  <1>2. offered' \subseteq Pdus
    BY ResponseResult DEF TypedInv, ObjectsTyped, Object
  <1>3. ExchangesTyped' /\ Openings' \subseteq Openings
    BY <1>1 DEF TypedInv, ExchangesTyped, Openings
  <1>4. ObjectsTyped' /\ Len(objs') = Len(objs)
    <2>1. CASE UNCHANGED objs
      BY <2>1 DEF TypedInv, ObjectsTyped
    <2>2. CASE /\ x.obj \in DOMAIN objs
               /\ \E b : /\ Becomes(x.obj, b)
                         /\ \/ Stored(x.obj, b, x)
                            \/ Tunnelled(x.obj, b, x)
                            \/ Dropped(x.obj, b, x)
      <3>1. PICK q \in DOMAIN objs : q = x.obj
        BY <2>2
      <3>2. PICK b : /\ Becomes(q, b)
                     /\ \/ Stored(q, b, x)
                        \/ Tunnelled(q, b, x)
                        \/ Dropped(q, b, x)
        BY <2>2, <3>1
      <3>3. objs[q] \in Object /\ (objs[q].flow => objs[q].addr \in UeAddrs)
        BY DEF TypedInv, ObjectsTyped
      <3>4. IsExchange(x)
        BY DEF TypedInv, ExchangesTyped
      <3>5. b \in Object /\ (b.flow => b.addr \in UeAddrs)
        <4>1. CASE Stored(q, b, x)
          BY <3>3, <3>4, <4>1 DEF Stored, Object, IsExchange
        <4>2. CASE Tunnelled(q, b, x)
          BY <3>3, <3>4, <4>2 DEF Tunnelled, Object, IsExchange
        <4>3. CASE Dropped(q, b, x)
          <5>1. b = [NewObject(objs[q].pdu, NoUe, FALSE) EXCEPT !.node = objs[q].node]
            BY <4>3 DEF Dropped
          <5>2. objs[q].pdu \in Pdus /\ objs[q].node \in BOOLEAN
            BY <3>3 DEF Object
          <5> QED
            BY <5>1, <5>2 DEF NewObject, Object
        <4> QED
          BY <3>2, <4>1, <4>2, <4>3
      <3> QED
        BY <3>2, <3>5 DEF Becomes, TypedInv, ObjectsTyped
    <2> QED
      BY <2>1, <2>2, ResponseResult
  <1>5. Counted'
    BY <1>1, <1>3, <1>4, Numbers, CountedFewer DEF TypedInv
  <1> QED
    BY <1>1, <1>2, <1>3, <1>4, <1>5 DEF TypedInv, Mishaps

LEMMA LossTyped ==
    ASSUME SessionInv, TypedInv, (\E x \in n4 : Lose(x)) \/ UNCHANGED vars
    PROVE  TypedInv'
  <1>1. /\ n4' \subseteq n4 /\ UNCHANGED <<objs, offered, upf, restarts>>
        /\ \/ losses' = losses
           \/ losses' = losses + 1 /\ losses + restarts < MaxMishaps
    BY DEF Lose, vars, smfVars, envVars
  <1>2. Openings' \subseteq Openings
    BY <1>1 DEF Openings
  <1>3. Counted'
    BY <1>1, <1>2, Numbers, CountedFewer DEF TypedInv
  <1>4. Mishaps'
    BY <1>1, SessionsAssumption DEF TypedInv, Mishaps
  <1>5. ExchangesTyped' /\ ObjectsTyped'
    BY <1>1 DEF TypedInv, ExchangesTyped, ObjectsTyped
  <1> QED
    BY <1>1, <1>3, <1>4, <1>5 DEF TypedInv

LEMMA RestartUpfTyped ==
    ASSUME SessionInv, TypedInv, RestartUpf
    PROVE  TypedInv'
  <1>1. /\ UNCHANGED <<objs, offered, n4, losses>> /\ restarts' = restarts + 1
        /\ losses + restarts < MaxMishaps /\ upf' = FreshSwitch
    BY DEF RestartUpf, smfVars
  <1>2. Openings' \subseteq Openings
    BY <1>1 DEF Openings
  <1>3. IsSwitch(upf') /\ upf'.lastSeid = 0
    BY <1>1, FreshIsSwitch DEF FreshSwitch
  <1>4. Counted'
    BY <1>1, <1>2, <1>3, Numbers, CountedFewer DEF TypedInv
  <1>5. Mishaps'
    BY <1>1, SessionsAssumption DEF TypedInv, Mishaps
  <1>6. ExchangesTyped' /\ ObjectsTyped'
    BY <1>1 DEF TypedInv, ExchangesTyped, ObjectsTyped
  <1> QED
    BY <1>1, <1>3, <1>4, <1>5, <1>6 DEF TypedInv

(* An establishment on its way when the SMF restarts keeps its SEID.       *)
LEMMA OpeningsLeft ==
    ASSUME Counted, ExchangesTyped, RestartSmf
    PROVE  IsFiniteSet(Openings') /\ Cardinality(Openings') <= Cardinality(Openings)
  <1> DEFINE f == [x \in Openings |-> [x EXCEPT !.obj = NoObj]]
  <1>1. \A x \in Openings : f[x] \in Openings'
    <2> TAKE x \in Openings
    <2>1. PICK z : z = [x EXCEPT !.obj = NoObj]
      OBVIOUS
    <2>2. z \in n4'
      BY <2>1 DEF RestartSmf, Openings, Establishing
    <2>3. z.op = "establish" /\ z.phase = "request"
      BY <2>1 DEF Openings, Establishing, ExchangesTyped, IsExchange
    <2> QED
      BY <2>1, <2>2, <2>3 DEF Openings, Establishing
  <1>2. \A z \in Openings' : \E x \in Openings : f[x] = z
    <2> TAKE z \in Openings'
    <2>1. z \in n4' /\ z.op = "establish"
      BY DEF Openings, Establishing
    <2>2. PICK x \in n4 : x.phase = "request" /\ z = [x EXCEPT !.obj = NoObj]
      BY <2>1 DEF RestartSmf
    <2>3. x.op = "establish"
      BY <2>1, <2>2 DEF ExchangesTyped, IsExchange
    <2>4. x \in Openings
      BY <2>2, <2>3 DEF Openings, Establishing
    <2> QED
      BY <2>2, <2>4
  <1>3. f \in [Openings -> Openings']
    BY <1>1
  <1> HIDE DEF f
  <1>4. f \in Surjection(Openings, Openings')
    BY <1>2, <1>3 DEF Surjection
  <1> QED
    BY <1>4, FS_Surjection DEF Counted

LEMMA RestartSmfTyped ==
    ASSUME SessionInv, TypedInv, RestartSmf
    PROVE  TypedInv'
  <1>1. /\ UNCHANGED <<offered, upf, losses>> /\ restarts' = restarts + 1
        /\ losses + restarts < MaxMishaps /\ objs' = <<>>
        /\ n4' = {[x EXCEPT !.obj = NoObj] : x \in {y \in n4 : y.phase = "request"}}
    BY DEF RestartSmf
  <1>2. ObjectsTyped' /\ Len(objs') = 0
    BY <1>1 DEF ObjectsTyped
  <1>3. ExchangesTyped'
    <2> SUFFICES ASSUME NEW z \in n4' PROVE IsExchange(z)
      BY DEF ExchangesTyped
    <2>1. PICK x \in n4 : z = [x EXCEPT !.obj = NoObj]
      BY <1>1
    <2>2. IsExchange(x)
      BY DEF TypedInv, ExchangesTyped
    <2> QED
      BY <2>1, <2>2 DEF IsExchange
  <1>4. Counted'
    <2>1. IsFiniteSet(Openings') /\ Cardinality(Openings') <= Cardinality(Openings)
      BY OpeningsLeft DEF TypedInv
    <2>2. PICK c, d \in Nat : c = Cardinality(Openings) /\ d = Cardinality(Openings')
      BY <2>1, FS_CardinalityType DEF TypedInv, Counted
    <2>3. PICK m \in Nat : m = MaxObjs * restarts /\ MaxObjs * restarts' = m + MaxObjs
      BY <1>1, Numbers, MayHave
    <2>4. PICK l, n, k \in Nat : l = upf.lastSeid /\ n = Len(objs) /\ k = MaxObjs
      BY Numbers, SessionsAssumption
    <2>5. c + l <= n + m /\ n <= k /\ d <= c
      BY <2>1, <2>2, <2>3, <2>4 DEF TypedInv, Counted, SessionInv, ObjectsOK
    <2>6. d + l <= 0 + (m + k)
      BY <2>5
    <2> QED
      BY <1>1, <1>2, <2>1, <2>2, <2>3, <2>4, <2>6 DEF Counted
  <1>5. Mishaps'
    BY <1>1, SessionsAssumption DEF TypedInv, Mishaps
  <1> QED
    BY <1>1, <1>2, <1>3, <1>4, <1>5 DEF TypedInv

LEMMA NextTyped == SessionInv /\ TypedInv /\ [Next]_vars => TypedInv'
  <1> SUFFICES ASSUME SessionInv, TypedInv, [Next]_vars PROVE TypedInv'
    OBVIOUS
  <1>1. ASSUME NEW p \in Pdus, CreateSMContext(p) PROVE TypedInv'
    BY <1>1, CreateTyped
  <1>2. ASSUME NEW p \in Pdus,
               \/ \E t \in Tunnels : UpdateTunnel(p, t)
               \/ ReleaseFlows(p)
               \/ ReleaseSMContext(p)
        PROVE  TypedInv'
    BY <1>2, RequestTyped
  <1>3. ASSUME NEW x \in n4, UpfHandle(x) PROVE TypedInv'
    BY <1>3, UpfTyped
  <1>4. ASSUME NEW x \in n4, N4Response(x) PROVE TypedInv'
    BY <1>4, ResponseTyped
  <1>5. CASE (\E x \in n4 : Lose(x)) \/ UNCHANGED vars
    BY <1>5, LossTyped
  <1>6. CASE RestartUpf
    BY <1>6, RestartUpfTyped
  <1>7. CASE RestartSmf
    BY <1>7, RestartSmfTyped
  <1> QED
    BY <1>1, <1>2, <1>3, <1>4, <1>5, <1>6, <1>7 DEF Next

LEMMA TypedEnough == SessionInv /\ TypedInv => TypeOK
  <1> SUFFICES ASSUME SessionInv, TypedInv PROVE TypeOK
    OBVIOUS
  <1>1. \A o \in DOMAIN objs :
           objs[o] \in [pdu : Pdus, addr : UeAddrs \cup {NoUe}, node : BOOLEAN,
                        up : UpSeids \cup {NoSeid}, flow : BOOLEAN,
                        dl : Tunnels \cup {NoFar}, released : BOOLEAN]
    BY DEF TypedInv, ObjectsTyped, Object
  <1>2. cur \in [Pdus -> DOMAIN objs \cup {NoObj}] /\ offered \subseteq Pdus
    BY DEF SessionInv, CurOK, TypedInv
  <1>3. \A x \in n4 :
           /\ x.op \in {"establish", "create", "update", "silence", "delete"}
           /\ x.phase \in {"request", "response"}
           /\ x.obj \in DOMAIN objs \cup {NoObj}
    BY DEF SessionInv, ExchangesOK, TypedInv, ExchangesTyped, IsExchange
  <1>4. \A s \in DOMAIN upf.sess :
           /\ upf.sess[s].ulFar \in {Forward, Drop}
           /\ upf.sess[s].dlFar \in Tunnels \cup {NoFar, Notify}
    BY DEF TypedInv, IsSwitch, IsSession
  <1>5. losses + restarts \in 0 .. MaxMishaps
    BY SessionsAssumption DEF TypedInv, Mishaps
  <1> QED
    BY <1>1, <1>2, <1>3, <1>4, <1>5 DEF TypeOK

(* Everything the SMF and the UPF keep has its type; no SEID is beyond     *)
(* those of the establishments sent (generate_seid).                       *)
THEOREM SessionsTyped == Spec => []TypeOK
  BY InitLeases, NextLeases, InitTyped, NextTyped, TypedEnough, PTL DEF Spec
------------------------------------------------------------------------------
(* While nobody has restarted: the sessions of the UPF are those of the    *)
(* objects, by their SEIDs on both sides.                                  *)
SessionOf ==
    /\ \A s \in DOMAIN upf.sess :
          /\ upf.sess[s].cp \in DOMAIN objs
          /\ objs[upf.sess[s].cp].node
          /\ upf.cp[upf.sess[s].cp] = s
    /\ \A o \in Objs : upf.cp[o] # NoSeid =>
          upf.cp[o] \in DOMAIN upf.sess /\ upf.sess[upf.cp[o]].cp = o

(* An UP SEID that an object or one of its exchanges knows leads to the    *)
(* session of the object or nowhere, also later.                           *)
Leads(s, o) ==
    /\ s <= upf.lastSeid
    /\ s \in DOMAIN upf.sess => upf.sess[s].cp = o

Led ==
    /\ \A o \in DOMAIN objs : Leads(objs[o].up, o)
    /\ \A x \in n4 : x.obj \in DOMAIN objs /\ Leads(x.seid, x.obj)

(* Until the establishment of an object has ended nobody knows its SEID,   *)
(* and no other request of it can have succeeded.                          *)
Idle(y) ==
    /\ y.op # "establish" /\ y.seid = NoSeid
    /\ y.phase = "request" \/ y.cause # Accepted

First ==
    \A x \in n4 : x.op = "establish" =>
        /\ x.cp = x.obj
        /\ objs[x.obj].up = NoSeid
        /\ x.phase = "request" => upf.cp[x.obj] = NoSeid
        /\ x.phase = "response" =>
              x.cause = Accepted /\ x.seid = upf.cp[x.obj] /\ x.seid # NoSeid
        /\ \A y \in n4 \ {x} : y.obj = x.obj => Idle(y)

(* A session that the UPF does not have and will not get any more.         *)
Gone(o) == upf.cp[o] = NoSeid /\ \A x \in n4 : Establishing(x) => x.obj # o

(* A downlink rule to be created is for the address of its object, unless  *)
(* the address was given back meanwhile.                                   *)
Addressed ==
    \A x \in n4 : x.op = "create" /\ x.phase = "request" =>
        \/ objs[x.obj].addr = x.ue
        \/ objs[x.obj].addr = NoUe /\ (x.ue \in early \/ Gone(x.obj))

(* The table of the addresses follows the sessions.                        *)
Routed ==
    /\ \A s \in DOMAIN upf.sess : upf.sess[s].ue \notin early \cup {NoUe} =>
          objs[upf.sess[s].cp].addr = upf.sess[s].ue
    /\ \A a \in UeAddrs \ early :
          /\ \A s \in DOMAIN upf.sess :
                upf.sess[s].ue = a => upf.dl[a] = <<Pdr(s, 0)>>
          /\ upf.dl[a] # <<>> => \E s \in DOMAIN upf.sess : upf.sess[s].ue = a

Base == SessionInv /\ TypedInv /\ OneOwner

Routes == SessionOf /\ Led /\ First /\ Addressed /\ Routed

LEMMA Seids ==
    ASSUME Base
    PROVE  /\ \A s \in DOMAIN upf.sess : s \in Nat /\ s # NoSeid /\ s <= upf.lastSeid
           /\ \A s \in DOMAIN upf.sess :
                 upf.sess[s].cp \in Objs /\ upf.sess[s].ue \in UeAddrs \cup {NoUe}
           /\ upf.lastSeid \in Nat /\ NoSeid \notin DOMAIN upf.sess
           /\ NoSeid <= upf.lastSeid
           /\ DOMAIN upf.cp = Objs /\ DOMAIN upf.dl = UeAddrs
           /\ DOMAIN objs \subseteq Objs
           /\ NoUe \notin UeAddrs
  <1>1. DOMAIN objs \subseteq Objs
    BY ObjectNumbers DEF Base, SessionInv
  <1> QED
    BY <1>1, SessionsAssumption DEF Base, TypedInv, IsSwitch, IsSession, NoSeid

LEMMA NoneLeads ==
    ASSUME Base, NEW o
    PROVE  Leads(NoSeid, o)
  BY Seids DEF Leads

(* Steps of the SMF that change no address and no UP SEID of an object.    *)
LEMMA CreateRoutes ==
    ASSUME Base, Routes, NEW p \in Pdus, CreateSMContext(p)
    PROVE  Routes'
  <1>1. PICK o : Made(p, o)
    BY CreateResult DEF Base
  <1>2. UNCHANGED <<upf, early>>
    BY CreateResult DEF Base
  <1>3. /\ o \in Objs /\ o \notin DOMAIN objs
        /\ DOMAIN objs' = DOMAIN objs \cup {o}
        /\ \A q \in DOMAIN objs : objs'[q] = objs[q]
    BY <1>1 DEF Made
  <1>4. objs'[o].up = NoSeid
    <2>1. \A a : /\ NewObject(p, a, FALSE).up = NoSeid
                 /\ NewObject(p, a, TRUE).up = NoSeid
      BY DEF NewObject
    <2> QED
      BY <1>1, <2>1 DEF Made
  <1>5. \A x \in n4 : x.obj \in DOMAIN objs /\ x.obj # o
    BY <1>3 DEF Routes, Led
  <1>6. upf.cp[o] = NoSeid
    BY <1>3 DEF Routes, SessionOf
  <1>7. SessionOf'
    BY <1>2, <1>3 DEF Routes, SessionOf
  <1>8. \A q : Leads(NoSeid, q)
    BY NoneLeads
  <1>9. Routed'
    BY <1>2, <1>3 DEF Routes, Routed, SessionOf
  <1>10. CASE UNCHANGED n4
    <2>1. Led'
      BY <1>2, <1>3, <1>4, <1>8, <1>10 DEF Routes, Led, Leads
    <2>2. First'
      BY <1>2, <1>3, <1>5, <1>10 DEF Routes, First, Idle
    <2>3. Addressed'
      BY <1>2, <1>3, <1>5, <1>10 DEF Routes, Addressed, Gone
    <2> QED
      BY <1>7, <1>9, <2>1, <2>2, <2>3 DEF Routes
  <1>11. ASSUME NEW x, n4' = n4 \cup {x},
                IsRequest(x, "establish", o, NoSeid, NoFar)
         PROVE  Routes'
    <2>1. /\ x.op = "establish" /\ x.obj = o /\ x.cp = o /\ x.seid = NoSeid
          /\ x.phase = "request"
      BY <1>11 DEF IsRequest
    <2>2. Led'
      BY <1>2, <1>3, <1>4, <1>8, <1>11, <2>1 DEF Routes, Led, Leads
    <2>3. First'
      <3> SUFFICES ASSUME NEW z \in n4', z.op = "establish"
                   PROVE  /\ z.cp = z.obj
                          /\ objs'[z.obj].up = NoSeid
                          /\ z.phase = "request" => upf'.cp[z.obj] = NoSeid
                          /\ z.phase = "response" =>
                                /\ z.cause = Accepted /\ z.seid = upf'.cp[z.obj]
                                /\ z.seid # NoSeid
                          /\ \A y \in n4' \ {z} : y.obj = z.obj => Idle(y)
        BY DEF First
      <3>1. CASE z = x
        BY <1>2, <1>4, <1>5, <1>6, <1>11, <2>1, <3>1
      <3>2. CASE z # x
        <4>1. z \in n4 /\ z.obj \in DOMAIN objs /\ z.obj # o
          BY <1>5, <1>11, <3>2
        <4> QED
          BY <1>2, <1>3, <1>11, <2>1, <4>1 DEF Routes, First
      <3> QED
        BY <3>1, <3>2
    <2>4. Addressed'
      <3> SUFFICES ASSUME NEW z \in n4', z.op = "create", z.phase = "request"
                   PROVE  \/ objs'[z.obj].addr = z.ue
                          \/ /\ objs'[z.obj].addr = NoUe
                             /\ z.ue \in early' \/ Gone(z.obj)'
        BY DEF Addressed
      <3>1. z \in n4 /\ z.obj \in DOMAIN objs /\ z.obj # o
        BY <1>5, <1>11, <2>1
      <3>2. Gone(z.obj) => Gone(z.obj)'
        BY <1>2, <1>11, <2>1, <3>1 DEF Gone
      <3> QED
        BY <1>2, <1>3, <3>1, <3>2 DEF Routes, Addressed
    <2> QED
      BY <1>7, <1>9, <2>2, <2>3, <2>4 DEF Routes
  <1> QED
    BY <1>1, <1>10, <1>11 DEF Made

LEMMA RequestRoutes ==
    ASSUME Base, Routes, NEW p \in Pdus,
           \/ \E t \in Tunnels : UpdateTunnel(p, t)
           \/ ReleaseFlows(p)
           \/ ReleaseSMContext(p)
    PROVE  Routes'
  <1>1. PICK q, b, x : /\ q \in DOMAIN objs /\ Becomes(q, b) /\ Asked(q, b, x)
                       /\ n4' = n4 \cup {x}
    BY RequestResult DEF Base
  <1>2. UNCHANGED <<upf, early>>
    BY RequestResult DEF Base
  <1>3. objs[q] \in Object
    BY <1>1 DEF Base, TypedInv, ObjectsTyped
  <1>4. b.addr = objs[q].addr /\ b.up = objs[q].up /\ b.node = objs[q].node
    BY <1>1, <1>3 DEF Asked, Object
  <1>5. /\ DOMAIN objs' = DOMAIN objs
        /\ \A o \in DOMAIN objs : /\ objs'[o].addr = objs[o].addr
                                  /\ objs'[o].up = objs[o].up
                                  /\ objs'[o].node = objs[o].node
    BY <1>1, <1>4 DEF Becomes
  <1>6. /\ x.op # "establish" /\ x.obj = q /\ x.seid = objs[q].up
        /\ x.phase = "request" /\ x.ue = objs'[q].addr
    BY <1>1 DEF Asked, IsRequest
  <1>7. SessionOf'
    BY <1>2, <1>5 DEF Routes, SessionOf
  <1>8. Led'
    BY <1>1, <1>2, <1>5, <1>6 DEF Routes, Led, Leads
  <1>9. First'
    <2> SUFFICES ASSUME NEW z \in n4', z.op = "establish"
                 PROVE  /\ z.cp = z.obj
                        /\ objs'[z.obj].up = NoSeid
                        /\ z.phase = "request" => upf'.cp[z.obj] = NoSeid
                        /\ z.phase = "response" =>
                              /\ z.cause = Accepted /\ z.seid = upf'.cp[z.obj]
                              /\ z.seid # NoSeid
                        /\ \A y \in n4' \ {z} : y.obj = z.obj => Idle(y)
      BY DEF First
    <2>1. z \in n4 /\ z.obj \in DOMAIN objs
      BY <1>1, <1>6 DEF Routes, Led
    <2>2. x.obj = z.obj => Idle(x)
      BY <1>6, <2>1 DEF Idle, Routes, First
    <2> QED
      BY <1>1, <1>2, <1>5, <2>1, <2>2 DEF Routes, First
  <1>10. Addressed'
    <2> SUFFICES ASSUME NEW z \in n4', z.op = "create", z.phase = "request"
                 PROVE  \/ objs'[z.obj].addr = z.ue
                        \/ /\ objs'[z.obj].addr = NoUe
                           /\ z.ue \in early' \/ Gone(z.obj)'
      BY DEF Addressed
    <2>1. CASE z = x
      BY <1>6, <2>1
    <2>2. CASE z # x
      <3>1. z \in n4 /\ z.obj \in DOMAIN objs
        BY <1>1, <2>2 DEF Routes, Led
      <3>2. Gone(z.obj) => Gone(z.obj)'
        BY <1>1, <1>2, <1>6 DEF Gone, Establishing
      <3> QED
        BY <1>2, <1>5, <3>1, <3>2 DEF Routes, Addressed
    <2> QED
      BY <2>1, <2>2
  <1>11. Routed'
    BY <1>2, <1>5 DEF Routes, Routed, SessionOf
  <1> QED
    BY <1>7, <1>8, <1>9, <1>10, <1>11 DEF Routes

(* The UPF executes a request.                                             *)
LEMMA UpfFrame ==
    ASSUME NEW x \in n4, UpfHandle(x)
    PROVE  UNCHANGED <<alloc, objs, cur, offered, losses, restarts, forsaken, raced, early>>
  BY DEF UpfHandle, smfVars, envVars, history

LEMMA OpenedRoutes ==
    ASSUME Base, Routes, NEW x \in n4, x.phase = "request", UNCHANGED <<objs, early>>,
           NEW y, n4' = (n4 \ {x}) \cup {y}, IsResponse(x, y), Opened(x, y)
    PROVE  Routes'
  <1>0. PICK c, new : c = x.obj /\ new = upf.lastSeid + 1
    OBVIOUS
  <1>1. /\ x.op = "establish" /\ x.cp = c /\ c \in DOMAIN objs
        /\ objs[c].up = NoSeid /\ upf.cp[c] = NoSeid /\ c \in Objs
        /\ \A z \in n4 \ {x} : z.obj = c => Idle(z)
    BY <1>0, Seids DEF Opened, Routes, First, Led
  <1>2. /\ y.cause = Accepted /\ y.cp = c /\ y.seid = new /\ y.obj = c
        /\ y.op = "establish" /\ y.phase = "response"
    BY <1>0, <1>1 DEF Opened, IsResponse
  <1>3. new \in Nat /\ new # NoSeid /\ ~(new <= upf.lastSeid) /\ upf.lastSeid <= new
    BY <1>0, Seids DEF NoSeid
  <1>4. /\ new \notin DOMAIN upf.sess /\ upf'.lastSeid = new
        /\ upf'.cp = [upf.cp EXCEPT ![c] = new]
        /\ DOMAIN upf'.sess = DOMAIN upf.sess \cup {new}
        /\ \A s \in DOMAIN upf.sess : upf'.sess[s] = upf.sess[s]
        /\ upf'.sess[new].cp = c /\ upf'.sess[new].ue = NoUe
        /\ upf'.dl = upf.dl
    BY <1>0, <1>1 DEF Opened
  <1>5. \A o \in Objs : upf'.cp[o] = IF o = c THEN new ELSE upf.cp[o]
    BY <1>4, Seids
  <1>6. SessionOf'
    <2>1. objs[c].node
      BY <1>0, <1>1, ObjectNumbers DEF Base, SessionInv, ExchangesOK
    <2>2. ASSUME NEW s \in DOMAIN upf'.sess
          PROVE  /\ upf'.sess[s].cp \in DOMAIN objs
                 /\ objs[upf'.sess[s].cp].node
                 /\ upf'.cp[upf'.sess[s].cp] = s
      <3>1. CASE s = new
        BY <1>1, <1>4, <1>5, <2>1, <3>1
      <3>2. CASE s # new
        <4>1. s \in DOMAIN upf.sess /\ upf'.sess[s] = upf.sess[s]
          BY <1>4, <2>2, <3>2
        <4>2. /\ upf.sess[s].cp \in DOMAIN objs /\ objs[upf.sess[s].cp].node
              /\ upf.cp[upf.sess[s].cp] = s /\ s # NoSeid /\ upf.sess[s].cp \in Objs
          BY <4>1, Seids DEF Routes, SessionOf
        <4> QED
          BY <1>1, <1>5, <4>1, <4>2
      <3> QED
        BY <3>1, <3>2
    <2>3. ASSUME NEW o \in Objs, upf'.cp[o] # NoSeid
          PROVE  upf'.cp[o] \in DOMAIN upf'.sess /\ upf'.sess[upf'.cp[o]].cp = o
      <3>1. CASE o = c
        BY <1>4, <1>5, <3>1
      <3>2. CASE o # c
        BY <1>4, <1>5, <2>3, <3>2 DEF Routes, SessionOf
      <3> QED
        BY <3>1, <3>2
    <2> QED
      BY <2>2, <2>3 DEF SessionOf
  <1>7. \A s, o : s \in Nat /\ Leads(s, o) => Leads(s, o)'
    BY <1>3, <1>4, Seids DEF Leads
  <1>8. Leads(new, c)'
    BY <1>3, <1>4 DEF Leads
  <1>9. Led'
    <2>1. \A o \in DOMAIN objs : objs[o].up \in Nat
      BY SessionsAssumption DEF Base, TypedInv, ObjectsTyped, Object, NoSeid
    <2>2. \A z \in n4 : z.seid \in Nat
      BY SessionsAssumption DEF Base, TypedInv, ExchangesTyped, IsExchange, NoSeid
    <2>3. \A o \in DOMAIN objs' : Leads(objs[o].up, o)'
      BY <1>7, <2>1 DEF Routes, Led
    <2>4. \A z \in n4' : z.obj \in DOMAIN objs /\ Leads(z.seid, z.obj)'
      BY <1>1, <1>2, <1>7, <1>8, <2>2 DEF Routes, Led
    <2> QED
      BY <2>3, <2>4 DEF Led
  <1>10. First'
    <2> SUFFICES ASSUME NEW z \in n4', z.op = "establish"
                 PROVE  /\ z.cp = z.obj
                        /\ objs[z.obj].up = NoSeid
                        /\ z.phase = "request" => upf'.cp[z.obj] = NoSeid
                        /\ z.phase = "response" =>
                              /\ z.cause = Accepted /\ z.seid = upf'.cp[z.obj]
                              /\ z.seid # NoSeid
                        /\ \A w \in n4' \ {z} : w.obj = z.obj => Idle(w)
      BY DEF First
    <2>1. CASE z = y
      BY <1>1, <1>2, <1>3, <1>5, <2>1
    <2>2. CASE z # y
      <3>1. z \in n4 /\ z # x
        BY <2>2
      <3>2. z.obj # c /\ z.obj \in Objs
        BY <1>1, <3>1, Seids DEF Idle, Routes, Led
      <3>3. upf'.cp[z.obj] = upf.cp[z.obj]
        BY <1>5, <3>2
      <3>4. \A w \in n4' \ {z} : w.obj = z.obj => w \in n4 \ {z}
        BY <1>2, <3>2
      <3> QED
        BY <3>1, <3>3, <3>4 DEF Routes, First
    <2> QED
      BY <2>1, <2>2
  <1>11. Addressed'
    <2> SUFFICES ASSUME NEW z \in n4', z.op = "create", z.phase = "request"
                 PROVE  \/ objs[z.obj].addr = z.ue
                        \/ /\ objs[z.obj].addr = NoUe
                           /\ z.ue \in early \/ Gone(z.obj)'
      BY DEF Addressed
    <2>1. z \in n4 /\ z.obj \in Objs
      BY <1>2, Seids DEF Routes, Led
    <2>2. Gone(z.obj) => Gone(z.obj)'
      <3>1. Gone(z.obj) => z.obj # c
        BY <1>0, <1>1 DEF Gone, Establishing
      <3> QED
        BY <1>2, <1>5, <2>1, <3>1 DEF Gone, Establishing
    <2> QED
      BY <2>1, <2>2 DEF Routes, Addressed
  <1>12. Routed'
    <2>1. \A s \in DOMAIN upf'.sess : upf'.sess[s].ue \notin early \cup {NoUe} =>
              objs[upf'.sess[s].cp].addr = upf'.sess[s].ue
      BY <1>4 DEF Routes, Routed
    <2>2. \A a \in UeAddrs \ early :
             /\ \A s \in DOMAIN upf'.sess :
                   upf'.sess[s].ue = a => upf'.dl[a] = <<Pdr(s, 0)>>
             /\ upf'.dl[a] # <<>> => \E s \in DOMAIN upf'.sess : upf'.sess[s].ue = a
      <3> TAKE a \in UeAddrs \ early
      <3>1. a # NoUe
        BY Seids
      <3>2. \A s \in DOMAIN upf'.sess : upf'.sess[s].ue = a =>
               s \in DOMAIN upf.sess /\ upf.sess[s].ue = a
        BY <1>4, <3>1
      <3> QED
        BY <1>4, <3>2 DEF Routes, Routed
    <2> QED
      BY <2>1, <2>2 DEF Routed
  <1> QED
    BY <1>6, <1>9, <1>10, <1>11, <1>12 DEF Routes

LEMMA RefusedRoutes ==
    ASSUME Base, Routes, NEW x \in n4, x.phase = "request", UNCHANGED <<objs, early>>,
           NEW y, n4' = (n4 \ {x}) \cup {y}, IsResponse(x, y), Refused(x, y)
    PROVE  Routes'
  <1>1. x.op # "establish" /\ upf' = upf
    BY DEF Refused, Routes, First
  <1>2. Idle(y) /\ y.phase = "response" /\ y.obj = x.obj /\ y.seid = NoSeid
    BY <1>1 DEF Refused, IsResponse, Idle
  <1>3. SessionOf' /\ Routed'
    BY <1>1 DEF Routes, SessionOf, Routed
  <1>4. Led'
    BY <1>1, <1>2, NoneLeads DEF Routes, Led, Leads
  <1>5. First'
    <2>1. \A z \in n4' : z.op = "establish" => z \in n4
      BY <1>2 DEF Idle
    <2> QED
      BY <1>1, <1>2, <2>1 DEF Routes, First
  <1>6. Addressed'
    <2> SUFFICES ASSUME NEW z \in n4', z.op = "create", z.phase = "request"
                 PROVE  \/ objs[z.obj].addr = z.ue
                        \/ /\ objs[z.obj].addr = NoUe
                           /\ z.ue \in early \/ Gone(z.obj)'
      BY DEF Addressed
    <2>1. z \in n4
      BY <1>2
    <2>2. Gone(z.obj) => Gone(z.obj)'
      BY <1>1, <1>2 DEF Gone, Establishing
    <2> QED
      BY <2>1, <2>2 DEF Routes, Addressed
  <1> QED
    BY <1>3, <1>4, <1>5, <1>6 DEF Routes

(* What goes for every request to a session that the UPF has.              *)
LEMMA KnownSession ==
    ASSUME Base, Routes, NEW x \in n4, x.op # "establish", x.seid \in DOMAIN upf.sess
    PROVE  /\ upf.sess[x.seid].cp = x.obj
           /\ x.obj \in DOMAIN objs /\ x.obj \in Objs
           /\ upf.cp[x.obj] = x.seid /\ x.seid # NoSeid
           /\ objs[x.obj].node
           /\ \A z \in n4 : z.op = "establish" => z.obj # x.obj
  <1>1. upf.sess[x.seid].cp = x.obj
    BY DEF Routes, Led, Leads
  <1>2. /\ x.obj \in DOMAIN objs /\ x.obj \in Objs
        /\ upf.cp[x.obj] = x.seid /\ x.seid # NoSeid
        /\ objs[x.obj].node
    BY <1>1, Seids DEF Routes, SessionOf
  <1>3. \A z \in n4 : z.op = "establish" => z.obj # x.obj
    <2> SUFFICES ASSUME NEW z \in n4, z.op = "establish", z.obj = x.obj PROVE FALSE
      OBVIOUS
    <2>1. x # z
      OBVIOUS
    <2>2. Idle(x)
      BY <2>1 DEF Routes, First
    <2> QED
      BY <1>2, <2>2 DEF Idle
  <1> QED
    BY <1>1, <1>2, <1>3

(* A response other than of an establishment, for an object of which none  *)
(* is on its way.                                                          *)
LEMMA AnsweredFirst ==
    ASSUME Routes, UNCHANGED objs, NEW x \in n4, NEW y, n4' = (n4 \ {x}) \cup {y},
           y.obj = x.obj, y.op # "establish",
           \A z \in n4 : z.op = "establish" => z.obj # x.obj,
           \A z \in n4 : z.op = "establish" => upf'.cp[z.obj] = upf.cp[z.obj]
    PROVE  First'
  <1> SUFFICES ASSUME NEW z \in n4', z.op = "establish"
               PROVE  /\ z.cp = z.obj
                      /\ objs[z.obj].up = NoSeid
                      /\ z.phase = "request" => upf'.cp[z.obj] = NoSeid
                      /\ z.phase = "response" =>
                            /\ z.cause = Accepted /\ z.seid = upf'.cp[z.obj]
                            /\ z.seid # NoSeid
                      /\ \A w \in n4' \ {z} : w.obj = z.obj => Idle(w)
    BY DEF First
  <1>1. z \in n4 /\ z.obj # y.obj
    OBVIOUS
  <1>2. \A w \in n4' \ {z} : w.obj = z.obj => w \in n4 \ {z}
    BY <1>1
  <1> QED
    BY <1>1, <1>2 DEF Routes, First

LEMMA AnsweredAddressed ==
    ASSUME Routes, UNCHANGED <<objs, early>>, NEW x \in n4, NEW y,
           n4' = (n4 \ {x}) \cup {y}, y.phase = "response",
           \A o \in Objs : upf.cp[o] = NoSeid => upf'.cp[o] = NoSeid,
           DOMAIN objs \subseteq Objs
    PROVE  Addressed'
  <1> SUFFICES ASSUME NEW z \in n4', z.op = "create", z.phase = "request"
               PROVE  \/ objs[z.obj].addr = z.ue
                      \/ /\ objs[z.obj].addr = NoUe
                         /\ z.ue \in early \/ Gone(z.obj)'
    BY DEF Addressed
  <1>1. z \in n4 /\ z.obj \in Objs
    BY DEF Routes, Led
  <1>2. Gone(z.obj) => Gone(z.obj)'
    BY <1>1 DEF Gone, Establishing
  <1> QED
    BY <1>1, <1>2 DEF Routes, Addressed

LEMMA OneRule ==
    ASSUME NEW seid
    PROVE  /\ WithPdr(<<>>, Pdr(seid, 0)) = <<Pdr(seid, 0)>>
           /\ WithPdr(<<Pdr(seid, 0)>>, Pdr(seid, 0)) = <<Pdr(seid, 0)>>
  <1>1. \A p : WithPdr(<<>>, p) = <<p>>
    BY DEF WithPdr
  <1>2. PICK p : p = Pdr(seid, 0)
    OBVIOUS
  <1>3. p.precedence = 0
    BY <1>2 DEF Pdr
  <1>4. PICK pdrs : pdrs = <<p>>
    OBVIOUS
  <1>5. DOMAIN pdrs = {1} /\ pdrs[1] = p /\ pdrs # <<>>
    BY <1>4
  <1>6. {i \in DOMAIN pdrs : pdrs[i].precedence < p.precedence} = {}
    BY <1>3, <1>5
  <1>7. WithPdr(pdrs, p) = pdrs
    BY <1>5, <1>6 DEF WithPdr
  <1> QED
    BY <1>1, <1>2, <1>4, <1>7

(* The rule of the address of a session is the only one.                   *)
LEMMA RuledRoutes ==
    ASSUME Base, Routes, NEW x \in n4, x.phase = "request", UNCHANGED <<objs, early>>,
           NEW y, n4' = (n4 \ {x}) \cup {y}, IsResponse(x, y), Ruled(x, y),
           x.op # "establish", x.seid \in DOMAIN upf.sess, y.seid = NoSeid
    PROVE  Routes'
  <1>1. PICK c, seid : c = x.obj /\ seid = x.seid
    OBVIOUS
  <1>2. /\ upf.sess[seid].cp = c /\ seid \in DOMAIN upf.sess
        /\ c \in DOMAIN objs /\ c \in Objs
        /\ upf.cp[c] = seid /\ seid # NoSeid /\ objs[c].node
        /\ \A z \in n4 : z.op = "establish" => z.obj # c
    BY <1>1, KnownSession
  <1>3. /\ upf'.cp = upf.cp /\ upf'.lastSeid = upf.lastSeid
        /\ DOMAIN upf'.sess = DOMAIN upf.sess
        /\ \A s \in DOMAIN upf.sess : /\ upf'.sess[s].cp = upf.sess[s].cp
                                      /\ s # seid => upf'.sess[s] = upf.sess[s]
    BY <1>1 DEF Ruled, OnlyRules
  <1>4. y.obj = c /\ y.op # "establish" /\ y.phase = "response" /\ y.seid = NoSeid
    BY <1>1 DEF IsResponse
  <1>5. SessionOf'
    BY <1>3 DEF Routes, SessionOf
  <1>6. Led'
    <2>1. \A s, o : Leads(s, o) => Leads(s, o)'
      BY <1>3 DEF Leads
    <2> QED
      BY <1>2, <1>4, <2>1, NoneLeads DEF Routes, Led
  <1>7. First'
    BY <1>1, <1>2, <1>3, <1>4, AnsweredFirst
  <1>8. Addressed'
    BY <1>3, <1>4, Seids, AnsweredAddressed
  <1>9. CASE upf'.dl = upf.dl /\ upf'.sess[seid].ue = upf.sess[seid].ue
    <2>1. \A s \in DOMAIN upf.sess : upf'.sess[s].ue = upf.sess[s].ue
      BY <1>3, <1>9
    <2>2. Routed'
      BY <1>3, <1>9, <2>1 DEF Routes, Routed
    <2> QED
      BY <1>5, <1>6, <1>7, <1>8, <2>2 DEF Routes
  <1>10. CASE /\ x.op = "create" /\ upf'.sess[seid].ue = x.ue
              /\ upf'.dl = [upf.dl EXCEPT ![x.ue] = WithPdr(upf.dl[x.ue], Pdr(seid, 0))]
    <2>1. PICK ue \in UeAddrs : ue = x.ue
      BY <1>10 DEF Base, TypedInv, ExchangesTyped, IsExchange
    <2>2. /\ upf'.sess[seid].ue = ue /\ ue # NoUe
          /\ \A a \in UeAddrs : upf'.dl[a] = IF a = ue THEN WithPdr(upf.dl[ue], Pdr(seid, 0))
                                             ELSE upf.dl[a]
      BY <1>10, <2>1, Seids
    <2>3. ~Gone(c)
      BY <1>2 DEF Gone
    <2>4. \/ objs[c].addr = ue
          \/ objs[c].addr = NoUe /\ ue \in early
      BY <1>1, <1>10, <2>1, <2>3 DEF Routes, Addressed
    <2>5. \A s \in DOMAIN upf.sess :
             /\ upf.sess[s].cp \in DOMAIN objs /\ objs[upf.sess[s].cp].node
             /\ upf.cp[upf.sess[s].cp] = s
      BY DEF Routes, SessionOf
    <2>6. ASSUME NEW s \in DOMAIN upf.sess, upf.sess[s].ue = ue, ue \notin early
          PROVE  s = seid
      <3>1. objs[upf.sess[s].cp].addr = ue /\ objs[c].addr = ue
        BY <2>2, <2>4, <2>6 DEF Routes, Routed
      <3>2. upf.sess[s].cp = c
        BY <1>2, <2>2, <2>5, <3>1 DEF Base, OneOwner
      <3> QED
        BY <1>2, <2>5, <3>2
    <2>7. \A s \in DOMAIN upf'.sess : upf'.sess[s].ue \notin early \cup {NoUe} =>
              objs[upf'.sess[s].cp].addr = upf'.sess[s].ue
      BY <1>2, <1>3, <2>2, <2>4 DEF Routes, Routed
    <2>8. ASSUME NEW a \in UeAddrs \ early
          PROVE  /\ \A s \in DOMAIN upf'.sess :
                       upf'.sess[s].ue = a => upf'.dl[a] = <<Pdr(s, 0)>>
                 /\ upf'.dl[a] # <<>> => \E s \in DOMAIN upf'.sess : upf'.sess[s].ue = a
      <3>1. /\ \A s \in DOMAIN upf.sess : upf.sess[s].ue = a => upf.dl[a] = <<Pdr(s, 0)>>
            /\ upf.dl[a] # <<>> => \E s \in DOMAIN upf.sess : upf.sess[s].ue = a
        BY DEF Routes, Routed
      <3>2. CASE a = ue
        <4>1. upf.dl[a] = <<>> \/ upf.dl[a] = <<Pdr(seid, 0)>>
          BY <2>6, <3>1, <3>2
        <4>2. upf'.dl[a] = <<Pdr(seid, 0)>>
          BY <2>2, <3>2, <4>1, OneRule
        <4>3. \A s \in DOMAIN upf'.sess : upf'.sess[s].ue = a => s = seid
          BY <1>3, <2>6, <3>2
        <4> QED
          BY <1>2, <1>3, <2>2, <3>2, <4>2, <4>3
      <3>3. CASE a # ue
        <4>1. upf'.dl[a] = upf.dl[a]
          BY <2>2, <3>3
        <4>2. upf.sess[seid].ue # a
          <5>1. a # NoUe
            BY Seids
          <5>2. upf.sess[seid].ue = a => objs[c].addr = a
            BY <1>2, <5>1 DEF Routes, Routed
          <5> QED
            BY <2>4, <3>3, <5>1, <5>2
        <4>3. \A s \in DOMAIN upf.sess : upf'.sess[s].ue = a <=> upf.sess[s].ue = a
          BY <1>2, <1>3, <2>2, <3>3, <4>2
        <4> QED
          BY <1>3, <3>1, <4>1, <4>3
      <3> QED
        BY <3>2, <3>3
    <2>9. Routed'
      BY <2>7, <2>8 DEF Routed
    <2> QED
      BY <1>5, <1>6, <1>7, <1>8, <2>9 DEF Routes
  <1> QED
    BY <1>1, <1>9, <1>10 DEF Ruled

LEMMA ClosedRoutes ==
    ASSUME Base, Routes, NEW x \in n4, x.phase = "request", UNCHANGED <<objs, early>>,
           NEW y, n4' = (n4 \ {x}) \cup {y}, IsResponse(x, y), Closed(x, y),
           x.seid \in DOMAIN upf.sess, y.seid = NoSeid
    PROVE  Routes'
  <1>1. PICK c, seid, ue : c = x.obj /\ seid = x.seid /\ ue = upf.sess[seid].ue
    OBVIOUS
  <1>2. /\ upf.sess[seid].cp = c /\ seid \in DOMAIN upf.sess
        /\ c \in DOMAIN objs /\ c \in Objs
        /\ upf.cp[c] = seid /\ seid # NoSeid /\ objs[c].node
        /\ \A z \in n4 : z.op = "establish" => z.obj # c
    BY <1>1, KnownSession DEF Closed
  <1>3. /\ upf'.lastSeid = upf.lastSeid
        /\ DOMAIN upf'.sess = DOMAIN upf.sess \ {seid}
        /\ \A s \in DOMAIN upf'.sess : upf'.sess[s] = upf.sess[s]
        /\ \A o \in Objs : upf'.cp[o] = IF o = c THEN NoSeid ELSE upf.cp[o]
        /\ upf'.dl = IF ue = NoUe THEN upf.dl ELSE [upf.dl EXCEPT ![ue] = <<>>]
    BY <1>1, <1>2, Seids DEF Closed
  <1>4. y.obj = c /\ y.op # "establish" /\ y.phase = "response" /\ y.seid = NoSeid
    BY <1>1 DEF IsResponse, Closed
  <1>5. SessionOf'
    <2>1. ASSUME NEW s \in DOMAIN upf'.sess
          PROVE  /\ upf'.sess[s].cp \in DOMAIN objs
                 /\ objs[upf'.sess[s].cp].node
                 /\ upf'.cp[upf'.sess[s].cp] = s
      <3>1. s \in DOMAIN upf.sess /\ s # seid /\ upf'.sess[s] = upf.sess[s]
        BY <1>3, <2>1
      <3>2. /\ upf.sess[s].cp \in DOMAIN objs /\ objs[upf.sess[s].cp].node
            /\ upf.cp[upf.sess[s].cp] = s /\ upf.sess[s].cp \in Objs
        BY <3>1, Seids DEF Routes, SessionOf
      <3> QED
        BY <1>2, <1>3, <3>1, <3>2
    <2>2. ASSUME NEW o \in Objs, upf'.cp[o] # NoSeid
          PROVE  upf'.cp[o] \in DOMAIN upf'.sess /\ upf'.sess[upf'.cp[o]].cp = o
      <3>1. o # c /\ upf'.cp[o] = upf.cp[o]
        BY <1>3, <2>2
      <3>2. upf.cp[o] \in DOMAIN upf.sess /\ upf.sess[upf.cp[o]].cp = o
        BY <2>2, <3>1 DEF Routes, SessionOf
      <3>3. upf.cp[o] # seid
        BY <1>2, <3>1, <3>2
      <3> QED
        BY <1>3, <3>1, <3>2, <3>3
    <2> QED
      BY <2>1, <2>2 DEF SessionOf
  <1>6. Led'
    <2>1. \A s, o : Leads(s, o) => Leads(s, o)'
      BY <1>3 DEF Leads
    <2> QED
      BY <1>2, <1>4, <2>1, NoneLeads DEF Routes, Led
  <1>7. First'
    <2>1. \A z \in n4 : z.op = "establish" => upf'.cp[z.obj] = upf.cp[z.obj]
      BY <1>2, <1>3, Seids DEF Routes, Led
    <2> QED
      BY <1>1, <1>2, <1>4, <2>1, AnsweredFirst
  <1>8. Addressed'
    <2>1. \A o \in Objs : upf.cp[o] = NoSeid => upf'.cp[o] = NoSeid
      BY <1>3
    <2> QED
      BY <1>4, <2>1, Seids, AnsweredAddressed
  <1>9. Routed'
    <2>1. \A s \in DOMAIN upf'.sess : upf'.sess[s].ue \notin early \cup {NoUe} =>
              objs[upf'.sess[s].cp].addr = upf'.sess[s].ue
      BY <1>3 DEF Routes, Routed
    <2>2. ASSUME NEW a \in UeAddrs \ early
          PROVE  /\ \A s \in DOMAIN upf'.sess :
                       upf'.sess[s].ue = a => upf'.dl[a] = <<Pdr(s, 0)>>
                 /\ upf'.dl[a] # <<>> => \E s \in DOMAIN upf'.sess : upf'.sess[s].ue = a
      <3>1. /\ \A s \in DOMAIN upf.sess : upf.sess[s].ue = a => upf.dl[a] = <<Pdr(s, 0)>>
            /\ upf.dl[a] # <<>> => \E s \in DOMAIN upf.sess : upf.sess[s].ue = a
        BY DEF Routes, Routed
      <3>2. CASE a = ue
        <4>1. upf'.dl[a] = <<>>
          BY <1>3, <3>2, Seids
        <4>2. ASSUME NEW s \in DOMAIN upf.sess, upf.sess[s].ue = a PROVE s = seid
          <5>1. <<Pdr(s, 0)>> = <<Pdr(seid, 0)>>
            BY <1>1, <1>2, <3>1, <3>2, <4>2
          <5>2. Pdr(s, 0).seid = s /\ Pdr(seid, 0).seid = seid
            BY DEF Pdr
          <5> QED
            BY <5>1, <5>2
        <4> QED
          BY <1>3, <4>1, <4>2
      <3>3. CASE a # ue
        <4>1. upf'.dl[a] = upf.dl[a]
          BY <1>3, <3>3, Seids
        <4>2. \A s \in DOMAIN upf.sess : upf.sess[s].ue = a => s \in DOMAIN upf'.sess
          BY <1>1, <1>3, <3>3
        <4> QED
          BY <1>3, <3>1, <4>1, <4>2
      <3> QED
        BY <3>2, <3>3
    <2> QED
      BY <2>1, <2>2 DEF Routed
  <1> QED
    BY <1>5, <1>6, <1>7, <1>8, <1>9 DEF Routes

LEMMA UpfRoutes ==
    ASSUME Base, Routes, NEW x \in n4, UpfHandle(x)
    PROVE  Routes'
  <1>1. IsSwitch(upf) /\ IsExchange(x) /\ UNCHANGED <<objs, early>>
    BY UpfFrame DEF Base, TypedInv, ExchangesTyped
  <1>2. x.phase = "request"
    BY <1>1, UpfResult
  <1>3. PICK y : n4' = (n4 \ {x}) \cup {y} /\ IsResponse(x, y) /\ Outcome(x, y)
    BY <1>1, UpfResult
  <1>4. CASE Opened(x, y)
    BY <1>1, <1>2, <1>3, <1>4, OpenedRoutes
  <1>5. CASE Refused(x, y)
    BY <1>1, <1>2, <1>3, <1>5, RefusedRoutes
  <1>6. CASE /\ x.op # "establish" /\ Live(upf, x.seid) /\ y.seid = NoSeid
             /\ Ruled(x, y)
    BY <1>1, <1>2, <1>3, <1>6, RuledRoutes DEF Live
  <1>7. CASE Live(upf, x.seid) /\ y.seid = NoSeid /\ Closed(x, y)
    BY <1>1, <1>2, <1>3, <1>7, ClosedRoutes DEF Live
  <1> QED
    BY <1>3, <1>4, <1>5, <1>6, <1>7 DEF Outcome

(* The responses, and exchanges that end without one.                      *)
LEMMA FewerExchanges ==
    ASSUME Routes, n4' \subseteq n4, UNCHANGED <<objs, upf, early>>
    PROVE  Routes'
  <1>1. SessionOf' /\ Routed' /\ Led'
    BY DEF Routes, SessionOf, Routed, Led, Leads
  <1>2. First'
    BY DEF Routes, First
  <1>3. Addressed'
    <2>1. \A o : Gone(o) => Gone(o)'
      BY DEF Gone
    <2> QED
      BY <2>1 DEF Routes, Addressed
  <1> QED
    BY <1>1, <1>2, <1>3 DEF Routes

LEMMA ObjectRoutes ==
    ASSUME Base, Routes, NEW x \in n4, NEW q \in DOMAIN objs, q = x.obj,
           NEW b, Becomes(q, b), UNCHANGED <<upf, early>>, n4' = n4 \ {x},
           b.addr = objs[q].addr, b.node = objs[q].node,
           b.up = objs[q].up \/ (b.up = x.seid /\ x.op = "establish")
    PROVE  Routes'
  <1>1. /\ DOMAIN objs' = DOMAIN objs
        /\ \A o \in DOMAIN objs : /\ objs'[o].addr = objs[o].addr
                                  /\ objs'[o].node = objs[o].node
                                  /\ o # q => objs'[o].up = objs[o].up
        /\ objs'[q].up = b.up
    BY DEF Becomes
  <1>2. SessionOf' /\ Routed'
    BY <1>1 DEF Routes, SessionOf, Routed
  <1>3. Led'
    <2>1. Leads(b.up, q)
      BY DEF Routes, Led
    <2> QED
      BY <1>1, <2>1 DEF Routes, Led, Leads
  <1>4. First'
    <2>1. ASSUME NEW z \in n4', z.op = "establish"
          PROVE  objs'[z.obj].up = NoSeid
      <3>1. z \in n4 /\ z # x /\ z.obj \in DOMAIN objs /\ objs[z.obj].up = NoSeid
        BY <2>1 DEF Routes, First, Led
      <3>2. x.op = "establish" => z.obj # q
        BY <2>1, <3>1 DEF Routes, First, Idle
      <3> QED
        BY <1>1, <3>1, <3>2
    <2> QED
      BY <2>1 DEF Routes, First
  <1>5. Addressed'
    <2>1. \A o : Gone(o) => Gone(o)'
      BY DEF Gone
    <2> QED
      BY <1>1, <2>1 DEF Routes, Addressed, Led
  <1> QED
    BY <1>2, <1>3, <1>4, <1>5 DEF Routes

(* A session that the UPF forgot first has nothing left that leads to its  *)
(* address; the address of another one counts as given back early.         *)
LEMMA DroppedRoutes ==
    ASSUME Base, Routes, NEW x \in n4, NEW q \in DOMAIN objs, q = x.obj,
           NEW b, Becomes(q, b), Dropped(q, b, x), UNCHANGED upf, n4' = n4 \ {x},
           x.phase = "response"
    PROVE  Routes'
  <1>1. b.addr = NoUe /\ b.up = NoSeid /\ b.node = objs[q].node
    BY DEF Dropped, NewObject
  <1>2. /\ DOMAIN objs' = DOMAIN objs
        /\ \A o \in DOMAIN objs : /\ objs'[o].node = objs[o].node
                                  /\ o # q => objs'[o] = objs[o]
        /\ objs'[q].addr = NoUe /\ objs'[q].up = NoSeid
    BY <1>1 DEF Becomes
  <1>3. \/ upf.cp[q] = NoSeid /\ early' = early
        \/ early' = early \cup {objs[q].addr}
    <2>1. q \in Objs
      BY Seids
    <2>2. upf.cp[q] # NoSeid => \E s \in DOMAIN upf.sess : upf.sess[s].cp = q
      BY <2>1 DEF Routes, SessionOf
    <2> QED
      BY <2>2 DEF Dropped
  <1>4. SessionOf'
    BY <1>2 DEF Routes, SessionOf
  <1>5. Led'
    <2>1. \A s, o : Leads(s, o) => Leads(s, o)'
      BY DEF Leads
    <2> QED
      BY <1>2, <2>1, NoneLeads DEF Routes, Led
  <1>6. First'
    BY <1>2 DEF Routes, First, Led
  <1>7. Addressed'
    <2>1. \A z \in n4 : Establishing(z) => z.obj # q
      <3>1. x.op # "establish" /\ ~Idle(x)
        BY DEF Dropped, Idle
      <3> QED
        BY <3>1 DEF Establishing, Routes, First
    <2>2. \A o : Gone(o) => Gone(o)'
      BY DEF Gone
    <2>3. upf.cp[q] = NoSeid => Gone(q)
      BY <2>1 DEF Gone
    <2> SUFFICES ASSUME NEW z \in n4', z.op = "create", z.phase = "request"
                 PROVE  \/ objs'[z.obj].addr = z.ue
                        \/ /\ objs'[z.obj].addr = NoUe
                           /\ z.ue \in early' \/ Gone(z.obj)'
      BY DEF Addressed
    <2>4. /\ z \in n4 /\ z.obj \in DOMAIN objs
          /\ \/ objs[z.obj].addr = z.ue
             \/ objs[z.obj].addr = NoUe /\ (z.ue \in early \/ Gone(z.obj))
      BY DEF Routes, Addressed, Led
    <2>5. CASE z.obj = q
      BY <1>2, <1>3, <2>2, <2>3, <2>4, <2>5
    <2>6. CASE z.obj # q
      BY <1>2, <1>3, <2>2, <2>4, <2>6
    <2> QED
      BY <2>5, <2>6
  <1>8. Routed'
    <2>1. early \subseteq early'
      BY <1>3
    <2>2. ASSUME NEW s \in DOMAIN upf'.sess, upf'.sess[s].ue \notin early' \cup {NoUe}
          PROVE  objs'[upf'.sess[s].cp].addr = upf'.sess[s].ue
      <3>1. /\ objs[upf.sess[s].cp].addr = upf.sess[s].ue
            /\ upf.sess[s].cp \in DOMAIN objs /\ upf.cp[upf.sess[s].cp] = s
            /\ s # NoSeid
        BY <2>1, <2>2, Seids DEF Routes, Routed, SessionOf
      <3>2. upf.sess[s].cp # q
        BY <1>3, <2>2, <3>1
      <3> QED
        BY <1>2, <3>1, <3>2
    <2>3. \A a \in UeAddrs \ early' :
             /\ \A s \in DOMAIN upf.sess :
                   upf.sess[s].ue = a => upf.dl[a] = <<Pdr(s, 0)>>
             /\ upf.dl[a] # <<>> => \E s \in DOMAIN upf.sess : upf.sess[s].ue = a
      BY <2>1 DEF Routes, Routed
    <2> QED
      BY <2>2, <2>3 DEF Routed
  <1> QED
    BY <1>4, <1>5, <1>6, <1>7, <1>8 DEF Routes

LEMMA ResponseRoutes ==
    ASSUME Base, Routes, NEW x \in n4, N4Response(x)
    PROVE  Routes'
  <1>1. n4' = n4 \ {x} /\ UNCHANGED upf /\ x.phase = "response"
    BY ResponseResult DEF Base
  <1>2. CASE UNCHANGED <<objs, forsaken, early>>
    BY <1>1, <1>2, FewerExchanges
  <1>3. ASSUME NEW q \in DOMAIN objs, q = x.obj, NEW b, Becomes(q, b),
               Stored(q, b, x) \/ Tunnelled(q, b, x)
        PROVE  Routes'
    <2>1. objs[q] \in Object
      BY DEF Base, TypedInv, ObjectsTyped
    <2>2. /\ b.addr = objs[q].addr /\ b.node = objs[q].node
          /\ b.up = objs[q].up \/ (b.up = x.seid /\ x.op = "establish")
          /\ UNCHANGED early
      <3>1. CASE Stored(q, b, x)
        BY <2>1, <3>1 DEF Stored, Object
      <3>2. CASE Tunnelled(q, b, x)
        <4>1. PICK r : b = [objs[q] EXCEPT !.dl = x.tunnel, !.released = r]
          BY <3>2 DEF Tunnelled
        <4>2. UNCHANGED early
          BY <3>2 DEF Tunnelled
        <4> QED
          BY <2>1, <4>1, <4>2 DEF Object
      <3> QED
        BY <1>3, <3>1, <3>2
    <2> QED
      BY <1>1, <1>3, <2>2, ObjectRoutes
  <1>4. ASSUME NEW q \in DOMAIN objs, q = x.obj, NEW b, Becomes(q, b),
               Dropped(q, b, x)
        PROVE  Routes'
    BY <1>1, <1>4, DroppedRoutes
  <1> QED
    BY <1>2, <1>3, <1>4, ResponseResult DEF Base

RouteInv == restarts = 0 => Routes

LEMMA InitRoutes == Init => RouteInv
  <1> SUFFICES ASSUME Init PROVE Routes
    BY DEF RouteInv
  <1>1. /\ DOMAIN objs = {} /\ n4 = {} /\ DOMAIN upf.sess = {}
        /\ upf.cp = [f \in Objs |-> NoSeid] /\ upf.dl = [a \in UeAddrs |-> <<>>]
    BY SessionsAssumption DEF Init, FreshSwitch
  <1>2. SessionOf /\ Led /\ First /\ Addressed /\ Routed
    BY <1>1 DEF SessionOf, Led, First, Addressed, Routed
  <1> QED
    BY <1>2 DEF Routes

(* Restarts are counted.                                                   *)
LEMMA RestartsCounted ==
    ASSUME restarts \in Nat, [Next]_vars, restarts' = 0
    PROVE  restarts = 0 /\ ~RestartUpf /\ ~RestartSmf
  <1>1. ~RestartUpf /\ ~RestartSmf
    BY DEF RestartUpf, RestartSmf
  <1>2. ASSUME NEW p \in Pdus, CreateSMContext(p) PROVE restarts' = restarts
    BY <1>2 DEF CreateSMContext, envVars
  <1>3. ASSUME NEW p \in Pdus,
               \/ \E t \in Tunnels : UpdateTunnel(p, t)
               \/ ReleaseFlows(p)
               \/ ReleaseSMContext(p)
        PROVE  restarts' = restarts
    BY <1>3 DEF UpdateTunnel, ReleaseFlows, ReleaseSMContext, envVars
  <1>4. ASSUME NEW x \in n4, UpfHandle(x) \/ N4Response(x) \/ Lose(x)
        PROVE  restarts' = restarts
    BY <1>4 DEF UpfHandle, N4Response, Lose, envVars
  <1>5. UNCHANGED vars => restarts' = restarts
    BY DEF vars, envVars
  <1> QED
    BY <1>1, <1>2, <1>3, <1>4, <1>5 DEF Next

LEMMA NextRoutes == Base /\ RouteInv /\ [Next]_vars => RouteInv'
  <1> SUFFICES ASSUME Base, RouteInv, [Next]_vars, restarts' = 0 PROVE Routes'
    BY DEF RouteInv
  <1>0. restarts = 0 /\ ~RestartUpf /\ ~RestartSmf
    BY RestartsCounted DEF Base, TypedInv, Mishaps
  <1>1. Routes
    BY <1>0 DEF RouteInv
  <1>2. ASSUME NEW p \in Pdus, CreateSMContext(p) PROVE Routes'
    BY <1>1, <1>2, CreateRoutes
  <1>3. ASSUME NEW p \in Pdus,
               \/ \E t \in Tunnels : UpdateTunnel(p, t)
               \/ ReleaseFlows(p)
               \/ ReleaseSMContext(p)
        PROVE  Routes'
    BY <1>1, <1>3, RequestRoutes
  <1>4. ASSUME NEW x \in n4, UpfHandle(x) PROVE Routes'
    BY <1>1, <1>4, UpfRoutes
  <1>5. ASSUME NEW x \in n4, N4Response(x) PROVE Routes'
    BY <1>1, <1>5, ResponseRoutes
  <1>6. CASE (\E x \in n4 : Lose(x)) \/ UNCHANGED vars
    <2>1. n4' \subseteq n4
      BY <1>6 DEF Lose, vars
    <2>2. UNCHANGED <<objs, upf, early>>
      BY <1>6 DEF Lose, vars, smfVars, history
    <2> QED
      BY <1>1, <2>1, <2>2, FewerExchanges
  <1> QED
    BY <1>0, <1>2, <1>3, <1>4, <1>5, <1>6 DEF Next

LEMMA RoutesLead == Base /\ RouteInv => RouteToHolder
  <1> SUFFICES ASSUME Base, Routes, NEW s \in DOMAIN upf.sess,
                      upf.sess[s].ue \notin early \cup {NoUe}
               PROVE  /\ DownlinkSession(upf, upf.sess[s].ue) = s
                      /\ objs[upf.sess[s].cp].addr = upf.sess[s].ue
    BY DEF RouteInv, RouteToHolder
  <1>1. PICK a \in UeAddrs \ early : a = upf.sess[s].ue
    BY Seids
  <1>2. upf.dl[a] = <<Pdr(s, 0)>>
    BY <1>1 DEF Routes, Routed
  <1>3. Pdr(s, 0).seid = s
    BY DEF Pdr
  <1>4. DownlinkSession(upf, a) = s
    BY <1>2, <1>3 DEF DownlinkSession
  <1> QED
    BY <1>1, <1>4 DEF Routes, Routed

(* Downlink packets go to the session that owns their destination as long  *)
(* as nobody gave the address back before the UPF forgot it, whatever      *)
(* exchanges overlap, overtake each other or get lost                      *)
(* (add_pfcp_dl_pdr_by_ue_ip, cleanup, release_paa).                       *)
THEOREM PacketsReachTheirHolder == Spec => []RouteToHolder
  <1>1. SessionInv /\ TypedInv /\ Owned => Base
    BY OwnersFollow DEF Base
  <1> QED
    BY <1>1, InitLeases, NextLeases, LeaseInitOwned, LeaseNextOwned, InitTyped, NextTyped,
       InitRoutes, NextRoutes, RoutesLead, PTL DEF Spec
------------------------------------------------------------------------------
(* What the SMF and the UPF know of each other while exchanges of an       *)
(* object are on their way.                                                *)

(* If only one of them has the session, the other one is about to hear of  *)
(* it.                                                                     *)
Attached(o) ==
    LET up == objs[o].up IN
    /\ upf.cp[o] = NoSeid /\ up # NoSeid =>
          \E x \in ExchangesOf(o) :
             x.op = "delete" /\ x.phase = "response" /\ x.cause = Accepted /\ x.cp = o
    /\ upf.cp[o] # NoSeid /\ up = NoSeid =>
          \E x \in ExchangesOf(o) : x.op = "establish" /\ x.phase = "response"
    /\ upf.cp[o] # NoSeid /\ up # NoSeid => up = upf.cp[o]

Alone(o) == \A x, y \in ExchangesOf(o) : x = y

(* Session z has the downlink of the flow of object b.                     *)
Forwards(z, b) ==
    z.dlFar = b.dl /\ (b.dl # NoFar => z.ue = b.addr /\ z.ue \in UeAddrs)

(* The only exchange x of the object b of session z does what b says.      *)
Serving(z, b, x) ==
    /\ x.phase = "request" => x.seid = b.up
    /\ x.op \in {"create", "update", "silence"} => x.tunnel = b.dl
    /\ x.op = "create" /\ x.phase = "request" => z.dlFar = NoFar /\ x.ue = b.addr
    /\ x.op = "update" /\ x.phase = "request" =>
          z.dlFar # NoFar /\ z.ue = b.addr /\ z.ue \in UeAddrs
    /\ x.op = "silence" /\ x.phase = "response" => x.cause = Accepted /\ x.cp = x.obj
    /\ x.op = "delete" => x.phase = "request"

(* An exchange that leaves the downlink as the object has it.              *)
Steady(x) ==
    /\ x.op \in {"create", "update"} => x.phase = "response"
    /\ x.op = "silence" => x.phase = "request"

InStep(o) ==
    LET b == objs[o]
        z == upf.sess[upf.cp[o]]
    IN
    /\ \A x \in ExchangesOf(o) : x.op = "establish" =>
          b.dl = NoFar /\ (upf.cp[o] # NoSeid => z.dlFar = NoFar)
    /\ upf.cp[o] # NoSeid /\ b.up = upf.cp[o] =>
          /\ \A x \in ExchangesOf(o) : Serving(z, b, x)
          /\ (\A x \in ExchangesOf(o) : Steady(x)) => Forwards(z, b)

Agrees(o) ==
    /\ o \notin forsaken => Attached(o)
    /\ o \notin raced => Alone(o)
    /\ o \notin forsaken \cup raced => InStep(o)

(* A step that is about another object.                                    *)
LEMMA OtherAgrees ==
    ASSUME NEW o \in DOMAIN objs, Agrees(o), objs'[o] = objs[o],
           ExchangesOf(o)' = ExchangesOf(o), upf'.cp[o] = upf.cp[o],
           upf.cp[o] # NoSeid => upf'.sess[upf.cp[o]] = upf.sess[upf.cp[o]],
           forsaken \subseteq forsaken', raced \subseteq raced'
    PROVE  Agrees(o)'
  <1>1. Attached(o) => Attached(o)'
    BY DEF Attached
  <1>2. Alone(o) => Alone(o)'
    BY DEF Alone
  <1>3. InStep(o) => InStep(o)'
    BY DEF InStep
  <1> QED
    BY <1>1, <1>2, <1>3 DEF Agrees

LEMMA CreateAgrees ==
    ASSUME Base, Routes, \A o \in DOMAIN objs : Agrees(o),
           NEW p \in Pdus, CreateSMContext(p)
    PROVE  \A o \in DOMAIN objs' : Agrees(o)'
  <1>1. PICK q : Made(p, q)
    BY CreateResult DEF Base
  <1>2. UNCHANGED <<upf, raced>> /\ forsaken \subseteq forsaken'
    BY <1>1, CreateResult DEF Base, Made
  <1>3. /\ q \in Objs /\ q \notin DOMAIN objs
        /\ DOMAIN objs' = DOMAIN objs \cup {q}
        /\ \A o \in DOMAIN objs : objs'[o] = objs[o]
    BY <1>1 DEF Made
  <1>4. objs'[q].up = NoSeid /\ objs'[q].dl = NoFar
    <2>1. \A a : /\ NewObject(p, a, FALSE).up = NoSeid /\ NewObject(p, a, FALSE).dl = NoFar
                 /\ NewObject(p, a, TRUE).up = NoSeid /\ NewObject(p, a, TRUE).dl = NoFar
      BY DEF NewObject
    <2> QED
      BY <1>1, <2>1 DEF Made
  <1>5. ExchangesOf(q) = {} /\ upf.cp[q] = NoSeid
    BY <1>3 DEF Routes, Led, SessionOf, ExchangesOf
  <1>6. \/ UNCHANGED n4
        \/ \E x : n4' = n4 \cup {x} /\ x.obj = q
    BY <1>1 DEF Made, IsRequest
  <1>7. \A o \in DOMAIN objs : ExchangesOf(o)' = ExchangesOf(o)
    BY <1>3, <1>6 DEF ExchangesOf
  <1>8. ASSUME NEW o \in DOMAIN objs PROVE Agrees(o)'
    BY <1>2, <1>3, <1>7, <1>8, OtherAgrees
  <1>9. Agrees(q)'
    <2>1. Attached(q)'
      BY <1>2, <1>4, <1>5 DEF Attached
    <2>2. Alone(q)'
      BY <1>5, <1>6 DEF Alone, ExchangesOf
    <2>3. InStep(q)'
      BY <1>2, <1>4, <1>5 DEF InStep
    <2> QED
      BY <2>1, <2>2, <2>3 DEF Agrees
  <1> QED
    BY <1>3, <1>8, <1>9

LEMMA RequestAgrees ==
    ASSUME Base, Routes, \A o \in DOMAIN objs : Agrees(o), NEW p \in Pdus,
           \/ \E t \in Tunnels : UpdateTunnel(p, t)
           \/ ReleaseFlows(p)
           \/ ReleaseSMContext(p)
    PROVE  \A o \in DOMAIN objs' : Agrees(o)'
  <1>1. PICK q, b, x :
           /\ q \in DOMAIN objs /\ Becomes(q, b) /\ Asked(q, b, x)
           /\ n4' = n4 \cup {x}
           /\ raced' = IF ExchangesOf(q) = {} THEN raced ELSE raced \cup {q}
    BY RequestResult DEF Base
  <1>2. UNCHANGED <<upf, forsaken>>
    BY RequestResult DEF Base
  <1>3. objs[q] \in Object
    BY <1>1 DEF Base, TypedInv, ObjectsTyped
  <1>4. /\ DOMAIN objs' = DOMAIN objs /\ objs'[q] = b
        /\ \A o \in DOMAIN objs : o # q => objs'[o] = objs[o]
    BY <1>1 DEF Becomes
  <1>5. x.obj = q /\ x.phase = "request" /\ x.seid = objs[q].up /\ x.ue = b.addr
    BY <1>1, <1>4 DEF Asked, IsRequest
  <1>6. ASSUME NEW o \in DOMAIN objs, o # q PROVE Agrees(o)'
    <2>1. ExchangesOf(o)' = ExchangesOf(o)
      BY <1>1, <1>5, <1>6 DEF ExchangesOf
    <2> QED
      BY <1>1, <1>2, <1>4, <1>6, <2>1, OtherAgrees
  <1>7. b.up = objs[q].up /\ b.addr = objs[q].addr
    BY <1>1, <1>3 DEF Asked, Object
  <1>8. ExchangesOf(q)' = ExchangesOf(q) \cup {x}
    BY <1>1, <1>5 DEF ExchangesOf
  <1>9. Attached(q) => Attached(q)'
    BY <1>2, <1>4, <1>7, <1>8 DEF Attached
  <1>10. q \notin raced' => q \notin raced /\ ExchangesOf(q)' = {x}
    BY <1>1, <1>8
  <1>11. q \notin raced' => Alone(q)'
    BY <1>10 DEF Alone
  <1>12. ASSUME q \notin forsaken \cup raced'
         PROVE  InStep(q)'
    <2>1. ExchangesOf(q)' = {x} /\ ExchangesOf(q) = {} /\ InStep(q)
      BY <1>1, <1>10, <1>12 DEF Agrees
    <2>2. PICK z : z = upf.sess[upf.cp[q]]
      OBVIOUS
    <2>3. upf.cp[q] # NoSeid /\ b.up = upf.cp[q] => Forwards(z, objs[q])
      BY <1>7, <2>1, <2>2 DEF InStep
    <2>4. /\ x.op # "establish"
          /\ Forwards(z, objs[q]) =>
                Serving(z, b, x) /\ (Steady(x) => Forwards(z, b))
      <3>1. CASE \E t \in Tunnels :
                    /\ b = [objs[q] EXCEPT !.dl = t]
                    /\ IsRequest(x, IF objs[q].dl = NoFar THEN "create" ELSE "update",
                                 q, objs[q].up, t)
        <4>1. PICK t \in Tunnels :
                    /\ b = [objs[q] EXCEPT !.dl = t]
                    /\ IsRequest(x, IF objs[q].dl = NoFar THEN "create" ELSE "update",
                                 q, objs[q].up, t)
          BY <3>1
        <4>2. /\ b.dl = t /\ x.tunnel = t
              /\ x.op = IF objs[q].dl = NoFar THEN "create" ELSE "update"
          BY <1>3, <4>1 DEF Object, IsRequest
        <4> QED
          BY <1>5, <1>7, <4>2 DEF Forwards, Serving, Steady
      <3>2. CASE /\ b = [objs[q] EXCEPT !.released = TRUE]
                 /\ IsRequest(x, "silence", q, objs[q].up, objs[q].dl)
        <4>1. b.dl = objs[q].dl /\ x.tunnel = b.dl /\ x.op = "silence"
          BY <1>3, <3>2 DEF Object, IsRequest
        <4> QED
          BY <1>5, <1>7, <4>1 DEF Forwards, Serving, Steady
      <3>3. CASE b = objs[q] /\ IsRequest(x, "delete", q, objs[q].up, NoFar)
        <4>1. x.op = "delete"
          BY <3>3 DEF IsRequest
        <4> QED
          BY <1>5, <1>7, <3>3, <4>1 DEF Forwards, Serving, Steady
      <3> QED
        BY <1>1, <3>1, <3>2, <3>3 DEF Asked
    <2> QED
      BY <1>2, <1>4, <2>1, <2>2, <2>3, <2>4 DEF InStep
  <1>13. Agrees(q)'
    BY <1>1, <1>2, <1>9, <1>11, <1>12 DEF Agrees
  <1> QED
    BY <1>4, <1>6, <1>13

(* The UPF executes a request x of c, whose response is y.                 *)
LEMMA OthersAgree ==
    ASSUME Base, Routes, \A o \in DOMAIN objs : Agrees(o), NEW x \in n4, NEW y,
           NEW c, x.obj = c, y.obj = c, n4' = (n4 \ {x}) \cup {y},
           UNCHANGED <<objs, forsaken, raced>>,
           \A o \in Objs : o # c => upf'.cp[o] = upf.cp[o],
           \A s \in DOMAIN upf.sess : upf.sess[s].cp # c => upf'.sess[s] = upf.sess[s]
    PROVE  \A o \in DOMAIN objs : o # c => Agrees(o)'
  <1> SUFFICES ASSUME NEW o \in DOMAIN objs, o # c PROVE Agrees(o)'
    OBVIOUS
  <1>1. o \in Objs /\ Agrees(o) /\ objs'[o] = objs[o]
    BY Seids
  <1>2. ExchangesOf(o)' = ExchangesOf(o)
    BY DEF ExchangesOf
  <1>3. upf.cp[o] # NoSeid => upf'.sess[upf.cp[o]] = upf.sess[upf.cp[o]]
    BY <1>1 DEF Routes, SessionOf
  <1> QED
    BY <1>1, <1>2, <1>3, OtherAgrees

LEMMA AnsweredExchanges ==
    ASSUME NEW x \in n4, NEW y, NEW c, x.obj = c, y.obj = c, n4' = (n4 \ {x}) \cup {y},
           x.phase = "request", IsResponse(x, y)
    PROVE  /\ x \in ExchangesOf(c) /\ y \in ExchangesOf(c)'
           /\ ExchangesOf(c)' = (ExchangesOf(c) \ {x}) \cup {y}
           /\ Alone(c) => ExchangesOf(c) = {x} /\ ExchangesOf(c)' = {y} /\ Alone(c)'
           /\ Attached(c) /\ objs'[c].up = objs[c].up /\ upf'.cp[c] = upf.cp[c]
                => Attached(c)'
  <1>1. /\ x \in ExchangesOf(c) /\ y \in ExchangesOf(c)'
        /\ ExchangesOf(c)' = (ExchangesOf(c) \ {x}) \cup {y}
    BY DEF ExchangesOf
  <1>2. Alone(c) => ExchangesOf(c) = {x} /\ ExchangesOf(c)' = {y}
    BY <1>1 DEF Alone
  <1>3. Alone(c) => Alone(c)'
    BY <1>2 DEF Alone
  <1>4. \A w \in ExchangesOf(c) : w.phase = "response" => w \in ExchangesOf(c)'
    BY <1>1
  <1>5. Attached(c) /\ objs'[c].up = objs[c].up /\ upf'.cp[c] = upf.cp[c]
           => Attached(c)'
    <2> SUFFICES ASSUME Attached(c), objs'[c].up = objs[c].up, upf'.cp[c] = upf.cp[c]
                 PROVE  Attached(c)'
      OBVIOUS
    <2>1. upf.cp[c] = NoSeid /\ objs[c].up # NoSeid =>
             \E w \in ExchangesOf(c)' :
                w.op = "delete" /\ w.phase = "response" /\ w.cause = Accepted /\ w.cp = c
      BY <1>4 DEF Attached
    <2>2. upf.cp[c] # NoSeid /\ objs[c].up = NoSeid =>
             \E w \in ExchangesOf(c)' : w.op = "establish" /\ w.phase = "response"
      BY <1>4 DEF Attached
    <2> QED
      BY <2>1, <2>2 DEF Attached
  <1> QED
    BY <1>1, <1>2, <1>3, <1>5

LEMMA OpenedAgrees ==
    ASSUME Base, Routes, \A o \in DOMAIN objs : Agrees(o),
           NEW x \in n4, x.phase = "request", UNCHANGED <<objs, forsaken, raced>>,
           NEW y, n4' = (n4 \ {x}) \cup {y}, IsResponse(x, y), Opened(x, y)
    PROVE  \A o \in DOMAIN objs' : Agrees(o)'
  <1>0. PICK c, new : c = x.obj /\ new = upf.lastSeid + 1
    OBVIOUS
  <1>1. /\ x.op = "establish" /\ x.cp = c /\ c \in DOMAIN objs
        /\ objs[c].up = NoSeid /\ c \in Objs
    BY <1>0, Seids DEF Opened, Routes, First, Led
  <1>2. /\ y.op = "establish" /\ y.phase = "response" /\ y.obj = c
        /\ new # NoSeid
    BY <1>0, <1>1, Seids DEF IsResponse, NoSeid
  <1>3. /\ \A o \in Objs : upf'.cp[o] = IF o = c THEN new ELSE upf.cp[o]
        /\ \A s \in DOMAIN upf.sess : upf'.sess[s] = upf.sess[s]
        /\ upf'.sess[new].dlFar = NoFar
    BY <1>0, <1>1, Seids DEF Opened
  <1>4. \A o \in DOMAIN objs : o # c => Agrees(o)'
    BY <1>0, <1>2, <1>3, OthersAgree
  <1>5. /\ x \in ExchangesOf(c) /\ y \in ExchangesOf(c)'
        /\ Alone(c) => Alone(c)'
    BY <1>0, <1>2, AnsweredExchanges
  <1>6. Attached(c)'
    BY <1>1, <1>2, <1>3, <1>5 DEF Attached
  <1>7. ASSUME c \notin forsaken \cup raced PROVE InStep(c)'
    <2>1. objs[c].dl = NoFar
      BY <1>1, <1>5, <1>7 DEF Agrees, InStep
    <2> QED
      BY <1>1, <1>2, <1>3, <2>1 DEF InStep
  <1>8. Agrees(c)'
    BY <1>1, <1>5, <1>6, <1>7 DEF Agrees
  <1> QED
    BY <1>4, <1>8

(* What the session of an object still says is not refused.                *)
LEMMA RefusedAgrees ==
    ASSUME Base, Routes, \A o \in DOMAIN objs : Agrees(o),
           NEW x \in n4, x.phase = "request", UNCHANGED <<objs, forsaken, raced>>,
           NEW y, n4' = (n4 \ {x}) \cup {y}, IsResponse(x, y), Refused(x, y)
    PROVE  \A o \in DOMAIN objs' : Agrees(o)'
  <1>0. PICK c : c = x.obj
    OBVIOUS
  <1>1. c \in DOMAIN objs /\ c \in Objs
    BY <1>0, Seids DEF Routes, Led
  <1>2. y.obj = c /\ y.op = x.op /\ upf' = upf
    BY <1>0 DEF IsResponse, Refused
  <1>3. x.op # "establish" /\ ~Live(upf, x.seid)
    BY DEF Refused, Routes, First
  <1>4. \A o \in DOMAIN objs : o # c => Agrees(o)'
    BY <1>0, <1>2, OthersAgree
  <1>5. /\ x \in ExchangesOf(c)
        /\ ExchangesOf(c)' = (ExchangesOf(c) \ {x}) \cup {y}
        /\ Alone(c) => Alone(c)'
        /\ Attached(c) => Attached(c)'
    BY <1>0, <1>2, AnsweredExchanges
  <1>6. ASSUME c \notin forsaken \cup raced PROVE InStep(c)'
    <2>1. InStep(c)
      BY <1>1, <1>6 DEF Agrees
    <2>2. \A w \in ExchangesOf(c)' : w.op = "establish" => w \in ExchangesOf(c)
      BY <1>2, <1>3, <1>5
    <2>3. ~(upf.cp[c] # NoSeid /\ objs[c].up = upf.cp[c])
      <3>1. upf.cp[c] # NoSeid => Live(upf, upf.cp[c])
        BY <1>1 DEF Live, Routes, SessionOf
      <3>2. upf.cp[c] # NoSeid /\ objs[c].up = upf.cp[c] => x.seid = objs[c].up
        BY <1>5, <2>1 DEF InStep, Serving
      <3> QED
        BY <1>3, <3>1, <3>2
    <2> QED
      BY <1>2, <2>1, <2>2, <2>3 DEF InStep
  <1>7. Agrees(c)'
    BY <1>1, <1>5, <1>6 DEF Agrees
  <1> QED
    BY <1>4, <1>7

LEMMA RuledServes ==
    ASSUME NEW x, NEW y, NEW z, NEW new, NEW b, IsExchange(x), IsResponse(x, y),
           x.phase = "request", z = upf.sess[x.seid], new = upf'.sess[x.seid],
           Ruled(x, y), y.cp = y.obj, Serving(z, b, x), Steady(x) => Forwards(z, b)
    PROVE  Serving(new, b, y) /\ (Steady(y) => Forwards(new, b))
  <1>1. y.op = x.op /\ y.tunnel = x.tunnel /\ y.phase = "response"
    BY DEF IsResponse
  <1>2. CASE x.op = "create"
    <2>1. new.dlFar = x.tunnel /\ new.ue = x.ue
      BY <1>2 DEF Ruled
    <2>2. x.tunnel = b.dl /\ x.ue = b.addr /\ x.ue \in UeAddrs
      BY <1>2 DEF Serving, IsExchange
    <2> QED
      BY <1>1, <1>2, <2>1, <2>2 DEF Serving, Forwards
  <1>3. CASE x.op = "update"
    <2>1. x.tunnel = b.dl /\ z.dlFar # NoFar /\ z.ue = b.addr /\ z.ue \in UeAddrs
      BY <1>3 DEF Serving
    <2>2. new.dlFar = x.tunnel /\ new.ue = z.ue
      BY <1>3, <2>1 DEF Ruled
    <2> QED
      BY <1>1, <1>3, <2>1, <2>2 DEF Serving, Forwards
  <1>4. CASE x.op = "silence"
    <2>1. x.tunnel = b.dl /\ Forwards(z, b)
      BY <1>4 DEF Serving, Steady
    <2>2. y.cause = Accepted
      BY <1>4, <2>1 DEF Ruled, Forwards
    <2> QED
      BY <1>1, <1>4, <2>1, <2>2 DEF Serving, Steady
  <1> QED
    BY <1>2, <1>3, <1>4 DEF Ruled

LEMMA RuledAgrees ==
    ASSUME Base, Routes, \A o \in DOMAIN objs : Agrees(o),
           NEW x \in n4, x.phase = "request", UNCHANGED <<objs, forsaken, raced>>,
           NEW y, n4' = (n4 \ {x}) \cup {y}, IsResponse(x, y), Ruled(x, y),
           x.op # "establish", x.seid \in DOMAIN upf.sess, y.cp = upf.sess[x.seid].cp
    PROVE  \A o \in DOMAIN objs' : Agrees(o)'
  <1>0. PICK c, seid : c = x.obj /\ seid = x.seid
    OBVIOUS
  <1>1. /\ upf.sess[seid].cp = c /\ c \in DOMAIN objs /\ c \in Objs
        /\ upf.cp[c] = seid /\ IsExchange(x)
    BY <1>0, KnownSession DEF Base, TypedInv, ExchangesTyped
  <1>2. y.obj = c /\ y.op = x.op /\ y.cp = c
    BY <1>0, <1>1 DEF IsResponse
  <1>3. /\ upf'.cp = upf.cp
        /\ \A s \in DOMAIN upf.sess : s # seid => upf'.sess[s] = upf.sess[s]
    BY <1>0 DEF Ruled, OnlyRules
  <1>4. \A o \in DOMAIN objs : o # c => Agrees(o)'
    BY <1>0, <1>1, <1>2, <1>3, OthersAgree
  <1>5. /\ Alone(c) => /\ ExchangesOf(c) = {x} /\ ExchangesOf(c)' = {y}
                       /\ Alone(c)'
        /\ Attached(c) => Attached(c)'
    BY <1>0, <1>2, <1>3, AnsweredExchanges
  <1>6. ASSUME c \notin forsaken \cup raced PROVE InStep(c)'
    <2>1. InStep(c) /\ ExchangesOf(c) = {x} /\ ExchangesOf(c)' = {y}
      BY <1>1, <1>5, <1>6 DEF Agrees
    <2>2. PICK z, new, b : /\ z = upf.sess[x.seid] /\ new = upf'.sess[x.seid]
                           /\ b = objs[c]
      OBVIOUS
    <2>3. upf.cp[c] # NoSeid /\ b.up = upf.cp[c] =>
             Serving(z, b, x) /\ (Steady(x) => Forwards(z, b))
      BY <1>0, <1>1, <2>1, <2>2 DEF InStep
    <2>4. upf.cp[c] # NoSeid /\ b.up = upf.cp[c] =>
             Serving(new, b, y) /\ (Steady(y) => Forwards(new, b))
      BY <1>1, <1>2, <2>2, <2>3, RuledServes
    <2> QED
      BY <1>0, <1>1, <1>2, <1>3, <2>1, <2>2, <2>4 DEF InStep
  <1>7. Agrees(c)'
    BY <1>1, <1>5, <1>6 DEF Agrees
  <1> QED
    BY <1>4, <1>7

LEMMA ClosedAgrees ==
    ASSUME Base, Routes, \A o \in DOMAIN objs : Agrees(o),
           NEW x \in n4, x.phase = "request", UNCHANGED <<objs, forsaken, raced>>,
           NEW y, n4' = (n4 \ {x}) \cup {y}, IsResponse(x, y), Closed(x, y),
           x.seid \in DOMAIN upf.sess, y.cp = upf.sess[x.seid].cp
    PROVE  \A o \in DOMAIN objs' : Agrees(o)'
  <1>0. PICK c, seid : c = x.obj /\ seid = x.seid
    OBVIOUS
  <1>1. /\ upf.sess[seid].cp = c /\ c \in DOMAIN objs /\ c \in Objs
        /\ upf.cp[c] = seid
        /\ \A z \in n4 : z.op = "establish" => z.obj # c
    BY <1>0, KnownSession DEF Closed
  <1>2. /\ y.obj = c /\ y.op = "delete" /\ y.cp = c /\ y.cause = Accepted
        /\ y.phase = "response"
    BY <1>0, <1>1 DEF IsResponse, Closed
  <1>3. /\ \A o \in Objs : upf'.cp[o] = IF o = c THEN NoSeid ELSE upf.cp[o]
        /\ \A s \in DOMAIN upf.sess : s # seid => upf'.sess[s] = upf.sess[s]
    BY <1>0, <1>1, Seids DEF Closed
  <1>4. \A o \in DOMAIN objs : o # c => Agrees(o)'
    BY <1>0, <1>1, <1>2, <1>3, OthersAgree
  <1>5. /\ y \in ExchangesOf(c)'
        /\ Alone(c) => Alone(c)'
    BY <1>0, <1>2, AnsweredExchanges
  <1>6. Attached(c)'
    BY <1>1, <1>2, <1>3, <1>5 DEF Attached
  <1>7. InStep(c)'
    <2>1. \A w \in ExchangesOf(c)' : w.op # "establish"
      BY <1>1, <1>2 DEF ExchangesOf
    <2> QED
      BY <1>1, <1>3, <2>1 DEF InStep
  <1>8. Agrees(c)'
    BY <1>5, <1>6, <1>7, <1>1 DEF Agrees
  <1> QED
    BY <1>4, <1>8

LEMMA UpfAgrees ==
    ASSUME Base, Routes, \A o \in DOMAIN objs : Agrees(o), NEW x \in n4, UpfHandle(x)
    PROVE  \A o \in DOMAIN objs' : Agrees(o)'
  <1>1. IsSwitch(upf) /\ IsExchange(x) /\ UNCHANGED <<objs, forsaken, raced>>
    BY UpfFrame DEF Base, TypedInv, ExchangesTyped
  <1>2. x.phase = "request"
    BY <1>1, UpfResult
  <1>3. PICK y : n4' = (n4 \ {x}) \cup {y} /\ IsResponse(x, y) /\ Outcome(x, y)
    BY <1>1, UpfResult
  <1>4. CASE Opened(x, y)
    BY <1>1, <1>2, <1>3, <1>4, OpenedAgrees
  <1>5. CASE Refused(x, y)
    BY <1>1, <1>2, <1>3, <1>5, RefusedAgrees
  <1>6. CASE /\ x.op # "establish" /\ Live(upf, x.seid)
             /\ y.cp = upf.sess[x.seid].cp /\ Ruled(x, y)
    BY <1>1, <1>2, <1>3, <1>6, RuledAgrees DEF Live
  <1>7. CASE Live(upf, x.seid) /\ y.cp = upf.sess[x.seid].cp /\ Closed(x, y)
    BY <1>1, <1>2, <1>3, <1>7, ClosedAgrees DEF Live
  <1> QED
    BY <1>3, <1>4, <1>5, <1>6, <1>7 DEF Outcome

(* The exchange x of q ends.                                               *)
LEMMA EndedAgrees ==
    ASSUME Base, Routes, \A o \in DOMAIN objs : Agrees(o),
           NEW x \in n4, NEW q, q = x.obj, n4' = n4 \ {x}, UNCHANGED <<upf, raced>>,
           \A o \in DOMAIN objs : o # q => objs'[o] = objs[o], forsaken \subseteq forsaken'
    PROVE  /\ q \in DOMAIN objs /\ q \in Objs /\ x \in ExchangesOf(q)
           /\ \A o \in DOMAIN objs : o # q => Agrees(o)'
           /\ ExchangesOf(q)' = ExchangesOf(q) \ {x}
           /\ q \notin raced =>
                 Alone(q)' /\ ExchangesOf(q) = {x} /\ ExchangesOf(q)' = {}
  <1>1. q \in DOMAIN objs /\ q \in Objs /\ x \in ExchangesOf(q)
    BY Seids DEF Routes, Led, ExchangesOf
  <1>2. ExchangesOf(q)' = ExchangesOf(q) \ {x}
    BY DEF ExchangesOf
  <1>3. ASSUME NEW o \in DOMAIN objs, o # q PROVE Agrees(o)'
    <2>1. ExchangesOf(o)' = ExchangesOf(o)
      BY <1>3 DEF ExchangesOf
    <2> QED
      BY <1>3, <2>1, OtherAgrees
  <1>4. ASSUME q \notin raced PROVE ExchangesOf(q) = {x} /\ ExchangesOf(q)' = {}
    <2>1. Alone(q)
      BY <1>1, <1>4 DEF Agrees
    <2> QED
      BY <1>1, <1>2, <2>1 DEF Alone
  <1>5. q \notin raced => Alone(q)'
    BY <1>4 DEF Alone
  <1> QED
    BY <1>1, <1>2, <1>3, <1>4, <1>5

(* A response with the SEID of its own object finds its procedure.         *)
LEMMA FindsProcedure ==
    ASSUME Base, NEW x \in n4, x.obj \in DOMAIN objs, x.cp = x.obj
    PROVE  Expected(x)
  <1>1. x.obj # NoObj
    BY ObjectNumbers DEF Base, SessionInv, NoObj
  <1> QED
    BY <1>1 DEF Expected

LEMMA StoredAgrees ==
    ASSUME Base, Routes, \A o \in DOMAIN objs : Agrees(o),
           NEW x \in n4, x.phase = "response", NEW q \in DOMAIN objs, q = x.obj,
           NEW b, Becomes(q, b), Stored(q, b, x), n4' = n4 \ {x}, UNCHANGED <<upf, raced>>
    PROVE  \A o \in DOMAIN objs' : Agrees(o)'
  <1>1. /\ DOMAIN objs' = DOMAIN objs /\ objs'[q] = b
        /\ \A o \in DOMAIN objs : o # q => objs'[o] = objs[o]
        /\ UNCHANGED forsaken
    BY DEF Becomes, Stored
  <1>2. /\ x \in ExchangesOf(q) /\ q \in Objs
        /\ \A o \in DOMAIN objs : o # q => Agrees(o)'
        /\ q \notin raced => Alone(q)' /\ ExchangesOf(q) = {x} /\ ExchangesOf(q)' = {}
    BY <1>1, EndedAgrees
  <1>3. objs[q] \in Object
    BY DEF Base, TypedInv, ObjectsTyped
  <1>4. b.up = x.seid /\ b.dl = objs[q].dl /\ x.op = "establish"
    BY <1>3 DEF Stored, Object
  <1>5. x.seid = upf.cp[q] /\ x.seid # NoSeid
    BY <1>4 DEF Routes, First
  <1>6. Attached(q)'
    BY <1>1, <1>4, <1>5 DEF Attached
  <1>7. ASSUME q \notin forsaken \cup raced PROVE InStep(q)'
    <2>1. InStep(q)
      BY <1>7 DEF Agrees
    <2>2. objs[q].dl = NoFar /\ upf.sess[upf.cp[q]].dlFar = NoFar
      BY <1>2, <1>4, <1>5, <2>1 DEF InStep
    <2>3. Forwards(upf.sess[upf.cp[q]], b)
      BY <1>4, <2>2 DEF Forwards
    <2>4. ExchangesOf(q)' = {}
      BY <1>2, <1>7
    <2> QED
      BY <1>1, <2>3, <2>4 DEF InStep
  <1>8. Agrees(q)'
    BY <1>1, <1>2, <1>6, <1>7 DEF Agrees
  <1> QED
    BY <1>1, <1>2, <1>8

LEMMA TunnelledAgrees ==
    ASSUME Base, Routes, \A o \in DOMAIN objs : Agrees(o),
           NEW x \in n4, x.phase = "response", NEW q \in DOMAIN objs, q = x.obj,
           NEW b, Becomes(q, b), Tunnelled(q, b, x), n4' = n4 \ {x}, UNCHANGED <<upf, raced>>
    PROVE  \A o \in DOMAIN objs' : Agrees(o)'
  <1>1. /\ DOMAIN objs' = DOMAIN objs /\ objs'[q] = b
        /\ \A o \in DOMAIN objs : o # q => objs'[o] = objs[o]
        /\ UNCHANGED forsaken
    BY DEF Becomes, Tunnelled
  <1>2. /\ x \in ExchangesOf(q) /\ q \in Objs
        /\ ExchangesOf(q)' = ExchangesOf(q) \ {x}
        /\ \A o \in DOMAIN objs : o # q => Agrees(o)'
        /\ q \notin raced => Alone(q)' /\ ExchangesOf(q) = {x} /\ ExchangesOf(q)' = {}
    BY <1>1, EndedAgrees
  <1>3. objs[q] \in Object
    BY DEF Base, TypedInv, ObjectsTyped
  <1>4. /\ b.up = objs[q].up /\ b.dl = x.tunnel /\ b.addr = objs[q].addr
        /\ x.op \in {"create", "update"}
    <2>1. PICK r : b = [objs[q] EXCEPT !.dl = x.tunnel, !.released = r]
      BY DEF Tunnelled
    <2> QED
      BY <1>3, <2>1 DEF Tunnelled, Object
  <1>5. ASSUME Attached(q) PROVE Attached(q)'
    <2>1. \A w \in ExchangesOf(q) : w.op \in {"delete", "establish"} => w \in ExchangesOf(q)'
      BY <1>2, <1>4
    <2> QED
      BY <1>1, <1>4, <1>5, <2>1 DEF Attached
  <1>6. ASSUME q \notin forsaken \cup raced PROVE InStep(q)'
    <2>1. InStep(q) /\ ExchangesOf(q) = {x} /\ ExchangesOf(q)' = {}
      BY <1>2, <1>6 DEF Agrees
    <2>2. PICK z : z = upf.sess[upf.cp[q]]
      OBVIOUS
    <2>3. Steady(x)
      BY <1>4 DEF Steady
    <2>4. upf.cp[q] # NoSeid /\ objs[q].up = upf.cp[q] =>
             Serving(z, objs[q], x) /\ Forwards(z, objs[q])
      BY <2>1, <2>2, <2>3 DEF InStep
    <2>5. upf.cp[q] # NoSeid /\ b.up = upf.cp[q] => Forwards(z, b)
      BY <1>4, <2>4 DEF Serving, Forwards
    <2> QED
      BY <1>1, <2>1, <2>2, <2>5 DEF InStep
  <1>7. Agrees(q)'
    BY <1>1, <1>2, <1>5, <1>6 DEF Agrees
  <1> QED
    BY <1>1, <1>2, <1>7

(* An object that gives its resources back before the UPF does is          *)
(* forsaken; of any other the UPF has no session.                          *)
LEMMA DroppedAgrees ==
    ASSUME Base, Routes, \A o \in DOMAIN objs : Agrees(o),
           NEW x \in n4, NEW q \in DOMAIN objs, q = x.obj,
           NEW b, Becomes(q, b), Dropped(q, b, x), n4' = n4 \ {x}, UNCHANGED <<upf, raced>>
    PROVE  \A o \in DOMAIN objs' : Agrees(o)'
  <1>1. /\ DOMAIN objs' = DOMAIN objs /\ objs'[q] = b
        /\ \A o \in DOMAIN objs : o # q => objs'[o] = objs[o]
        /\ forsaken \subseteq forsaken'
    BY DEF Becomes, Dropped
  <1>2. /\ q \in Objs
        /\ \A o \in DOMAIN objs : o # q => Agrees(o)'
        /\ q \notin raced => Alone(q)' /\ ExchangesOf(q) = {x} /\ ExchangesOf(q)' = {}
    BY <1>1, EndedAgrees
  <1>3. b.up = NoSeid
    BY DEF Dropped, NewObject
  <1>4. q \notin forsaken' => upf.cp[q] = NoSeid
    <2>1. upf.cp[q] # NoSeid => \E s \in DOMAIN upf.sess : upf.sess[s].cp = q
      BY <1>2 DEF Routes, SessionOf
    <2> QED
      BY <2>1 DEF Dropped
  <1>5. q \notin forsaken' => Attached(q)'
    BY <1>1, <1>3, <1>4 DEF Attached
  <1>6. q \notin forsaken' \cup raced => InStep(q)'
    BY <1>1, <1>2, <1>3, <1>4 DEF InStep
  <1>7. Agrees(q)'
    BY <1>2, <1>5, <1>6 DEF Agrees
  <1> QED
    BY <1>1, <1>2, <1>7

(* A response that changes nothing told the SMF nothing new.               *)
LEMMA IgnoredAgrees ==
    ASSUME Base, Routes, \A o \in DOMAIN objs : Agrees(o),
           NEW x \in n4, x.phase = "response", n4' = n4 \ {x},
           UNCHANGED <<objs, upf, raced, forsaken>>,
           ~Expected(x) \/ x.cause # Accepted \/ x.op \in {"create", "update"}
    PROVE  \A o \in DOMAIN objs' : Agrees(o)'
  <1>0. PICK q : q = x.obj
    OBVIOUS
  <1>1. /\ q \in DOMAIN objs /\ x \in ExchangesOf(q)
        /\ ExchangesOf(q)' = ExchangesOf(q) \ {x}
        /\ \A o \in DOMAIN objs : o # q => Agrees(o)'
        /\ q \notin raced => Alone(q)' /\ ExchangesOf(q) = {x} /\ ExchangesOf(q)' = {}
    BY <1>0, EndedAgrees
  <1>2. ~(x.op \in {"delete", "silence"} /\ x.cause = Accepted /\ x.cp = q)
    BY <1>0, <1>1, FindsProcedure
  <1>3. x.op # "establish"
    <2> SUFFICES ASSUME x.op = "establish" PROVE FALSE
      OBVIOUS
    <2>1. x.cp = x.obj /\ x.cause = Accepted
      BY DEF Routes, First
    <2> QED
      BY <1>0, <1>1, <2>1, FindsProcedure
  <1>4. ASSUME Attached(q) PROVE Attached(q)'
    <2>1. \A w \in ExchangesOf(q) :
             \/ w.op = "establish"
             \/ w.op = "delete" /\ w.cause = Accepted /\ w.cp = q
             => w \in ExchangesOf(q)'
      BY <1>1, <1>2, <1>3
    <2>2. upf.cp[q] = NoSeid /\ objs[q].up # NoSeid =>
             \E w \in ExchangesOf(q)' :
                w.op = "delete" /\ w.phase = "response" /\ w.cause = Accepted /\ w.cp = q
      BY <1>4, <2>1 DEF Attached
    <2>3. upf.cp[q] # NoSeid /\ objs[q].up = NoSeid =>
             \E w \in ExchangesOf(q)' : w.op = "establish" /\ w.phase = "response"
      BY <1>4, <2>1 DEF Attached
    <2> QED
      BY <1>4, <2>2, <2>3 DEF Attached
  <1>5. ASSUME q \notin forsaken \cup raced PROVE InStep(q)'
    <2>1. InStep(q) /\ ExchangesOf(q) = {x} /\ ExchangesOf(q)' = {}
      BY <1>1, <1>5 DEF Agrees
    <2>2. PICK z, b : z = upf.sess[upf.cp[q]] /\ b = objs[q]
      OBVIOUS
    <2>3. upf.cp[q] # NoSeid /\ b.up = upf.cp[q] =>
             Serving(z, b, x) /\ (Steady(x) => Forwards(z, b))
      BY <2>1, <2>2 DEF InStep
    <2>4. Serving(z, b, x) => Steady(x)
      BY <1>0, <1>2 DEF Serving, Steady
    <2> QED
      BY <2>1, <2>2, <2>3, <2>4 DEF InStep
  <1>6. Agrees(q)'
    BY <1>1, <1>4, <1>5 DEF Agrees
  <1> QED
    BY <1>1, <1>6

LEMMA ResponseAgrees ==
    ASSUME Base, Routes, \A o \in DOMAIN objs : Agrees(o), NEW x \in n4, N4Response(x)
    PROVE  \A o \in DOMAIN objs' : Agrees(o)'
  <1>1. n4' = n4 \ {x} /\ UNCHANGED <<upf, raced>> /\ x.phase = "response"
    BY ResponseResult DEF Base
  <1>2. CASE /\ UNCHANGED <<objs, forsaken, early>>
             /\ ~Expected(x) \/ x.cause # Accepted \/ x.op \in {"create", "update"}
    BY <1>1, <1>2, IgnoredAgrees
  <1>3. ASSUME NEW q \in DOMAIN objs, q = x.obj, NEW b, Becomes(q, b), Stored(q, b, x)
        PROVE  \A o \in DOMAIN objs' : Agrees(o)'
    BY <1>1, <1>3, StoredAgrees
  <1>4. ASSUME NEW q \in DOMAIN objs, q = x.obj, NEW b, Becomes(q, b), Tunnelled(q, b, x)
        PROVE  \A o \in DOMAIN objs' : Agrees(o)'
    BY <1>1, <1>4, TunnelledAgrees
  <1>5. ASSUME NEW q \in DOMAIN objs, q = x.obj, NEW b, Becomes(q, b), Dropped(q, b, x)
        PROVE  \A o \in DOMAIN objs' : Agrees(o)'
    BY <1>1, <1>5, DroppedAgrees
  <1> QED
    BY <1>2, <1>3, <1>4, <1>5, ResponseResult DEF Base

LEMMA LossAgrees ==
    ASSUME Base, Routes, \A o \in DOMAIN objs : Agrees(o), NEW x \in n4, Lose(x)
    PROVE  \A o \in DOMAIN objs' : Agrees(o)'
  <1>1. /\ n4' = n4 \ {x} /\ UNCHANGED <<objs, upf, raced>>
        /\ forsaken' = forsaken \cup ({x.obj} \ {NoObj})
    BY DEF Lose, smfVars
  <1>2. PICK q : q = x.obj
    OBVIOUS
  <1>3. /\ q \in DOMAIN objs
        /\ \A o \in DOMAIN objs : o # q => Agrees(o)'
        /\ q \notin raced => Alone(q)'
    BY <1>1, <1>2, EndedAgrees
  <1>4. q \in forsaken'
    <2>1. q # NoObj
      BY <1>3, ObjectNumbers DEF Base, SessionInv, NoObj
    <2> QED
      BY <1>1, <1>2, <2>1
  <1>5. Agrees(q)'
    BY <1>1, <1>3, <1>4 DEF Agrees
  <1> QED
    BY <1>1, <1>3, <1>5

AgreeInv == restarts = 0 => \A o \in DOMAIN objs : Agrees(o)

LEMMA InitAgrees == Init => AgreeInv
  <1> SUFFICES ASSUME Init PROVE AgreeInv
    OBVIOUS
  <1>1. DOMAIN objs = {}
    BY DEF Init
  <1> QED
    BY <1>1 DEF AgreeInv

LEMMA NextAgrees == Base /\ RouteInv /\ AgreeInv /\ [Next]_vars => AgreeInv'
  <1> SUFFICES ASSUME Base, RouteInv, AgreeInv, [Next]_vars, restarts' = 0
               PROVE  \A o \in DOMAIN objs' : Agrees(o)'
    BY DEF AgreeInv
  <1>0. restarts = 0 /\ ~RestartUpf /\ ~RestartSmf
    BY RestartsCounted DEF Base, TypedInv, Mishaps
  <1>1. Routes /\ \A o \in DOMAIN objs : Agrees(o)
    BY <1>0 DEF RouteInv, AgreeInv
  <1>2. ASSUME NEW p \in Pdus, CreateSMContext(p)
        PROVE  \A o \in DOMAIN objs' : Agrees(o)'
    BY <1>1, <1>2, CreateAgrees
  <1>3. ASSUME NEW p \in Pdus,
               \/ \E t \in Tunnels : UpdateTunnel(p, t)
               \/ ReleaseFlows(p)
               \/ ReleaseSMContext(p)
        PROVE  \A o \in DOMAIN objs' : Agrees(o)'
    BY <1>1, <1>3, RequestAgrees
  <1>4. ASSUME NEW x \in n4, UpfHandle(x) PROVE \A o \in DOMAIN objs' : Agrees(o)'
    BY <1>1, <1>4, UpfAgrees
  <1>5. ASSUME NEW x \in n4, N4Response(x) PROVE \A o \in DOMAIN objs' : Agrees(o)'
    BY <1>1, <1>5, ResponseAgrees
  <1>6. ASSUME NEW x \in n4, Lose(x) PROVE \A o \in DOMAIN objs' : Agrees(o)'
    BY <1>1, <1>6, LossAgrees
  <1>7. CASE UNCHANGED vars
    <2>1. UNCHANGED <<objs, n4, upf, forsaken, raced>>
      BY <1>7 DEF vars, smfVars, history
    <2>2. \A o : ExchangesOf(o)' = ExchangesOf(o)
      BY <2>1 DEF ExchangesOf
    <2> QED
      BY <1>1, <2>1, <2>2, OtherAgrees
  <1> QED
    BY <1>0, <1>2, <1>3, <1>4, <1>5, <1>6, <1>7 DEF Next

LEMMA AgreeEnough == Base /\ RouteInv /\ AgreeInv => Agreement
  <1> SUFFICES ASSUME Base, Routes, RouteToHolder, restarts = 0, NEW o \in DOMAIN objs,
                      o \notin forsaken, ExchangesOf(o) = {}, Agrees(o)
               PROVE  LET up == objs[o].up IN
                      /\ {s \in DOMAIN upf.sess : upf.sess[s].cp = o} = {up} \ {NoSeid}
                      /\ up # NoSeid /\ o \notin raced =>
                            /\ upf.sess[up].dlFar = objs[o].dl
                            /\ objs[o].dl # NoFar /\ objs[o].addr \notin early =>
                                  DownlinkSession(upf, objs[o].addr) = up
    BY RoutesLead DEF RouteInv, AgreeInv, Agreement
  <1>1. PICK up : up = objs[o].up
    OBVIOUS
  <1>2. up = upf.cp[o]
    BY <1>1 DEF Agrees, Attached
  <1>3. /\ o \in Objs
        /\ \A s \in DOMAIN upf.sess : s # NoSeid /\ upf.cp[upf.sess[s].cp] = s
        /\ upf.cp[o] # NoSeid => upf.cp[o] \in DOMAIN upf.sess /\ upf.sess[upf.cp[o]].cp = o
    BY Seids DEF Routes, SessionOf
  <1>4. {s \in DOMAIN upf.sess : upf.sess[s].cp = o} = {up} \ {NoSeid}
    BY <1>2, <1>3
  <1>5. ASSUME up # NoSeid, o \notin raced
        PROVE  /\ upf.sess[up].dlFar = objs[o].dl
               /\ objs[o].dl # NoFar /\ objs[o].addr \notin early =>
                     DownlinkSession(upf, objs[o].addr) = up
    <2>1. Forwards(upf.sess[up], objs[o])
      BY <1>1, <1>2, <1>5 DEF Agrees, InStep
    <2>2. upf.sess[up].dlFar = objs[o].dl
      BY <2>1 DEF Forwards
    <2>3. ASSUME objs[o].dl # NoFar, objs[o].addr \notin early
          PROVE  DownlinkSession(upf, objs[o].addr) = up
      <3>1. upf.sess[up].ue = objs[o].addr /\ upf.sess[up].ue \notin early \cup {NoUe}
        BY <2>1, <2>3, Seids DEF Forwards
      <3> QED
        BY <1>2, <1>3, <1>5, <3>1 DEF RouteToHolder
    <2> QED
      BY <2>2, <2>3
  <1> QED
    BY <1>1, <1>4, <1>5

(* When no exchange of a session is on its way, the SMF and the UPF agree  *)
(* on it, whatever exchanges of other sessions overlap, are answered late  *)
(* or get lost (handle_itti_msg, handle_pfcp_session_establishment_request,*)
(* handle_pfcp_session_modification_request,                               *)
(* handle_pfcp_session_deletion_request, deallocate_ressources).           *)
THEOREM SidesAgree == Spec => []Agreement
  <1>1. SessionInv /\ TypedInv /\ Owned => Base
    BY OwnersFollow DEF Base
  <1> QED
    BY <1>1, InitLeases, NextLeases, LeaseInitOwned, LeaseNextOwned, InitTyped, NextTyped,
       InitRoutes, NextRoutes, InitAgrees, NextAgrees, AgreeEnough, PTL DEF Spec
==============================================================================
