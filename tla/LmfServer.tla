------------------------------ MODULE LmfServer ------------------------------
(***************************************************************************)
(* The LMF: a pistache HTTP server whose worker threads all run            *)
(* StatsEndpoint::doLocalizeUE on one endpoint object and one locator.     *)
(*                                                                         *)
(* The members distances and res of the endpoint, and distances and        *)
(* est_pos_corrent of the locator, are shared by the worker threads and    *)
(* written without a lock.  Every read of one of them is a step of its own *)
(* here, and every write is two: between them the matrix holds elements of *)
(* its old and of its new value.                                           *)
(*                                                                         *)
(* Data.  A distance vector is a model value of Vectors.  A position is    *)
(* abstracted to the set of vectors its computation read: {v} is "the      *)
(* position of v", a larger set is a mixture, {} is the empty matrix that  *)
(* locator::localize returns when the system of equations has no solution. *)
(* The same sets stand for the contents of a distance matrix.              *)
(***************************************************************************)
EXTENDS Naturals

CONSTANTS
    Threads,     \* worker threads of the pistache endpoint (thr)
    Vectors,     \* distance vectors a client may send
    Unsolvable,  \* vectors for which arma::solve throws
    AtOrigin,    \* vectors whose position is exactly (0,0)
    BadBody,     \* a body that json::parse or body.at rejects
    NoRequest,   \* the request of a thread that has not served any yet
    MaxIt        \* max_it, the bound on the iterations of trilateration_nlls

ASSUME LmfAssumption ==
    /\ Unsolvable \subseteq Vectors
    /\ AtOrigin \subseteq Vectors \ Unsolvable
    /\ BadBody \notin Vectors
    /\ NoRequest \notin Vectors \cup {BadBody}
    /\ MaxIt \in Nat \ {0}

VARIABLES
    distances,  \* StatsEndpoint::distances: the set holding the vector in it
    locDist,    \* locator::distances
    est,        \* locator::est_pos_corrent
    res,        \* StatsEndpoint::res
    pc,         \* where each thread is in doLocalizeUE
    req,        \* the body each thread is serving
    mine,       \* the matrix on each thread's stack: the parameter of localize,
                \* then the position it computes, the one it returned, and
                \* the one res(0) was read from
    it,         \* the iteration counter of trilateration_nlls
    reply,      \* the reply to the last request of each thread
    solo        \* history: no other thread served during this request

shared == <<distances, locDist, est, res>>
vars == <<distances, locDist, est, res, pc, req, mine, it, reply, solo>>

Bodies == Vectors \cup {BadBody}
Positions == SUBSET Vectors
Empty == {}

Labels == {"idle", "parse", "assign", "assigning", "call", "store", "storing",
           "start", "iterate", "setEst", "settingEst", "retEst", "setRes",
           "settingRes", "test", "readX", "readY"}

(* What a reply carries: the HTTP code, and the positions whose first and  *)
(* second coordinate the body shows.                                       *)
NoReply == [code |-> 0, x |-> Empty, y |-> Empty]
Located(x, y) == [code |-> 200, x |-> x, y |-> y]
NotAcceptable == [code |-> 406, x |-> Empty, y |-> Empty]
ServerError == [code |-> 500, x |-> Empty, y |-> Empty]
Replies == [code : {0, 200, 406, 500}, x : Positions, y : Positions]

(* arma::mat::is_zero: false for the empty matrix.                         *)
IsZero(m) == \E v \in AtOrigin : m = {v}

(* No shared member is read before a request has written it: the matrices  *)
(* they are constructed with do not matter.                                *)
Init ==
    /\ distances = Empty
    /\ locDist = Empty
    /\ est = Empty
    /\ res = Empty
    /\ pc = [t \in Threads |-> "idle"]
    /\ req = [t \in Threads |-> NoRequest]
    /\ mine = [t \in Threads |-> Empty]
    /\ it = [t \in Threads |-> 0]
    /\ reply = [t \in Threads |-> NoReply]
    /\ solo = [t \in Threads |-> FALSE]

Goto(t, from, to) == pc[t] = from /\ pc' = [pc EXCEPT ![t] = to]

(* A write of value v to a shared matrix whose present content is m: first *)
(* at label begin, when it becomes a mixture, then at label half.          *)
Write(t, m, v, begin, half, end) ==
    \/ Goto(t, begin, half) /\ m' = m \cup v
    \/ Goto(t, half, end) /\ m' = v

(* The handler returns: its reply is sent and its locals go out of scope.  *)
Finish(t, from, r) ==
    /\ Goto(t, from, "idle")
    /\ reply' = [reply EXCEPT ![t] = r]
    /\ mine' = [mine EXCEPT ![t] = Empty]
    /\ it' = [it EXCEPT ![t] = 0]

Hold(t, m) == mine' = [mine EXCEPT ![t] = m]

(* The router hands a request to an idle worker thread.                    *)
Accept(t, b) ==
    /\ Goto(t, "idle", "parse")
    /\ req' = [req EXCEPT ![t] = b]
    /\ reply' = [reply EXCEPT ![t] = NoReply]
    /\ solo' = [u \in Threads |->
                  IF u = t THEN \A w \in Threads \ {t} : pc[w] = "idle"
                           ELSE solo[u] /\ pc[u] = "idle"]
    /\ UNCHANGED <<shared, mine, it>>

(* json::parse and the conversions of x, y and z throw on a bad body; the  *)
(* exception leaves the handler and pistache answers 500.                  *)
Parse(t) ==
    /\ \/ /\ req[t] # BadBody
          /\ Goto(t, "parse", "assign")
          /\ UNCHANGED <<reply, mine, it>>
       \/ /\ req[t] = BadBody
          /\ Finish(t, "parse", ServerError)
    /\ UNCHANGED <<shared, req, solo>>

Assign(t) ==
    /\ Write(t, distances, {req[t]}, "assign", "assigning", "call")
    /\ UNCHANGED <<locDist, est, res, req, mine, it, reply, solo>>

(* The parameter of localize is copied from the shared member.             *)
Call(t) ==
    /\ Goto(t, "call", "store")
    /\ Hold(t, distances)
    /\ UNCHANGED <<shared, req, it, reply, solo>>

(* Fault: the locator keeps the distances it was first given.              *)
StoreOnce(t) ==
    /\ \/ /\ locDist = Empty \/ pc[t] = "storing"
          /\ Write(t, locDist, mine[t], "store", "storing", "start")
       \/ /\ locDist # Empty
          /\ Goto(t, "store", "start")
          /\ UNCHANGED locDist
    /\ UNCHANGED <<distances, est, res, req, mine, it, reply, solo>>

Store(t) ==
    /\ Write(t, locDist, mine[t], "store", "storing", "start")
    /\ UNCHANGED <<distances, est, res, req, mine, it, reply, solo>>

Start(t) ==
    /\ Goto(t, "start", "iterate")
    /\ Hold(t, Empty)
    /\ UNCHANGED <<shared, req, it, reply, solo>>

(* Fault: the bound on the iterations is off by one.                       *)
IterateTooLong(t) ==
    /\ \/ /\ locDist \cap Unsolvable # {}
          /\ Goto(t, "iterate", "setRes")
          /\ Hold(t, Empty)
          /\ UNCHANGED it
       \/ /\ locDist \ Unsolvable # {}
          /\ Goto(t, "iterate", "setEst")
          /\ Hold(t, mine[t] \cup locDist)
          /\ UNCHANGED it
       \/ /\ locDist \ Unsolvable # {}
          /\ it[t] < MaxIt
          /\ Goto(t, "iterate", "iterate")
          /\ Hold(t, mine[t] \cup locDist)
          /\ it' = [it EXCEPT ![t] = @ + 1]
    /\ UNCHANGED <<shared, req, reply, solo>>

(* One iteration of trilateration_nlls.  It reads the locator's distances  *)
(* again each time, throws when they have no solution (localize catches    *)
(* and returns the empty matrix), and stops on convergence, on divergence  *)
(* or after max_it iterations.  A mixture may be solvable or not.          *)
Iterate(t) ==
    /\ \/ /\ locDist \cap Unsolvable # {}
          /\ Goto(t, "iterate", "setRes")
          /\ Hold(t, Empty)
          /\ UNCHANGED it
       \/ /\ locDist \ Unsolvable # {}
          /\ Goto(t, "iterate", "setEst")
          /\ Hold(t, mine[t] \cup locDist)
          /\ UNCHANGED it
       \/ /\ locDist \ Unsolvable # {}
          /\ it[t] + 1 < MaxIt
          /\ Goto(t, "iterate", "iterate")
          /\ Hold(t, mine[t] \cup locDist)
          /\ it' = [it EXCEPT ![t] = @ + 1]
    /\ UNCHANGED <<shared, req, reply, solo>>

SetEst(t) ==
    /\ Write(t, est, mine[t], "setEst", "settingEst", "retEst")
    /\ UNCHANGED <<distances, locDist, res, req, mine, it, reply, solo>>

RetEst(t) ==
    /\ Goto(t, "retEst", "setRes")
    /\ Hold(t, est)
    /\ UNCHANGED <<shared, req, it, reply, solo>>

(* Fault: a localization that failed leaves the last result in place.      *)
SetResIfFound(t) ==
    /\ \/ /\ mine[t] # Empty
          /\ Write(t, res, mine[t], "setRes", "settingRes", "test")
       \/ /\ mine[t] = Empty
          /\ Goto(t, "setRes", "test")
          /\ UNCHANGED res
    /\ UNCHANGED <<distances, locDist, est, req, mine, it, reply, solo>>

SetRes(t) ==
    /\ Write(t, res, mine[t], "setRes", "settingRes", "test")
    /\ UNCHANGED <<distances, locDist, est, req, mine, it, reply, solo>>

Test(t) ==
    /\ \/ IsZero(res) /\ Finish(t, "test", NotAcceptable)
       \/ ~IsZero(res) /\ Goto(t, "test", "readX") /\ UNCHANGED <<reply, mine, it>>
    /\ UNCHANGED <<shared, req, solo>>

(* Fault: a localization that failed is tried again, without a bound.      *)
ReadXOrRetry(t) ==
    /\ \/ res = Empty /\ Goto(t, "readX", "start") /\ UNCHANGED <<mine, reply, it>>
       \/ /\ res # Empty
          /\ Goto(t, "readX", "readY")
          /\ Hold(t, res)
          /\ UNCHANGED <<reply, it>>
    /\ UNCHANGED <<shared, req, solo>>

(* res(0) and res(1) check the bounds: on the empty matrix they throw, and *)
(* pistache answers 500.                                                   *)
ReadX(t) ==
    /\ \/ res = Empty /\ Finish(t, "readX", ServerError)
       \/ /\ res # Empty
          /\ Goto(t, "readX", "readY")
          /\ Hold(t, res)
          /\ UNCHANGED <<reply, it>>
    /\ UNCHANGED <<shared, req, solo>>

ReadY(t) ==
    /\ \/ res = Empty /\ Finish(t, "readY", ServerError)
       \/ res # Empty /\ Finish(t, "readY", Located(mine[t], res))
    /\ UNCHANGED <<shared, req, solo>>

Step(t) ==
    \/ Parse(t) \/ Assign(t) \/ Call(t) \/ Store(t) \/ Start(t)
    \/ Iterate(t) \/ SetEst(t) \/ RetEst(t) \/ SetRes(t) \/ Test(t)
    \/ ReadX(t) \/ ReadY(t)

Next == \E t \in Threads : Step(t) \/ \E b \in Bodies : Accept(t, b)

(* The operating system runs every worker thread; clients need not send.   *)
Fairness == \A t \in Threads : WF_vars(Step(t))

Spec == Init /\ [][Next]_vars /\ Fairness
------------------------------------------------------------------------------
TypeOK ==
    /\ {distances, locDist, est, res} \subseteq Positions
    /\ pc \in [Threads -> Labels]
    /\ req \in [Threads -> Bodies \cup {NoRequest}]
    /\ mine \in [Threads -> Positions]
    /\ it \in [Threads -> 0 .. MaxIt - 1]
    /\ reply \in [Threads -> Replies]
    /\ solo \in [Threads -> BOOLEAN]

(* What the handler is written to answer to a body.                        *)
Expected(b) ==
    CASE b = BadBody -> ServerError
      [] b \in Unsolvable -> ServerError
      [] b \in AtOrigin -> NotAcceptable
      [] OTHER -> Located({b}, {b})

Answered(t) == pc[t] = "idle" /\ reply[t] # NoReply

(* A request that no other request overlapped is answered with the         *)
(* position of its own distances, or with the refusal those distances ask  *)
(* for, whatever earlier requests left in the shared members.              *)
SoloExact == \A t \in Threads : Answered(t) /\ solo[t] => reply[t] = Expected(req[t])

(* With a single worker thread, as the Dockerfile starts the server, every *)
(* reply is the one its own request asks for.                              *)
OneThreadExact ==
    (\A t, u \in Threads : t = u) =>
        \A t \in Threads : Answered(t) => reply[t] = Expected(req[t])

(* Every accepted request is answered: the iteration is bounded and no     *)
(* thread waits for another.                                               *)
EveryRequestAnswered == \A t \in Threads : pc[t] # "idle" ~> pc[t] = "idle"
==============================================================================
