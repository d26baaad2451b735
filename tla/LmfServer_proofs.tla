-------------------------- MODULE LmfServer_proofs ---------------------------
(* Proofs about LmfServer for any number of worker threads, any set of     *)
(* distance vectors and any bound on the iterations.                       *)
EXTENDS LmfServer, TLAPS

(* Past the parsing of its body, a thread serves a distance vector.        *)
Asked == \A t \in Threads :
    /\ pc[t] = "parse" => req[t] \in Bodies
    /\ pc[t] \in Labels \ {"idle", "parse"} => req[t] \in Vectors

(* The matrix localize returns for a vector nobody interferes with.        *)
Result(b) == IF b \in Unsolvable THEN {} ELSE {b}

(* While thread t serves a request nobody overlaps, each matrix holds,     *)
(* from the moment it is written, what that request asks for.              *)
Phase(t) ==
    /\ pc[t] = "call" => distances = {req[t]}
    /\ pc[t] \in {"store", "storing"} => mine[t] = {req[t]}
    /\ pc[t] \in {"start", "iterate"} => locDist = {req[t]}
    /\ pc[t] = "iterate" => mine[t] \in {{}, {req[t]}}
    /\ pc[t] \in {"setEst", "settingEst", "retEst"} => req[t] \notin Unsolvable
    /\ pc[t] \in {"setEst", "settingEst"} => mine[t] = {req[t]}
    /\ pc[t] = "retEst" => est = {req[t]}
    /\ pc[t] \in {"setRes", "settingRes"} => mine[t] = Result(req[t])
    /\ pc[t] \in {"test", "readX", "readY"} => res = Result(req[t])
    /\ pc[t] \in {"readX", "readY"} => req[t] \notin AtOrigin
    /\ pc[t] = "readY" => mine[t] = {req[t]} /\ req[t] \notin Unsolvable

Alone(t) == \A u \in Threads \ {t} : pc[u] = "idle"

Serving == \A t \in Threads :
    solo[t] /\ pc[t] # "idle" => Alone(t) /\ Phase(t)

(* The inductive invariant: types, and a thread whose request nobody has   *)
(* overlapped is alone and finds in the shared members what it put there.  *)
Typing == TypeOK /\ Asked
SoloInv == Typing /\ Serving /\ SoloExact

USE LmfAssumption

LEMMA InitTyping == Init => Typing
BY DEF Init, Typing, TypeOK, Asked, Positions, Empty, Labels, Bodies,
       Replies, NoReply

LEMMA ReplyTypes ==
    /\ {NoReply, ServerError, NotAcceptable} \subseteq Replies
    /\ \A x, y \in Positions : Located(x, y) \in Replies
BY DEF Replies, NoReply, ServerError, NotAcceptable, Located, Positions, Empty

(* Types are preserved; the vector a thread writes is the one it parsed.   *)
LEMMA NextTyping == Typing /\ [Next]_vars => Typing'
<1> SUFFICES ASSUME Typing, [Next]_vars PROVE Typing'
    OBVIOUS
<1> USE DEF Typing, TypeOK, Asked, Positions, Empty, Labels, Bodies, Goto,
            Write, Hold, shared
<1>1. CASE UNCHANGED vars
    BY <1>1 DEF vars
<1>2. ASSUME NEW t \in Threads, NEW b \in Bodies, Accept(t, b) PROVE Typing'
    BY <1>2, ReplyTypes DEF Accept
<1>3. ASSUME NEW t \in Threads, Step(t) PROVE Typing'
  <2>1. CASE Parse(t)
      BY <2>1, ReplyTypes DEF Parse, Finish
  <2>2. CASE Assign(t)
      BY <2>2 DEF Assign
  <2>3. CASE Call(t)
      BY <2>3 DEF Call
  <2>4. CASE Store(t)
      BY <2>4 DEF Store
  <2>5. CASE Start(t)
      BY <2>5 DEF Start
  <2>6. CASE Iterate(t)
      BY <2>6 DEF Iterate
  <2>7. CASE SetEst(t)
      BY <2>7 DEF SetEst
  <2>8. CASE RetEst(t)
      BY <2>8 DEF RetEst
  <2>9. CASE SetRes(t)
      BY <2>9 DEF SetRes
  <2>10. CASE Test(t)
      BY <2>10, ReplyTypes DEF Test, Finish
  <2>11. CASE ReadX(t)
      BY <2>11, ReplyTypes DEF ReadX, Finish
  <2>12. CASE ReadY(t)
      BY <2>12, ReplyTypes DEF ReadY, Finish
  <2> QED
      BY <1>3, <2>1, <2>2, <2>3, <2>4, <2>5, <2>6, <2>7, <2>8, <2>9, <2>10,
         <2>11, <2>12 DEF Step
<1> QED
    BY <1>1, <1>2, <1>3 DEF Next

(* LmfServer keeps its types.                                              *)
THEOREM Typed == Spec => []TypeOK
<1>1. Typing => TypeOK
    BY DEF Typing
<1> QED
    BY <1>1, InitTyping, NextTyping, PTL DEF Spec
------------------------------------------------------------------------------
(* Another thread's idleness is all that a step of thread t may assume of  *)
(* it: a served request that is alone is not disturbed by anyone.          *)
LEMMA OthersServing ==
    ASSUME Typing, Serving, NEW t \in Threads, Step(t),
           NEW u \in Threads, u # t, solo'[u], pc'[u] # "idle"
    PROVE  FALSE
<1>1. solo' = solo /\ pc[t] # "idle" /\ pc'[u] = pc[u]
    BY DEF Step, Parse, Assign, Call, Store, Start, Iterate, SetEst, RetEst,
           SetRes, Test, ReadX, ReadY, Goto, Write, Finish, Typing, TypeOK
<1> QED
    BY <1>1 DEF Serving, Alone

(* The steps of a thread take its own phase to the next one.               *)
LEMMA OwnServing ==
    ASSUME Typing, Typing', NEW t \in Threads, Step(t), Phase(t)
    PROVE  pc'[t] # "idle" => Phase(t)'
<1> USE DEF Phase, Typing, TypeOK, Asked, Empty, Result, Goto, Write, Hold,
            shared, Labels, Bodies
<1>1. CASE Parse(t)
    BY <1>1 DEF Parse, Finish
<1>2. CASE Assign(t)
    BY <1>2 DEF Assign
<1>3. CASE Call(t)
    BY <1>3 DEF Call
<1>4. CASE Store(t)
    BY <1>4 DEF Store
<1>5. CASE Start(t)
    BY <1>5 DEF Start
<1>6. CASE Iterate(t)
    BY <1>6 DEF Iterate
<1>7. CASE SetEst(t)
    BY <1>7 DEF SetEst
<1>8. CASE RetEst(t)
    BY <1>8 DEF RetEst
<1>9. CASE SetRes(t)
    BY <1>9 DEF SetRes
<1>10. CASE Test(t)
    BY <1>10 DEF Test, Finish, IsZero
<1>11. CASE ReadX(t)
    BY <1>11 DEF ReadX, Finish
<1>12. CASE ReadY(t)
    BY <1>12 DEF ReadY, Finish
<1> QED
    BY <1>1, <1>2, <1>3, <1>4, <1>5, <1>6, <1>7, <1>8, <1>9, <1>10, <1>11,
       <1>12 DEF Step

(* A thread that returns in the phase it should be in replies as expected. *)
LEMMA OwnReply ==
    ASSUME Typing, NEW t \in Threads, Step(t), Phase(t), pc'[t] = "idle"
    PROVE  reply'[t] = Expected(req[t]) /\ req'[t] = req[t]
<1> USE DEF Phase, Typing, TypeOK, Asked, Empty, Result, Goto, Write, Hold,
            Labels, Bodies, Finish
<1>1. CASE Parse(t)
    BY <1>1 DEF Parse, Expected
<1>2. CASE Test(t)
    BY <1>2 DEF Test, IsZero, Expected
<1>3. CASE ReadX(t)
    BY <1>3 DEF ReadX, Expected
<1>4. CASE ReadY(t)
  <2>1. /\ req[t] \in Vectors \ (Unsolvable \cup AtOrigin)
        /\ mine[t] = {req[t]}
        /\ res = {req[t]}
      BY <1>4 DEF ReadY
  <2>2. Expected(req[t]) = Located({req[t]}, {req[t]})
      BY <2>1 DEF Expected
  <2>3. reply'[t] = Located(mine[t], res) /\ req' = req
      BY <1>4, <2>1 DEF ReadY
  <2> QED BY <2>1, <2>2, <2>3
<1> QED
    BY <1>1, <1>2, <1>3, <1>4 DEF Step, Assign, Call, Store, Start, Iterate,
       SetEst, RetEst, SetRes

LEMMA InitSolo == Init => SoloInv
<1> SUFFICES ASSUME Init PROVE Serving /\ SoloExact
    BY InitTyping DEF SoloInv
<1> QED
    BY DEF Init, Serving, SoloExact, Answered

LEMMA NextSolo == SoloInv /\ [Next]_vars => SoloInv'
<1> SUFFICES ASSUME SoloInv, [Next]_vars PROVE Serving' /\ SoloExact'
    BY NextTyping DEF SoloInv
<1> USE DEF SoloInv
<1>1. CASE UNCHANGED vars
  <2>1. Serving'
      BY <1>1 DEF vars, Serving, Alone, Phase
  <2>2. SoloExact'
      BY <1>1 DEF vars, SoloExact, Answered
  <2> QED BY <2>1, <2>2
<1>2. ASSUME NEW t \in Threads, NEW b \in Bodies, Accept(t, b)
      PROVE  Serving' /\ SoloExact'
  <2>1. Serving'
      BY <1>2 DEF Accept, Goto, Serving, Alone, Phase, Typing, TypeOK
  <2>2. SoloExact'
      BY <1>2 DEF Accept, Goto, SoloExact, Answered, Expected, Typing, TypeOK
  <2> QED BY <2>1, <2>2
<1>3. ASSUME NEW t \in Threads, Step(t) PROVE Serving' /\ SoloExact'
  <2>1. /\ solo' = solo /\ pc[t] # "idle"
        /\ \A u \in Threads \ {t} : /\ pc'[u] = pc[u]
                                    /\ reply'[u] = reply[u]
        /\ req' = req
      BY <1>3 DEF Step, Parse, Assign, Call, Store, Start, Iterate, SetEst,
         RetEst, SetRes, Test, ReadX, ReadY, Goto, Write, Finish, Typing,
         TypeOK, shared
  <2>2. Serving'
    <3> SUFFICES ASSUME NEW u \in Threads, solo'[u], pc'[u] # "idle"
                 PROVE  Alone(u)' /\ Phase(u)'
        BY DEF Serving
    <3>1. u = t
        BY <1>3, OthersServing
    <3>2. Alone(t) /\ Phase(t)
        BY <2>1, <3>1 DEF Serving
    <3>3. Alone(u)'
        BY <2>1, <3>1, <3>2 DEF Alone
    <3>4. Phase(u)'
        BY <1>3, <3>1, <3>2, NextTyping, OwnServing
    <3> QED BY <3>3, <3>4
  <2>3. SoloExact'
    <3> SUFFICES ASSUME NEW u \in Threads, Answered(u)', solo'[u]
                 PROVE  reply'[u] = Expected(req'[u])
        BY DEF SoloExact, Expected
    <3>1. CASE u = t
      <4>1. Phase(t)
          BY <2>1, <3>1 DEF Serving
      <4> QED BY <1>3, <2>1, <3>1, <4>1, OwnReply DEF Answered
    <3>2. CASE u # t
        BY <2>1, <3>2 DEF SoloExact, Answered
    <3> QED BY <3>1, <3>2
  <2> QED BY <2>2, <2>3
<1> QED
    BY <1>1, <1>2, <1>3 DEF Next

(* A request no other overlaps gets the reply its own distances ask for,   *)
(* whatever the shared members held before it.                             *)
THEOREM SoloCorrect == Spec => []SoloExact
<1>1. SoloInv => SoloExact
    BY DEF SoloInv
<1> QED
    BY <1>1, InitSolo, NextSolo, PTL DEF Spec

(* With one worker thread no request is ever overlapped.                   *)
NeverOverlapped ==
    (\A t, u \in Threads : t = u) =>
        \A t \in Threads : Answered(t) \/ pc[t] # "idle" => solo[t]

LEMMA NextNeverOverlapped ==
    Typing /\ NeverOverlapped /\ [Next]_vars => NeverOverlapped'
<1> SUFFICES ASSUME Typing, NeverOverlapped, [Next]_vars,
                    \A t, u \in Threads : t = u,
                    NEW u \in Threads, Answered(u)' \/ pc'[u] # "idle"
             PROVE  solo'[u]
    BY DEF NeverOverlapped
<1>1. CASE UNCHANGED vars
    BY <1>1 DEF vars, NeverOverlapped, Answered
<1>2. ASSUME NEW t \in Threads, NEW b \in Bodies, Accept(t, b)
      PROVE  solo'[u]
    BY <1>2 DEF Accept
<1>3. ASSUME NEW t \in Threads, Step(t) PROVE solo'[u]
  <2>1. solo' = solo /\ pc[t] # "idle"
      BY <1>3 DEF Step, Parse, Assign, Call, Store, Start, Iterate, SetEst,
         RetEst, SetRes, Test, ReadX, ReadY, Goto, Write, Finish
  <2>2. t = u
      OBVIOUS
  <2> QED BY <2>1, <2>2 DEF NeverOverlapped
<1> QED
    BY <1>1, <1>2, <1>3 DEF Next

(* The server as the Dockerfile starts it, with one worker thread: every   *)
(* reply is the one its own request asks for.                              *)
THEOREM OneThreadCorrect == Spec => []OneThreadExact
<1>1. Init => NeverOverlapped
    BY DEF Init, NeverOverlapped, Answered
<1>2. SoloExact /\ NeverOverlapped => OneThreadExact
    BY DEF SoloExact, NeverOverlapped, OneThreadExact
<1>3. SoloInv => Typing /\ SoloExact
    BY DEF SoloInv
<1> QED
    BY <1>1, <1>2, <1>3, InitSolo, NextSolo, NextNeverOverlapped, PTL
       DEF Spec
==============================================================================
