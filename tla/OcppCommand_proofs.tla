-------------------------- MODULE OcppCommand_proofs --------------------------
(***************************************************************************)
(* Proofs about OcppCommand for every set of codes and requests and every  *)
(* bound.  The inductive invariant IInv has a part for the consumer (its   *)
(* program counter against the CALL and the request it handles), one for   *)
(* the CALLs that were sent, and one for the sockets and the registry.     *)
(***************************************************************************)
EXTENDS OcppCommand, TLAPS

\* The consumer has a request in hand while it is not idle, awaits a CALL of that request
\* that is pending, and publishes the result of one that was answered.
JobInv ==
  /\ at # "idle" => cur \in Request
  /\ pending = IF at = "awaiting" THEN {curMsg} ELSE {}
  /\ at \in {"awaiting", "publish"} => curMsg \in 1..counter /\ callReq[curMsg] = cur
  /\ at = "awaiting" => fate[curMsg] = "waiting"
  /\ at = "publish" => fate[curMsg] = "result"

\* Ids above the counter are fresh; a CALL that was sent belongs to a request and went to a
\* socket of the charger the request names; only the awaited CALL waits; and the charger has answered what ended with a result.
CallInv ==
  /\ \A m \in MsgId : m > counter => fate[m] = "unused"
  /\ \A m \in 1..counter :
       /\ fate[m] # "unused"
       /\ callReq[m] \in Request
       /\ callSock[m] \in Socket
       /\ transport[callSock[m]] # "unused"
       /\ url[callSock[m]] = Target[callReq[m]]
  /\ \A m \in MsgId : fate[m] = "waiting" => at = "awaiting" /\ m = curMsg
  /\ \A m \in MsgId : fate[m] = "result" => reply[m] = "result"

\* A success carries a CALL that was sent, as AnswerIsOwn has it.
ResponseInv ==
  \A p \in responses : p.ok =>
    /\ p.msg \in 1..counter
    /\ callReq[p.msg] = p.req
    /\ fate[p.msg] = "result"

\* A socket is registered under its own code, and only after its connection was opened.
SockInv ==
  /\ \A s \in Socket :
       transport[s] = "unused" => handshake[s] = "none" /\ tag[s] = None /\ url[s] = None
  /\ \A s \in Socket : handshake[s] \in {"lookup", "emit"} => url[s] \in Code
  /\ \A s \in Socket : transport[s] = "open" => url[s] \in Code /\ handshake[s] # "none"
  /\ \A s \in Socket : tag[s] \in {None, url[s]}
  /\ \A c \in Code : clients[c] # None =>
       url[clients[c]] = c /\ transport[clients[c]] # "unused"

\* Two live connections of one code have been noticed, and without them the socket that
\* completed its handshake is the registered one.
OverlapInv ==
  /\ \A s, o \in Socket :
       s # o /\ url[s] \in Code /\ url[s] = url[o] /\ ~Finished(s) /\ ~Finished(o)
         => url[s] \in overlapped
  /\ \A s \in Socket :
       transport[s] = "open" /\ handshake[s] \in {"emit", "done"} /\ url[s] \notin overlapped
         => clients[url[s]] = s

IInv == TypeOK /\ JobInv /\ CallInv /\ ResponseInv /\ SockInv /\ OverlapInv /\ NoAnswerLost

-------------------------------------------------------------------------------
\* The initial state satisfies every part.
LEMMA InitInv == Init => IInv
  <1> SUFFICES ASSUME Init PROVE IInv
    OBVIOUS
  <1> USE OcppAssumption DEF Init, MsgId, Socket
  <1>1. TypeOK
    BY DEF TypeOK, Outcome, Response
  <1>2. JobInv /\ CallInv /\ ResponseInv /\ NoAnswerLost
    BY DEF JobInv, CallInv, ResponseInv, NoAnswerLost
  <1>3. SockInv /\ OverlapInv
    BY DEF SockInv, OverlapInv, Finished
  <1>4. QED
    BY <1>1, <1>2, <1>3 DEF IInv

-------------------------------------------------------------------------------
(* Each part is preserved, action by action.  Actions are grouped by the    *)
(* variables they leave alone.                                              *)

SockAction ==
  \E s \in Socket :
    \/ \E c \in Code : Connect(s, c)
    \/ ConnectNameless(s) \/ HandshakeStep(s) \/ HandshakeFails(s)
    \/ Drop(s) \/ HandleDisconnect(s)

\* A connection event changes the sockets and the registry, and nothing else but faults.
LEMMA SockFrame ==
  ASSUME SockAction
  PROVE  UNCHANGED <<callVars, jobVars, logVars>>
  BY DEF SockAction, Connect, ConnectNameless, HandshakeStep, Register, RejectUnknown,
         Welcome, HandshakeFails, Drop, HandleDisconnect

\* Types over a connection event.
LEMMA SockType ==
  ASSUME TypeOK, SockInv, SockAction
  PROVE  TypeOK'
  <1> USE OcppAssumption DEF TypeOK, SockInv
  <1>0. UNCHANGED <<callVars, jobVars, logVars>>
    BY SockFrame
  <1>1. PICK s \in Socket :
          \/ \E c \in Code : Connect(s, c)
          \/ ConnectNameless(s) \/ HandshakeStep(s) \/ HandshakeFails(s)
          \/ Drop(s) \/ HandleDisconnect(s)
    BY DEF SockAction
  <1>2. CASE \E c \in Code : Connect(s, c)
    BY <1>0, <1>2 DEF Connect, callVars, jobVars, logVars
  <1>3. CASE ConnectNameless(s)
    BY <1>0, <1>3 DEF ConnectNameless, callVars, jobVars, logVars
  <1>4. CASE Register(s)
    BY <1>0, <1>4 DEF Register, callVars, jobVars, logVars
  <1>5. CASE RejectUnknown(s)
    BY <1>0, <1>5 DEF RejectUnknown, ClosedByEngine, callVars, jobVars, logVars
  <1>6. CASE Welcome(s)
    BY <1>0, <1>6 DEF Welcome, callVars, jobVars, logVars
  <1>7. CASE HandshakeFails(s)
    BY <1>0, <1>7 DEF HandshakeFails, Fault, ClosedByEngine, callVars, jobVars, logVars
  <1>8. CASE Drop(s)
    BY <1>0, <1>8 DEF Drop, callVars, jobVars, logVars
  <1>9. CASE HandleDisconnect(s)
    BY <1>0, <1>9 DEF HandleDisconnect, callVars, jobVars, logVars
  <1>10. QED
    BY <1>1, <1>2, <1>3, <1>4, <1>5, <1>6, <1>7, <1>8, <1>9 DEF HandshakeStep

\* The registry over a connection event.
LEMMA SockStep ==
  ASSUME TypeOK, SockInv, OverlapInv, SockAction
  PROVE  SockInv' /\ OverlapInv'
  <1> USE OcppAssumption DEF TypeOK, SockInv, OverlapInv, Finished
  <1>1. PICK s \in Socket :
          \/ \E c \in Code : Connect(s, c)
          \/ ConnectNameless(s) \/ HandshakeStep(s) \/ HandshakeFails(s)
          \/ Drop(s) \/ HandleDisconnect(s)
    BY DEF SockAction
  <1>2. ASSUME NEW c \in Code, Connect(s, c) PROVE SockInv' /\ OverlapInv'
    <2>1. SockInv'
      BY <1>2 DEF Connect, IsNext
    <2>2. OverlapInv'
      BY <1>2 DEF Connect, IsNext
    <2>3. QED
      BY <2>1, <2>2
  <1>3. CASE ConnectNameless(s)
    BY <1>3 DEF ConnectNameless, IsNext
  <1>4. CASE Register(s)
    <2>1. SockInv'
      BY <1>4 DEF Register
    <2>2. OverlapInv'
      BY <1>4 DEF Register
    <2>3. QED
      BY <2>1, <2>2
  <1>5. CASE RejectUnknown(s)
    BY <1>5 DEF RejectUnknown, ClosedByEngine
  <1>6. CASE Welcome(s)
    BY <1>6 DEF Welcome
  <1>7. CASE HandshakeFails(s)
    BY <1>7 DEF HandshakeFails, ClosedByEngine
  <1>8. CASE Drop(s)
    BY <1>8 DEF Drop
  <1>9. CASE HandleDisconnect(s)
    <2>1. SockInv'
      BY <1>9 DEF HandleDisconnect
    <2>2. OverlapInv'
      BY <1>9 DEF HandleDisconnect
    <2>3. QED
      BY <2>1, <2>2
  <1>10. QED
    BY <1>1, <1>2, <1>3, <1>4, <1>5, <1>6, <1>7, <1>8, <1>9 DEF HandshakeStep

\* A socket that was opened keeps its code.
LEMMA SockKeepsCall ==
  ASSUME TypeOK, JobInv, CallInv, ResponseInv, NoAnswerLost, SockAction
  PROVE  JobInv' /\ CallInv' /\ ResponseInv' /\ NoAnswerLost'
  <1>0. UNCHANGED <<callVars, jobVars, logVars>>
    BY SockFrame
  <1>1. JobInv' /\ ResponseInv' /\ NoAnswerLost'
    BY <1>0 DEF JobInv, ResponseInv, NoAnswerLost, callVars, jobVars, logVars
  <1>2. \A s \in Socket : transport[s] # "unused" => transport'[s] # "unused" /\ url'[s] = url[s]
    BY DEF SockAction, TypeOK, Connect, IsNext, ConnectNameless, HandshakeStep, Register,
           RejectUnknown, ClosedByEngine, Welcome, HandshakeFails, Drop, HandleDisconnect
  <1>3. CallInv'
    BY <1>0, <1>2 DEF CallInv, callVars, jobVars, logVars
  <1>4. QED
    BY <1>1, <1>3

-------------------------------------------------------------------------------
(* The consumer. *)

\* Every step but a connection event and a restart leaves the sockets alone.
LEMMA SockFrozen ==
  ASSUME SockInv, OverlapInv, UNCHANGED sockVars
  PROVE  SockInv' /\ OverlapInv'
  BY DEF SockInv, OverlapInv, Finished, sockVars

\* The five parts about CALLs, requests and answers.
WorkInv == TypeOK /\ JobInv /\ CallInv /\ ResponseInv /\ NoAnswerLost

\* A request refused at once.
LEMMA RefuseStep ==
  ASSUME WorkInv, NEW r \in Request, RefuseRequest(r)
  PROVE  WorkInv'
  <1> USE OcppAssumption
      DEF WorkInv, TypeOK, MsgId, RefuseRequest, Failed, Return, sockVars, callVars
  <1>1. TypeOK'
    OBVIOUS
  <1>2. JobInv'
    BY DEF JobInv
  <1>3. CallInv'
    BY DEF CallInv, JobInv
  <1>4. ResponseInv' /\ NoAnswerLost'
    BY DEF ResponseInv, NoAnswerLost
  <1>5. QED
    BY <1>1, <1>2, <1>3, <1>4

\* A CALL goes out to the registered socket, which is one of the charger it is meant for.
LEMMA SendStep ==
  ASSUME WorkInv, SockInv, NEW r \in Request, SendCommand(r)
  PROVE  WorkInv'
  <1> DEFINE s == Registered(Target[r])
             m == counter + 1
  <1>0. /\ s \in Socket /\ url[s] = Target[r] /\ transport[s] # "unused"
        /\ counter \in Nat /\ m \in MsgId
    BY OcppAssumption DEF WorkInv, TypeOK, SockInv, SendCommand, NextId, Registered, MsgId
  <1>1. TypeOK'
    BY <1>0, OcppAssumption
    DEF WorkInv, TypeOK, SendCommand, NextId, sockVars, logVars, Outcome, Registered
  <1>2. JobInv'
    BY <1>0 DEF WorkInv, TypeOK, JobInv, CallInv, SendCommand, NextId, MsgId
  <1>3. CallInv'
    BY <1>0 DEF WorkInv, TypeOK, CallInv, JobInv, SendCommand, NextId, MsgId, Registered, sockVars
  <1>4. ResponseInv' /\ NoAnswerLost'
    BY <1>0 DEF WorkInv, TypeOK, ResponseInv, NoAnswerLost, SendCommand, NextId, MsgId, logVars
  <1>5. QED
    BY <1>1, <1>2, <1>3, <1>4 DEF WorkInv

\* The same when client.send throws: the CALL is settled in the step that issues it.
LEMMA ThrowStep ==
  ASSUME WorkInv, SockInv, NEW r \in Request, SendThrows(r)
  PROVE  WorkInv'
  <1> DEFINE s == Registered(Target[r])
             m == counter + 1
  <1>0. /\ s \in Socket /\ url[s] = Target[r] /\ transport[s] # "unused"
        /\ counter \in Nat /\ m \in MsgId
    BY OcppAssumption DEF WorkInv, TypeOK, SockInv, SendThrows, NextId, Registered, MsgId
  <1>1. TypeOK'
    BY <1>0, OcppAssumption
    DEF WorkInv, TypeOK, SendThrows, Fault, Failed, Return, NextId, sockVars, Outcome,
        Registered
  <1>2. JobInv'
    BY <1>0 DEF WorkInv, TypeOK, JobInv, SendThrows, Failed, Return, NextId, MsgId
  <1>3. CallInv'
    BY <1>0
    DEF WorkInv, TypeOK, CallInv, JobInv, SendThrows, Failed, Return, NextId, MsgId,
        Registered, sockVars
  <1>4. ResponseInv' /\ NoAnswerLost'
    BY <1>0
    DEF WorkInv, TypeOK, ResponseInv, NoAnswerLost, SendThrows, Failed, Return, NextId, MsgId
  <1>5. QED
    BY <1>1, <1>2, <1>3, <1>4 DEF WorkInv

\* Settling the awaited CALL, whoever does it.
LEMMA SettleStep ==
  ASSUME WorkInv, NEW m \in pending, NEW o \in Outcome, Settle(m, o),
         \/ o = "timedOut" /\ UNCHANGED reply
         \/ o \in {"result", "error"} /\ reply' = [reply EXCEPT ![m] = o],
         UNCHANGED <<sockVars, counter, callReq, callSock, committed, responses, faults>>
  PROVE  WorkInv'
  <1>0. /\ m \in 1..counter /\ m = curMsg /\ at = "awaiting" /\ callReq[m] = cur
        /\ cur \in Request /\ m \in MsgId /\ counter \in Nat
    BY DEF WorkInv, TypeOK, JobInv, MsgId
  <1>1. TypeOK'
    BY <1>0, OcppAssumption DEF WorkInv, TypeOK, Settle, Failed, Return, sockVars, MsgId
  <1>2. JobInv'
    BY <1>0 DEF WorkInv, TypeOK, JobInv, Settle, Failed, Return, MsgId
  <1>3. CallInv'
    <2>1. CallInv /\ fate \in [MsgId -> {"unused", "waiting"} \cup Outcome]
          /\ reply \in [MsgId -> {"none", "due", "result", "error"}]
          /\ fate' = [fate EXCEPT ![m] = o]
      BY DEF WorkInv, TypeOK, Settle
    <2>2. \A n \in MsgId : fate'[n] = "result" => reply'[n] = "result"
      BY <1>0, <2>1 DEF CallInv
    <2>3. \A n \in MsgId : fate'[n] # "waiting"
      BY <1>0, <2>1 DEF CallInv, Outcome
    <2>4. \A n \in MsgId : n > counter => fate'[n] = "unused"
      BY <1>0, <2>1 DEF CallInv
    <2>5. \A n \in 1..counter : fate'[n] # "unused"
      BY <1>0, <2>1 DEF CallInv, Outcome
    <2>6. QED
      BY <2>1, <2>2, <2>3, <2>4, <2>5 DEF CallInv, sockVars
  <1>4. ResponseInv' /\ NoAnswerLost'
    BY <1>0 DEF WorkInv, TypeOK, ResponseInv, NoAnswerLost, CallInv, JobInv, Settle, Failed,
                Return, MsgId
  <1>5. QED
    BY <1>1, <1>2, <1>3, <1>4 DEF WorkInv

\* An answer settles the CALL it names if that CALL is pending, and is ignored if not.
LEMMA ResponseStep ==
  ASSUME WorkInv, NEW m \in MsgId, NEW o \in {"result", "error"}, HandleResponse(m, o)
  PROVE  WorkInv'
  <1>1. CASE m \in pending
    <2>1. Settle(m, o) /\ o \in Outcome
      BY <1>1 DEF HandleResponse, Outcome
    <2>2. QED
      BY <1>1, <2>1, SettleStep DEF HandleResponse
  <1>2. CASE m \notin pending
    BY <1>2
    DEF HandleResponse, WorkInv, TypeOK, JobInv, CallInv, ResponseInv, NoAnswerLost,
        sockVars, jobVars
  <1>3. QED
    BY <1>1, <1>2

LEMMA TimeoutStep ==
  ASSUME WorkInv, NEW m \in MsgId, Timeout(m)
  PROVE  WorkInv'
  <1>1. m \in pending /\ Settle(m, "timedOut")
    BY DEF Timeout
  <1>2. QED
    BY <1>1, SettleStep DEF Timeout, Outcome

\* An answer on the topic, of the CALL and for the request in hand.
LEMMA AnswerStep ==
  ASSUME WorkInv, NEW ok \in BOOLEAN, at = (IF ok THEN "publish" ELSE "publishError"),
         Answer(ok), UNCHANGED callVars
  PROVE  /\ cur \in Request
         /\ responses' \in SUBSET Response
         /\ ResponseInv'
         /\ \E p \in responses' : p.req = cur
         /\ responses \subseteq responses'
  <1> DEFINE new == [req |-> cur, ok |-> ok, msg |-> curMsg]
  <1>1. cur \in Request /\ curMsg \in 0..MaxCalls /\ responses \in SUBSET Response
    BY DEF WorkInv, JobInv, TypeOK
  <1>2. responses' = responses \cup {new}
    BY DEF Answer
  <1>3. new \in Response /\ new.req = cur /\ new.msg = curMsg /\ new.ok = ok
    BY <1>1 DEF Response
  <1>4. ok => curMsg \in 1..counter /\ callReq[curMsg] = cur /\ fate[curMsg] = "result"
    BY DEF WorkInv, JobInv
  <1>5. ResponseInv'
    <2>1. \A p \in responses : p.ok =>
            p.msg \in 1..counter /\ callReq[p.msg] = p.req /\ fate[p.msg] = "result"
      BY DEF WorkInv, ResponseInv
    <2>2. QED
      BY <1>2, <1>3, <1>4, <2>1 DEF ResponseInv, callVars
  <1>6. QED
    BY <1>1, <1>2, <1>3, <1>5

\* The end of a handler, or its failure, while nothing is awaited any more.
LEMMA WorkFrame ==
  ASSUME WorkInv, at \in {"publish", "publishError"}, cur \in Request,
         UNCHANGED <<sockVars, callVars, committed>>,
         \/ at' = "idle" /\ cur' = None /\ curMsg' = 0
         \/ at' = "publishError" /\ UNCHANGED <<cur, curMsg>>
  PROVE  JobInv' /\ CallInv'
  BY DEF WorkInv, TypeOK, JobInv, CallInv, sockVars, callVars

LEMMA PublishStep ==
  ASSUME WorkInv, Publish \/ PublishResultFails \/ PublishErrorFails
  PROVE  WorkInv'
  <1> USE OcppAssumption
  <1>1. CASE PublishResult \/ PublishError
    <2>1. PICK ok \in BOOLEAN :
            /\ at = (IF ok THEN "publish" ELSE "publishError")
            /\ Answer(ok)
      BY <1>1 DEF PublishResult, PublishError
    <2>2. Return(cur) /\ UNCHANGED <<sockVars, callVars, committed, faults>>
      BY <1>1 DEF PublishResult, PublishError
    <2>3. /\ cur \in Request /\ responses' \in SUBSET Response /\ ResponseInv'
          /\ \E p \in responses' : p.req = cur
          /\ responses \subseteq responses'
      BY <2>1, <2>2, AnswerStep
    <2>4. JobInv' /\ CallInv'
      BY <2>1, <2>2, <2>3, WorkFrame DEF Return
    <2>5. NoAnswerLost'
      BY <2>2, <2>3 DEF WorkInv, NoAnswerLost, Return
    <2>6. TypeOK'
      BY <2>2, <2>3 DEF WorkInv, TypeOK, Return, sockVars, callVars
    <2>7. QED
      BY <2>3, <2>4, <2>5, <2>6 DEF WorkInv
  <1>2. CASE PublishResultFails \/ PublishErrorFails
    <2>1. PICK ok \in BOOLEAN :
            /\ at = (IF ok THEN "publish" ELSE "publishError")
            /\ Answer(ok) \/ UNCHANGED responses
      BY <1>2 DEF PublishResultFails, PublishErrorFails
    <2>2. UNCHANGED <<sockVars, callVars, handled, committed>> /\ faults' \in 0..MaxFaults
      <3>1. UNCHANGED <<sockVars, callVars, handled, committed>>
        BY <1>2 DEF PublishResultFails, PublishErrorFails
      <3>2. faults' \in 0..MaxFaults
        <4>1. Fault
          BY <1>2 DEF PublishResultFails, PublishErrorFails
        <4>2. faults \in 0..MaxFaults
          BY DEF WorkInv, TypeOK
        <4>3. QED
          BY <4>1, <4>2 DEF Fault, OcppAssumption
      <3>3. QED
        BY <3>1, <3>2
    <2>3. /\ cur \in Request /\ responses' \in SUBSET Response /\ ResponseInv'
          /\ responses \subseteq responses'
      <3>1. CASE Answer(ok)
        BY <2>1, <2>2, <3>1, AnswerStep
      <3>2. CASE UNCHANGED responses
        BY <2>1, <2>2, <3>2 DEF WorkInv, JobInv, TypeOK, ResponseInv, callVars
      <3>3. QED
        BY <2>1, <3>1, <3>2
    <2>4. \/ at' = "idle" /\ cur' = None /\ curMsg' = 0
          \/ at' = "publishError" /\ UNCHANGED <<cur, curMsg>>
      BY <1>2 DEF PublishResultFails, PublishErrorFails
    <2>5. JobInv' /\ CallInv'
      BY <2>1, <2>2, <2>3, <2>4, WorkFrame
    <2>6. NoAnswerLost'
      BY <2>2, <2>3 DEF WorkInv, NoAnswerLost
    <2>7. TypeOK'
      BY <2>2, <2>3, <2>4 DEF WorkInv, TypeOK, sockVars, callVars
    <2>8. QED
      BY <2>3, <2>5, <2>6, <2>7 DEF WorkInv
  <1>3. QED
    BY <1>1, <1>2 DEF Publish

\* Offsets and the group.
LEMMA OffsetStep ==
  ASSUME WorkInv, CommitOffsets \/ Rejoin
  PROVE  WorkInv'
  <1>1. /\ UNCHANGED <<sockVars, callVars, jobVars, responses>>
        /\ handled' \in {handled, committed} /\ committed' \in {handled, committed}
        /\ faults' \in 0..MaxFaults
    BY OcppAssumption DEF WorkInv, TypeOK, CommitOffsets, Rejoin, Fault
  <1>2. TypeOK'
    BY <1>1 DEF WorkInv, TypeOK, sockVars, callVars, jobVars
  <1>3. JobInv' /\ CallInv' /\ ResponseInv'
    BY <1>1 DEF WorkInv, JobInv, CallInv, ResponseInv, sockVars, callVars, jobVars
  <1>4. NoAnswerLost'
    BY <1>1 DEF WorkInv, NoAnswerLost
  <1>5. QED
    BY <1>2, <1>3, <1>4 DEF WorkInv

\* A restart forgets the awaited CALL and everything that would settle it.
LEMMA RestartStep ==
  ASSUME WorkInv, SockInv, OverlapInv, Restart
  PROVE  WorkInv' /\ SockInv' /\ OverlapInv'
  <1>1. TypeOK'
    BY OcppAssumption DEF WorkInv, TypeOK, Restart, Fault, Outcome
  <1>2. JobInv' /\ NoAnswerLost'
    BY DEF WorkInv, JobInv, NoAnswerLost, Restart
  <1>3. /\ \A m \in MsgId : fate'[m] = IF fate[m] = "waiting" THEN "forgotten" ELSE fate[m]
        /\ \A s \in Socket : transport[s] # "unused" => transport'[s] # "unused"
        /\ 1..counter \subseteq MsgId
    BY OcppAssumption DEF WorkInv, TypeOK, Restart, MsgId
  <1>4. CallInv' /\ ResponseInv'
    BY <1>3 DEF WorkInv, CallInv, ResponseInv, Restart
  <1>5. SockInv' /\ OverlapInv'
    BY OcppAssumption DEF WorkInv, TypeOK, SockInv, OverlapInv, Finished, Restart
  <1>6. QED
    BY <1>1, <1>2, <1>3, <1>4, <1>5 DEF WorkInv

-------------------------------------------------------------------------------
(* The theorems. *)

\* Every step of the engine, of its chargers or of its faults preserves the invariant.
LEMMA StepInv == IInv /\ [Next]_vars => IInv'
  <1> SUFFICES ASSUME IInv, [Next]_vars PROVE IInv'
    OBVIOUS
  <1>1. WorkInv /\ SockInv /\ OverlapInv
    BY DEF IInv, WorkInv
  <1>2. CASE SockAction
    BY <1>1, <1>2, SockType, SockStep, SockKeepsCall DEF IInv, WorkInv
  <1>3. ASSUME NEW r \in Request, Take(r) \/ SendThrows(r) PROVE IInv'
    <2>1. WorkInv'
      BY <1>1, <1>3, RefuseStep, SendStep, ThrowStep DEF Take
    <2>2. UNCHANGED sockVars
      BY <1>3 DEF Take, RefuseRequest, SendCommand, SendThrows
    <2>3. QED
      BY <1>1, <2>1, <2>2, SockFrozen DEF IInv, WorkInv
  <1>4. ASSUME NEW m \in MsgId,
               Timeout(m) \/ \E o \in {"result", "error"} : HandleResponse(m, o)
        PROVE  IInv'
    <2>1. WorkInv'
      BY <1>1, <1>4, TimeoutStep, ResponseStep
    <2>2. UNCHANGED sockVars
      BY <1>4 DEF Timeout, HandleResponse
    <2>3. QED
      BY <1>1, <2>1, <2>2, SockFrozen DEF IInv, WorkInv
  <1>5. CASE Publish \/ PublishResultFails \/ PublishErrorFails
    <2>1. WorkInv'
      BY <1>1, <1>5, PublishStep
    <2>2. UNCHANGED sockVars
      BY <1>5 DEF Publish, PublishResult, PublishError, PublishResultFails, PublishErrorFails
    <2>3. QED
      BY <1>1, <2>1, <2>2, SockFrozen DEF IInv, WorkInv
  <1>6. CASE CommitOffsets \/ Rejoin
    <2>1. WorkInv'
      BY <1>1, <1>6, OffsetStep
    <2>2. UNCHANGED sockVars
      BY <1>6 DEF CommitOffsets, Rejoin
    <2>3. QED
      BY <1>1, <2>1, <2>2, SockFrozen DEF IInv, WorkInv
  <1>7. CASE Restart
    BY <1>1, <1>7, RestartStep DEF IInv, WorkInv
  <1>8. CASE UNCHANGED vars
    <2>1. TypeOK'
      BY <1>1, <1>8 DEF WorkInv, TypeOK, vars, sockVars, callVars, jobVars, logVars
    <2>2. JobInv' /\ CallInv' /\ ResponseInv' /\ NoAnswerLost'
      BY <1>1, <1>8
      DEF WorkInv, JobInv, CallInv, ResponseInv, NoAnswerLost, vars, sockVars, callVars,
          jobVars, logVars
    <2>3. UNCHANGED sockVars
      BY <1>8 DEF vars
    <2>4. QED
      BY <1>1, <2>1, <2>2, <2>3, SockFrozen DEF IInv
  <1>9. QED
    BY <1>2, <1>3, <1>4, <1>5, <1>6, <1>7, <1>8 DEF Next, SockAction

\* The inductive invariant holds in every reachable state.
THEOREM Invariance == Spec => []IInv
  <1>1. Init => IInv
    BY InitInv
  <1>2. IInv /\ [Next]_vars => IInv'
    BY StepInv
  <1>3. QED
    BY <1>1, <1>2, PTL DEF Spec

\* Every variable keeps its type: ids stay within the bound, the registry maps codes to
\* sockets, only requests are handled.
THEOREM TypeCorrect == Spec => []TypeOK
  <1>1. IInv => TypeOK
    BY DEF IInv
  <1>2. QED
    BY <1>1, Invariance, PTL

\* The table of pending CALLs is never out of step with the consumer that awaits one.
THEOREM NoLeakedCall == Spec => []PendingIsAwaited
  <1>1. IInv => PendingIsAwaited
    BY DEF IInv, JobInv, PendingIsAwaited
  <1>2. QED
    BY <1>1, Invariance, PTL

\* A success that is published is the charger's own answer to the request it names.
THEOREM AnswersAreOwn == Spec => []AnswerIsOwn
  <1>1. IInv => AnswerIsOwn
    <2> SUFFICES ASSUME IInv, NEW p \in responses, p.ok
                 PROVE  /\ p.msg \in MsgId
                        /\ callReq[p.msg] = p.req
                        /\ reply[p.msg] = "result"
                        /\ callSock[p.msg] \in Socket
                        /\ url[callSock[p.msg]] = Target[p.req]
      BY DEF AnswerIsOwn
    <2>1. p.msg \in 1..counter /\ callReq[p.msg] = p.req /\ fate[p.msg] = "result"
      BY DEF IInv, ResponseInv
    <2>2. callSock[p.msg] \in Socket /\ url[callSock[p.msg]] = Target[callReq[p.msg]]
      BY <2>1 DEF IInv, CallInv
    <2>3. p.msg \in MsgId
      BY <2>1, OcppAssumption DEF IInv, TypeOK, MsgId
    <2>4. reply[p.msg] = "result"
      BY <2>1, <2>3 DEF IInv, CallInv
    <2>5. QED
      BY <2>1, <2>2, <2>3, <2>4
  <1>2. QED
    BY <1>1, Invariance, PTL

\* No request that asks for an answer is consumed without one, over any restart.
THEOREM AnswersAreNotLost == Spec => []NoAnswerLost
  <1>1. IInv => NoAnswerLost
    BY DEF IInv
  <1>2. QED
    BY <1>1, Invariance, PTL

\* Chargers whose connections never overlapped are registered under their own socket.
THEOREM Reachable == Spec => []ReachableUnlessOverlapped
  <1>1. IInv => ReachableUnlessOverlapped
    BY DEF IInv, OverlapInv, ReachableUnlessOverlapped, Connected
  <1>2. QED
    BY <1>1, Invariance, PTL

\* The safety part of EachCallSettlesOnce: the fates of the CALLs start and change only as
\* CommandPromise allows, so a CALL is settled once and one CALL at most is outstanding.
THEOREM ImplementsPromise == Spec => Promise!Init /\ [][Promise!Next]_fate
  <1>1. Init => Promise!Init
    BY DEF Init, Promise!Init
  <1>2. IInv /\ [Next]_vars => [Promise!Next]_fate
    <2> SUFFICES ASSUME IInv, [Next]_vars, fate' # fate PROVE Promise!Next
      OBVIOUS
    <2>1. /\ TypeOK /\ JobInv /\ CallInv /\ fate \in [MsgId -> {"unused", "waiting"} \cup Outcome]
          /\ counter \in Nat
      BY OcppAssumption DEF IInv, TypeOK
    <2>2. ASSUME NEW r \in Request, SendCommand(r) \/ SendThrows(r) PROVE Promise!Next
      <3> DEFINE m == counter + 1
      <3>1. m \in MsgId /\ m > counter /\ at = "idle"
        BY <2>1, <2>2, OcppAssumption DEF SendCommand, SendThrows, MsgId
      <3>2. fate[m] = "unused" /\ \A n \in MsgId : fate[n] # "waiting"
        BY <2>1, <3>1 DEF CallInv
      <3>3. CASE SendCommand(r)
        BY <3>1, <3>2, <3>3 DEF SendCommand, NextId, Promise!Next, Promise!Issue
      <3>4. CASE SendThrows(r)
        BY <3>1, <3>2, <3>4
        DEF SendThrows, NextId, Promise!Next, Promise!IssueAndSettle, Outcome
      <3>5. QED
        BY <2>2, <3>3, <3>4
    <2>3. ASSUME NEW m \in pending, NEW o \in Outcome, fate' = [fate EXCEPT ![m] = o]
          PROVE  Promise!Next
      <3>1. m \in MsgId /\ fate[m] = "waiting"
        BY <2>1 DEF TypeOK, JobInv
      <3>2. QED
        BY <2>3, <3>1 DEF Promise!Next, Promise!Settle
    <2>4. ASSUME NEW m \in MsgId, Timeout(m) PROVE Promise!Next
      BY <2>3, <2>4 DEF Timeout, Settle, Outcome
    <2>5. ASSUME NEW m \in MsgId, NEW o \in {"result", "error"}, HandleResponse(m, o)
          PROVE  Promise!Next
      BY <2>3, <2>5 DEF HandleResponse, Settle, Outcome
    <2>6. CASE Restart
      <3>1. PICK m \in MsgId : fate[m] = "waiting"
        BY <2>1, <2>6 DEF Restart
      <3>2. \A n \in MsgId : fate[n] = "waiting" => n = m
        BY <2>1, <3>1 DEF CallInv
      <3>3. fate' = [fate EXCEPT ![m] = "forgotten"]
        BY <2>1, <2>6, <3>1, <3>2 DEF Restart
      <3>4. QED
        BY <3>1, <3>3 DEF Promise!Next, Promise!Settle, Outcome
    <2>7. CASE SockAction
      BY <2>7, SockFrame DEF callVars
    <2>8. ASSUME NEW r \in Request, RefuseRequest(r) PROVE FALSE
      BY <2>8 DEF RefuseRequest, callVars
    <2>9. CASE \/ Publish \/ PublishResultFails \/ PublishErrorFails
               \/ CommitOffsets \/ Rejoin \/ UNCHANGED vars
      BY <2>9 DEF Publish, PublishResult, PublishError, PublishResultFails,
                  PublishErrorFails, CommitOffsets, Rejoin, callVars, vars
    <2>10. QED
      BY <2>2, <2>4, <2>5, <2>6, <2>7, <2>8, <2>9 DEF Next, SockAction, Take
  <1>3. QED
    BY <1>1, <1>2, Invariance, PTL DEF Spec
===============================================================================
