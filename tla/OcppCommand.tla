------------------------------ MODULE OcppCommand ------------------------------
(***************************************************************************)
(* The command side of the CSMS engine: the registry of charger sockets    *)
(* (OcppGateway.handleConnection / handleDisconnect), the table of pending *)
(* OCPP CALLs with their timers (OcppCommandService), and the consumer of  *)
(* the topic ocpp.command.request that answers on ocpp.command.response    *)
(* (CommandConsumerService).                                               *)
(*                                                                         *)
(* The engine is one Node process: a handler runs without interruption     *)
(* from one await to the next, so one action below is the code between two *)
(* awaits.  kafkajs hands the consumer one message at a time and only      *)
(* marks it consumed when the handler's promise is fulfilled.              *)
(***************************************************************************)
EXTENDS Naturals, FiniteSets

CONSTANTS
  Code,        \* station codes, the last segment of the URL a charger connects to
  MaxSockets,  \* bound: WebSocket connections, numbered as they are opened
  Request,     \* messages of ocpp.command.request
  Target,      \* Target[r]: the chargerId named in r
  Supported,   \* requests whose action is a case of handleCommand's switch
  Keyed,       \* requests with a responseKey
  MaxCalls,    \* bound: OCPP message ids that are generated
  MaxFaults,   \* bound: restarts, failed lookups, failed or unacknowledged sends
  None

MsgId == 1..MaxCalls
Socket == 1..MaxSockets

ASSUME OcppAssumption ==
  /\ MaxCalls \in Nat \ {0}
  /\ MaxFaults \in Nat
  /\ MaxSockets \in Nat \ {0}
  /\ Supported \subseteq Request
  /\ Keyed \subseteq Request
  /\ None \notin Code \cup Socket \cup Request

VARIABLES
  transport,   \* transport[s]: state of the connection as the engine has seen it
  handshake,   \* handshake[s]: the await at which handleConnection(s) stands
  url,         \* url[s]: the code s connected for
  tag,         \* tag[s]: client.chargerId, set once the station is found
  clients,     \* connectedClients: the socket registered for a code
  pending,     \* the keys of pendingCommands, each with an armed timer
  counter,     \* message ids generated (Date.now() keeps them unique over restarts)
  callReq,     \* callReq[m]: the request CALL m was sent for
  callSock,    \* callSock[m]: the socket CALL m was written to
  reply,       \* reply[m]: the charger's answer to CALL m, "due" while it owes one
  fate,        \* what became of CALL m
  at,          \* where the consumer stands in handleCommand
  cur,         \* the request it handles
  curMsg,      \* the id of the CALL it awaits or has awaited (0: none)
  handled,     \* requests whose handler returned since the last (re)join
  committed,   \* requests whose offset is committed
  responses,   \* what is on ocpp.command.response
  faults,      \* faults so far
  overlapped   \* codes that ever had two connections at the same time

sockVars == <<transport, handshake, url, tag, clients, overlapped>>
callVars == <<pending, counter, callReq, callSock, reply, fate>>
jobVars  == <<at, cur, curMsg>>
logVars  == <<handled, committed, responses>>
vars == <<sockVars, callVars, jobVars, logVars, faults>>

Outcome == {"result", "error", "timedOut", "refused", "forgotten"}
Response == [req : Request, ok : BOOLEAN, msg : 0..MaxCalls]

TypeOK ==
  /\ transport \in [Socket -> {"unused", "open", "lost", "closed"}]
  /\ handshake \in [Socket -> {"none", "lookup", "emit", "done"}]
  /\ url \in [Socket -> Code \cup {None}]
  /\ tag \in [Socket -> Code \cup {None}]
  /\ clients \in [Code -> Socket \cup {None}]
  /\ pending \in SUBSET MsgId
  /\ counter \in 0..MaxCalls
  /\ callReq \in [MsgId -> Request \cup {None}]
  /\ callSock \in [MsgId -> Socket \cup {None}]
  /\ reply \in [MsgId -> {"none", "due", "result", "error"}]
  /\ fate \in [MsgId -> {"unused", "waiting"} \cup Outcome]
  /\ at \in {"idle", "awaiting", "publish", "publishError"}
  /\ cur \in Request \cup {None}
  /\ curMsg \in 0..MaxCalls
  /\ handled \in SUBSET Request
  /\ committed \in SUBSET Request
  /\ responses \in SUBSET Response
  /\ faults \in 0..MaxFaults
  /\ overlapped \in SUBSET Code

Init ==
  /\ transport = [s \in Socket |-> "unused"]
  /\ handshake = [s \in Socket |-> "none"]
  /\ url = [s \in Socket |-> None]
  /\ tag = [s \in Socket |-> None]
  /\ clients = [c \in Code |-> None]
  /\ pending = {}
  /\ counter = 0
  /\ callReq = [m \in MsgId |-> None]
  /\ callSock = [m \in MsgId |-> None]
  /\ reply = [m \in MsgId |-> "none"]
  /\ fate = [m \in MsgId |-> "unused"]
  /\ at = "idle"
  /\ cur = None
  /\ curMsg = 0
  /\ handled = {}
  /\ committed = {}
  /\ responses = {}
  /\ faults = 0
  /\ overlapped = {}

Fault == faults < MaxFaults /\ faults' = faults + 1

-------------------------------------------------------------------------------
(* Connections *)

\* No callback of s can run any more.
Finished(s) == transport[s] \in {"unused", "closed"} /\ handshake[s] \in {"none", "done"}

IsNext(s) == transport[s] = "unused" /\ \A o \in 1..(s - 1) : transport[o] # "unused"

\* handleConnection up to the lookup of the station.
Connect(s, c) ==
  /\ IsNext(s)
  /\ transport' = [transport EXCEPT ![s] = "open"]
  /\ handshake' = [handshake EXCEPT ![s] = "lookup"]
  /\ url' = [url EXCEPT ![s] = c]
  /\ overlapped' = IF \E o \in Socket : url[o] = c /\ ~Finished(o)
                   THEN overlapped \cup {c} ELSE overlapped
  /\ UNCHANGED <<tag, clients, callVars, jobVars, logVars, faults>>

\* The early return: the URL names no charger, the engine closes the socket.
ConnectNameless(s) ==
  /\ IsNext(s)
  /\ transport' = [transport EXCEPT ![s] = "lost"]
  /\ handshake' = [handshake EXCEPT ![s] = "done"]
  /\ UNCHANGED <<url, tag, clients, overlapped, callVars, jobVars, logVars, faults>>

\* client.close(): the close event, and handleDisconnect with it, comes later.
ClosedByEngine(s) == [transport EXCEPT ![s] = IF @ = "open" THEN "lost" ELSE @]

\* A code that has a socket already keeps it.
Mutant_Register(s) ==
  /\ handshake[s] = "lookup"
  /\ tag' = [tag EXCEPT ![s] = url[s]]
  /\ clients' = [clients EXCEPT ![url[s]] = IF @ = None THEN s ELSE @]
  /\ handshake' = [handshake EXCEPT ![s] = "emit"]
  /\ UNCHANGED <<transport, url, overlapped, callVars, jobVars, logVars, faults>>

\* The station exists: tag the socket, register it, start emitting charger.connected.
Register(s) ==
  /\ handshake[s] = "lookup"
  /\ tag' = [tag EXCEPT ![s] = url[s]]
  /\ clients' = [clients EXCEPT ![url[s]] = s]
  /\ handshake' = [handshake EXCEPT ![s] = "emit"]
  /\ UNCHANGED <<transport, url, overlapped, callVars, jobVars, logVars, faults>>

\* findUnique finds no station with that code (no longer, or not yet).
RejectUnknown(s) ==
  /\ handshake[s] = "lookup"
  /\ transport' = ClosedByEngine(s)
  /\ handshake' = [handshake EXCEPT ![s] = "done"]
  /\ UNCHANGED <<url, tag, clients, overlapped, callVars, jobVars, logVars, faults>>

Welcome(s) ==
  /\ handshake[s] = "emit"
  /\ handshake' = [handshake EXCEPT ![s] = "done"]
  /\ UNCHANGED <<transport, url, tag, clients, overlapped, callVars, jobVars, logVars,
                 faults>>

\* The lookup or the emit throws: the engine closes the socket; a socket that is
\* registered by then stays registered until its disconnect is handled.
HandshakeFails(s) ==
  /\ handshake[s] \in {"lookup", "emit"}
  /\ Fault
  /\ transport' = ClosedByEngine(s)
  /\ handshake' = [handshake EXCEPT ![s] = "done"]
  /\ UNCHANGED <<url, tag, clients, overlapped, callVars, jobVars, logVars>>

\* The charger goes away; the engine learns of it when the close event fires.
Drop(s) ==
  /\ transport[s] = "open"
  /\ transport' = [transport EXCEPT ![s] = "lost"]
  /\ UNCHANGED <<handshake, url, tag, clients, overlapped, callVars, jobVars, logVars,
                 faults>>

\* unregisterClient deletes by charger id, whichever socket is registered for it.
HandleDisconnect(s) ==
  /\ transport[s] = "lost"
  /\ transport' = [transport EXCEPT ![s] = "closed"]
  /\ clients' = [c \in Code |-> IF c = tag[s] THEN None ELSE clients[c]]
  /\ UNCHANGED <<handshake, url, tag, overlapped, callVars, jobVars, logVars, faults>>

-------------------------------------------------------------------------------
(* Commands *)

Registered(c) == IF c \in Code THEN clients[c] ELSE None

Mutant_NextId == counter    \* counter++ for ++counter

NextId == counter + 1

\* The end of a handler: kafkajs marks the message consumed and takes the next.
Return(r) ==
  /\ at' = "idle"
  /\ cur' = None
  /\ curMsg' = 0
  /\ handled' = handled \cup {r}

\* The catch block: publish an error if someone asked for an answer.
Failed(r, m) ==
  IF r \in Keyed
  THEN /\ at' = "publishError"
       /\ cur' = r
       /\ curMsg' = m
       /\ UNCHANGED handled
  ELSE Return(r)

\* handleCommand for an action outside the switch, or for a charger without a socket.
RefuseRequest(r) ==
  /\ at = "idle"
  /\ r \notin handled
  /\ r \notin Supported \/ Registered(Target[r]) = None
  /\ Failed(r, 0)
  /\ UNCHANGED <<sockVars, callVars, committed, responses, faults>>

\* handleCommand up to the await of the answer: sendCommand takes a new message id,
\* arms the timer, stores the pending entry and writes to the registered socket.
SendCommand(r) ==
  LET s == Registered(Target[r])
      m == NextId
  IN  /\ at = "idle"
      /\ r \in Supported \ handled
      /\ s # None
      /\ counter < MaxCalls
      /\ counter' = m
      /\ pending' = pending \cup {m}
      /\ callReq' = [callReq EXCEPT ![m] = r]
      /\ callSock' = [callSock EXCEPT ![m] = s]
      /\ fate' = [fate EXCEPT ![m] = "waiting"]
      /\ reply' = IF transport[s] = "open" THEN [reply EXCEPT ![m] = "due"] ELSE reply
      /\ at' = "awaiting"
      /\ cur' = r
      /\ curMsg' = m
      /\ UNCHANGED <<sockVars, logVars, faults>>

\* client.send throws: the entry just stored is removed and the promise rejected.
SendThrows(r) ==
  LET s == Registered(Target[r])
      m == NextId
  IN  /\ at = "idle"
      /\ r \in Supported \ handled
      /\ s # None
      /\ counter < MaxCalls
      /\ Fault
      /\ counter' = m
      /\ callReq' = [callReq EXCEPT ![m] = r]
      /\ callSock' = [callSock EXCEPT ![m] = s]
      /\ fate' = [fate EXCEPT ![m] = "refused"]
      /\ Failed(r, m)
      /\ UNCHANGED <<sockVars, pending, reply, committed, responses>>

\* The timer's callback rejects the promise and forgets to delete the entry.
Mutant_Settle(m, o) ==
  /\ pending' = IF o = "timedOut" THEN pending ELSE pending \ {m}
  /\ fate' = [fate EXCEPT ![m] = o]
  /\ IF o = "result"
     THEN IF callReq[m] \in Keyed
          THEN at' = "publish" /\ UNCHANGED <<cur, curMsg, handled>>
          ELSE Return(callReq[m])
     ELSE Failed(callReq[m], m)

\* A promise is fulfilled or rejected: the consumer goes on after its await.
Settle(m, o) ==
  /\ pending' = pending \ {m}
  /\ fate' = [fate EXCEPT ![m] = o]
  /\ IF o = "result"
     THEN IF callReq[m] \in Keyed
          THEN at' = "publish" /\ UNCHANGED <<cur, curMsg, handled>>
          ELSE Return(callReq[m])
     ELSE Failed(callReq[m], m)

\* The answer settles whichever CALL is outstanding, without a look at its id.
Mutant_HandleResponse(m, o) ==
  /\ reply[m] = "due"
  /\ \E s \in Socket : transport[s] = "open" /\ url[s] = url[callSock[m]]
  /\ reply' = [reply EXCEPT ![m] = o]
  /\ IF at = "awaiting"
     THEN Settle(curMsg, o)
     ELSE UNCHANGED <<pending, fate, jobVars, handled>>
  /\ UNCHANGED <<sockVars, counter, callReq, callSock, committed, responses, faults>>

\* handleResponse for a CALLRESULT or CALLERROR: a charger answers CALL m, possibly
\* long after it was sent, on any socket it has open by then; an id that is not
\* pending is ignored.
HandleResponse(m, o) ==
  /\ reply[m] = "due"
  /\ \E s \in Socket : transport[s] = "open" /\ url[s] = url[callSock[m]]
  /\ reply' = [reply EXCEPT ![m] = o]
  /\ IF m \in pending
     THEN Settle(m, o)
     ELSE UNCHANGED <<pending, fate, jobVars, handled>>
  /\ UNCHANGED <<sockVars, counter, callReq, callSock, committed, responses, faults>>

\* The timer is not cleared when the answer arrives.
Mutant_Timeout(m) ==
  /\ fate[m] \in {"waiting", "result"}
  /\ Settle(m, "timedOut")
  /\ UNCHANGED <<sockVars, counter, callReq, callSock, reply, committed, responses,
                 faults>>

\* No timer is armed for a CALL that could not be delivered.
Mutant_TimeoutDelivered(m) ==
  /\ m \in pending /\ reply[m] = "due"
  /\ Settle(m, "timedOut")
  /\ UNCHANGED <<sockVars, counter, callReq, callSock, reply, committed, responses,
                 faults>>

\* The timer of CALL m fires.
Timeout(m) ==
  /\ m \in pending
  /\ Settle(m, "timedOut")
  /\ UNCHANGED <<sockVars, counter, callReq, callSock, reply, committed, responses,
                 faults>>

-------------------------------------------------------------------------------
(* Answers on ocpp.command.response *)

Answer(ok) == responses' = responses \cup {[req |-> cur, ok |-> ok, msg |-> curMsg]}

PublishResult ==
  /\ at = "publish"
  /\ Answer(TRUE)
  /\ Return(cur)
  /\ UNCHANGED <<sockVars, callVars, committed, faults>>

\* A call on the producer throws before or after the broker has taken the message:
\* the catch block then publishes an error for a command that succeeded.
PublishResultFails ==
  /\ at = "publish"
  /\ Fault
  /\ Answer(TRUE) \/ UNCHANGED responses
  /\ at' = "publishError"
  /\ UNCHANGED <<sockVars, callVars, cur, curMsg, handled, committed>>

PublishError ==
  /\ at = "publishError"
  /\ Answer(FALSE)
  /\ Return(cur)
  /\ UNCHANGED <<sockVars, callVars, committed, faults>>

\* The failure of the catch block is swallowed.
Mutant_PublishErrorFails ==
  /\ at = "publishError"
  /\ Fault
  /\ Answer(FALSE) \/ UNCHANGED responses
  /\ Return(cur)
  /\ UNCHANGED <<sockVars, callVars, committed>>

\* The catch block throws: the handler's promise is rejected and kafkajs runs it again.
PublishErrorFails ==
  /\ at = "publishError"
  /\ Fault
  /\ Answer(FALSE) \/ UNCHANGED responses
  /\ at' = "idle"
  /\ cur' = None
  /\ curMsg' = 0
  /\ UNCHANGED <<sockVars, callVars, handled, committed>>

-------------------------------------------------------------------------------
(* kafkajs and the process *)

CommitOffsets ==
  /\ handled # committed
  /\ committed' = handled
  /\ UNCHANGED <<sockVars, callVars, jobVars, handled, responses, faults>>

\* The group rebalances (a handler that waits 30 s outlives the session timeout):
\* what was not committed is delivered again.
Rejoin ==
  /\ at = "idle"
  /\ handled # committed
  /\ Fault
  /\ handled' = committed
  /\ UNCHANGED <<sockVars, callVars, jobVars, committed, responses>>

\* The process restarts: sockets, registry, pending CALLs and the handler are gone.
Restart ==
  /\ Fault
  /\ transport' = [s \in Socket |-> IF transport[s] = "unused" THEN "unused" ELSE "closed"]
  /\ handshake' = [s \in Socket |-> IF handshake[s] = "none" THEN "none" ELSE "done"]
  /\ clients' = [c \in Code |-> None]
  /\ pending' = {}
  /\ fate' = [m \in MsgId |-> IF fate[m] = "waiting" THEN "forgotten" ELSE fate[m]]
  /\ at' = "idle"
  /\ cur' = None
  /\ curMsg' = 0
  /\ handled' = committed
  /\ UNCHANGED <<url, tag, overlapped, counter, callReq, callSock, reply, committed,
                 responses>>

-------------------------------------------------------------------------------
HandshakeStep(s) == Register(s) \/ RejectUnknown(s) \/ Welcome(s)

Take(r) == RefuseRequest(r) \/ SendCommand(r)

Publish == PublishResult \/ PublishError

Next ==
  \/ \E s \in Socket :
       \/ \E c \in Code : Connect(s, c)
       \/ ConnectNameless(s) \/ HandshakeStep(s) \/ HandshakeFails(s)
       \/ Drop(s) \/ HandleDisconnect(s)
  \/ \E r \in Request : Take(r) \/ SendThrows(r)
  \/ \E m \in MsgId : Timeout(m) \/ \E o \in {"result", "error"} : HandleResponse(m, o)
  \/ Publish \/ PublishResultFails \/ PublishErrorFails
  \/ CommitOffsets \/ Rejoin \/ Restart

\* Node runs every callback whose await is done, fires every timer, and kafkajs keeps
\* polling and committing.  Chargers owe nothing: they may never connect, answer or leave.
Fairness ==
  /\ \A s \in Socket : WF_vars(HandshakeStep(s)) /\ WF_vars(HandleDisconnect(s))
  /\ \A r \in Request : WF_vars(Take(r))
  /\ \A m \in MsgId : WF_vars(Timeout(m))
  /\ WF_vars(Publish) /\ WF_vars(CommitOffsets)

Spec == Init /\ [][Next]_vars /\ Fairness

-------------------------------------------------------------------------------
(* Properties *)

\* The table of pending CALLs holds exactly the CALL the consumer awaits: no entry
\* outlives its caller (a leak, and a timer that fires for nobody), and the consumer
\* never awaits a promise nothing can settle (it would block the topic for ever).
PendingIsAwaited == pending = IF at = "awaiting" THEN {curMsg} ELSE {}

\* A success on ocpp.command.response is the charger's own answer to this request: it
\* carries a CALL sent for the request, to the charger the request names, and answered
\* with a CALLRESULT, however late answers of earlier CALLs arrive.
AnswerIsOwn ==
  \A p \in responses : p.ok =>
    /\ p.msg \in MsgId
    /\ callReq[p.msg] = p.req
    /\ reply[p.msg] = "result"
    /\ callSock[p.msg] \in Socket
    /\ url[callSock[p.msg]] = Target[p.req]

\* A request that asks for an answer is not marked consumed before an answer is on the
\* topic, whatever fails or restarts in between.
NoAnswerLost == \A r \in Keyed \cap (handled \cup committed) : \E p \in responses : p.req = r

\* The charger behind socket s is connected: its handshake succeeded and its socket is open.
Connected(s) == transport[s] = "open" /\ handshake[s] = "done"

\* isConnected answers for every connected charger.
ConnectedChargerIsReachable == \A s \in Socket : Connected(s) => clients[url[s]] # None

\* A connected charger whose connections never overlapped can be sent commands, and it is
\* its own socket that is registered.
ReachableUnlessOverlapped ==
  \A s \in Socket : Connected(s) /\ url[s] \notin overlapped => clients[url[s]] = s

\* Each CALL is issued, then settled once; one at a time; and settled in the end.
Promise == INSTANCE CommandPromise
EachCallSettlesOnce == Promise!Spec

\* Every request is consumed in the end, and answered if it asks for an answer, though
\* chargers may stay silent and faults strike MaxFaults times.
EveryRequestCompletes ==
  \A r \in Request :
    <>(r \in committed /\ (r \in Keyed => \E p \in responses : p.req = r))
===============================================================================
