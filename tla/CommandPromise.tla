---------------------------- MODULE CommandPromise ----------------------------
(***************************************************************************)
(* What OcppCommandService.sendCommand promises its caller, and nothing    *)
(* about sockets, timers or topics: every CALL that is issued is settled   *)
(* once, for one reason, and stays settled; the engine has one CALL        *)
(* outstanding at a time; and no CALL waits for ever.                      *)
(***************************************************************************)
CONSTANTS
  MsgId,     \* OCPP message ids
  Outcome    \* the reasons for which a CALL is settled

VARIABLE fate    \* fate[m]: "unused", "waiting" or the outcome of CALL m

Init == fate = [m \in MsgId |-> "unused"]

Issue(m) ==
  /\ fate[m] = "unused"
  /\ \A n \in MsgId : fate[n] # "waiting"
  /\ fate' = [fate EXCEPT ![m] = "waiting"]

Settle(m) ==
  /\ fate[m] = "waiting"
  /\ \E o \in Outcome : fate' = [fate EXCEPT ![m] = o]

\* A CALL whose send fails at once, or that reaches no one, is settled as it is issued.
IssueAndSettle(m) ==
  /\ fate[m] = "unused"
  /\ \A n \in MsgId : fate[n] # "waiting"
  /\ \E o \in Outcome : fate' = [fate EXCEPT ![m] = o]

Next == \E m \in MsgId : Issue(m) \/ Settle(m) \/ IssueAndSettle(m)

Fairness == \A m \in MsgId : WF_fate(Settle(m))

Spec == Init /\ [][Next]_fate /\ Fairness
===============================================================================
