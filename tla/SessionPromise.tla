---------------------------- MODULE SessionPromise ----------------------------
(***************************************************************************)
(* What SessionManagerService promises whoever looks at a charging         *)
(* session, in Redis (getSession) or in the table ChargingSession, and     *)
(* nothing about topics, offsets, handlers or restarts.  A session is      *)
(* shown once its charger has begun it, and never with more energy than    *)
(* the charger has counted.  It is completed after the charger has         *)
(* stopped, and opened again only by a message that is delivered           *)
(* repeatedly.  It is recorded once, after the stop, and the record is     *)
(* what was shown.  A session that no failure has hit does not vanish, and *)
(* is completed and recorded with the charger's last count.                *)
(***************************************************************************)
EXTENDS Naturals

CONSTANTS
  Txn,      \* transaction ids
  Meter,    \* readings of a charger's energy register
  None

VARIABLES
  life,       \* life[t]: "none", "charging", "stopped": the charger's side of t
  register,   \* register[t]: what the charger has counted
  shown,      \* shown[t]: the session in Redis
  record,     \* record[t]: the energy in the table, or None
  doubtful,   \* transactions hit by a failed call, or by the expiry of their key
  repeated    \* transactions of which a message was delivered again

promise == <<life, register, shown, record, doubtful, repeated>>

Nothing == [status |-> "none", energy |-> 0]
Opened == [status |-> "ACTIVE", energy |-> 0]

Init ==
  /\ life = [t \in Txn |-> "none"]
  /\ register = [t \in Txn |-> 0]
  /\ shown = [t \in Txn |-> Nothing]
  /\ record = [t \in Txn |-> None]
  /\ doubtful = {} /\ repeated = {}

\* The charger begins, counts and stops.
Begin(t) == life[t] = "none" /\ life' = [life EXCEPT ![t] = "charging"]
Continue(t) == life[t] = "charging" /\ UNCHANGED life
Stop(t) == life[t] = "charging" /\ life' = [life EXCEPT ![t] = "stopped"]

Charge(t) ==
  /\ Begin(t) \/ Continue(t) \/ Stop(t)
  /\ \E v \in Meter : v >= register[t] /\ register' = [register EXCEPT ![t] = v]
  /\ UNCHANGED <<shown, record, repeated>>

\* The session is opened, when there is none or for a second time ...
Open(t) ==
  /\ life[t] # "none"
  /\ shown[t] = Nothing \/ t \in repeated
  /\ shown' = [shown EXCEPT ![t] = Opened]

\* ... shows an earlier count of the charger's, perhaps not in their order ...
Read(t) ==
  /\ shown[t] # Nothing
  /\ \E v \in Meter : v <= register[t] /\ shown' = [shown EXCEPT ![t].energy = v]

\* ... is completed ...
Close(t) ==
  /\ life[t] = "stopped" /\ shown[t] # Nothing
  /\ t \notin doubtful => shown[t].energy = register[t]
  /\ shown' = [shown EXCEPT ![t].status = "COMPLETED"]

\* ... and may be lost.
Vanish(t) == t \in doubtful' /\ shown' = [shown EXCEPT ![t] = Nothing]

Show(t) ==
  /\ Open(t) \/ Read(t) \/ Close(t) \/ Vanish(t)
  /\ UNCHANGED <<life, register, record, repeated>>

Keep(t) ==
  /\ life[t] = "stopped" /\ shown[t] # Nothing /\ record[t] = None
  /\ t \notin doubtful => shown[t] = [status |-> "COMPLETED", energy |-> register[t]]
  /\ record' = [record EXCEPT ![t] = shown[t].energy]
  /\ UNCHANGED <<life, register, shown, repeated>>

\* A message comes (again), or a call fails, and nothing is to be seen of it.
Hide(t) ==
  /\ repeated' \in {repeated, repeated \cup {t}}
  /\ UNCHANGED <<life, register, shown, record>>

Next == \E t \in Txn :
  /\ Charge(t) \/ Show(t) \/ Keep(t) \/ Hide(t)
  /\ doubtful' \in {doubtful, doubtful \cup {t}}

Spec == Init /\ [][Next]_promise
===============================================================================
