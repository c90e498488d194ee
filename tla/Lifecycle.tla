------------------------------- MODULE Lifecycle -------------------------------
(***************************************************************************)
(* What a service that checks a status before it changes it promises of    *)
(* its records: each goes from stage to stage as the checks allow, until a *)
(* call changes it that did not know the record as it was by then.  From   *)
(* then on the record is doubtful, and anything may have become of it.     *)
(* Rows, queries and calls are not in sight.                               *)
(***************************************************************************)
CONSTANTS
  Item,    \* records
  Stage,   \* what can be told apart of a record
  Absent,  \* the stage when there is none
  Move     \* pairs of stages: what the checks of the service allow

VARIABLES stage, doubtful

Init == stage = [i \in Item |-> Absent] /\ doubtful = {}

\* The record goes on as the checks allow.
Proceeds(i) == <<stage[i], stage'[i]>> \in Move /\ i \notin doubtful \cup doubtful'

\* Whatever becomes of it, a call changed it that did not know it, now or before.
Doubted(i) == i \in doubtful'

\* Its name is given to a new record, of which nothing is in doubt.
Renewed(i) == stage[i] = Absent /\ stage'[i] = Absent /\ i \notin doubtful'

Rests(i) == stage'[i] = stage[i] /\ i \notin doubtful \cup doubtful'

\* One query may change several records.
Next ==
  /\ stage' \in [Item -> Stage] /\ doubtful' \subseteq Item
  /\ \A i \in Item : Proceeds(i) \/ Doubted(i) \/ Renewed(i) \/ Rests(i)

Spec == Init /\ [][Next]_<<stage, doubtful>>
===============================================================================
