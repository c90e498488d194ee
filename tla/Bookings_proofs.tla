--------------------------- MODULE Bookings_proofs ----------------------------
(***************************************************************************)
(* Proofs about Bookings for every set of calls, connectors and priorities *)
(* and every bound on times.                                               *)
(***************************************************************************)
EXTENDS Bookings, TLAPS

Changing(j, b) == pc[j] \in {"update", "delete"} /\ target[j] = b

\* A booking's call is over once it is in the table; what was in the table was inserted.
DoneInv ==
  /\ \A b \in Booked : pc[b] = "done"
  /\ \A b \in altered \cup ended : pc[b] = "done"
  /\ \A b \in Job : \A a \in saw[b] : pc[a] = "done"
  /\ \A j \in Job : pc[j] = "insert" => new[j] \in Row
  /\ \A j \in Job : pc[j] = "update" => change[j] \in Change

\* A row that is in the way of a booking that saw it ranks lower: while the insert is
\* pending, and from then on until one of the two is altered.
RankInv ==
  \A b \in Job : \A a \in (saw[b] \cap Booked) \ altered :
    /\ pc[b] = "insert" /\ Blocks(row[a], new[b].slot) => row[a].score < new[b].score
    /\ b \in Booked \ altered /\ Blocks(row[a], row[b].slot) => row[a].score < row[b].score

\* Two calls that change one booking have been noticed; without them nobody is about to
\* update a booking that is final.
RaceInv ==
  /\ \A j, k \in Job : \A b \in Job : j # k /\ Changing(j, b) /\ Changing(k, b) => b \in raced
  /\ \A b \in ended \ raced : \A j \in Job : pc[j] = "update" => target[j] # b

IInv == TypeOK /\ DoneInv /\ RankInv /\ RaceInv /\ FinalUnlessRaced

-------------------------------------------------------------------------------
\* The initial state satisfies every part.
LEMMA InitInv == Init => IInv
  <1> SUFFICES ASSUME Init PROVE IInv
    OBVIOUS
  <1> USE DEF Init, Booked
  <1>1. TypeOK
    BY DEF TypeOK
  <1>2. DoneInv /\ RankInv /\ RaceInv /\ FinalUnlessRaced
    BY DEF DoneInv, RankInv, RaceInv, FinalUnlessRaced, Changing
  <1> QED
    BY <1>1, <1>2 DEF IInv

\* A check sees the table as it is: what it lets pass outranks whatever is in the way.
LEMMA CheckInv ==
  ASSUME NEW j \in Job, NEW s \in Slot, NEW p \in Priority \cup {0}, NEW ok \in BOOLEAN,
         ok => \A b \in InTheWay(s) : row[b].score < p,
         IInv, CheckSlot(j, s, p, ok)
  PROVE  IInv'
  <1> DEFINE r == [slot |-> s, score |-> p, status |-> "CONFIRMED"]
  <1> USE DEF IInv, CheckSlot, Goto, table, Booked
  <1>0. r \in Row /\ r.slot = s /\ r.score = p
    BY DEF Row, Status, Live
  <1>1. TypeOK'
    BY <1>0 DEF TypeOK
  <1>2. DoneInv'
    BY <1>0 DEF TypeOK, DoneInv
  <1>3. RankInv'
    BY <1>0 DEF TypeOK, RankInv, DoneInv, InTheWay, Blocks
  <1>4. RaceInv'
    BY DEF TypeOK, RaceInv, Changing
  <1>5. FinalUnlessRaced'
    BY DEF FinalUnlessRaced
  <1> QED
    BY <1>1, <1>2, <1>3, <1>4, <1>5

\* The booking takes its place with the slot and the score that were checked.
LEMMA InsertInv ==
  ASSUME NEW j \in Job, IInv, Insert(j) PROVE IInv'
  <1> USE DEF IInv, Insert, Goto, Booked
  <1>1. TypeOK'
    BY DEF TypeOK, DoneInv
  <1>2. DoneInv'
    BY DEF TypeOK, DoneInv
  <1>3. RankInv'
    BY NoRowAssumption DEF TypeOK, RankInv, DoneInv, Blocks
  <1>4. RaceInv'
    BY DEF TypeOK, RaceInv, Changing
  <1>5. FinalUnlessRaced'
    BY DEF TypeOK, FinalUnlessRaced, DoneInv
  <1> QED
    BY <1>1, <1>2, <1>3, <1>4, <1>5

\* A lookup finds no booking to update that is final, and notices another call's change.
LEMMA FindInv ==
  ASSUME NEW j \in Job, NEW b \in Job, NEW l \in {"update", "delete"},
         IInv, Find(j, b, l),
         \/ l = "delete" /\ UNCHANGED change
         \/ \E c \in Change : change' = [change EXCEPT ![j] = c]
  PROVE  IInv'
  <1> USE DEF IInv, Find, Goto, table, Booked
  <1>1. TypeOK'
    BY DEF TypeOK
  <1>2. DoneInv'
    BY DEF TypeOK, DoneInv
  <1>3. RankInv'
    BY DEF TypeOK, RankInv, DoneInv, Blocks
  <1>4. RaceInv'
    BY DEF TypeOK, RaceInv, Changing, FinalUnlessRaced
  <1>5. FinalUnlessRaced'
    BY DEF FinalUnlessRaced
  <1> QED
    BY <1>1, <1>2, <1>3, <1>4, <1>5

\* The row that an update leaves: a row, of the same score.
LEMMA AppliedRow ==
  ASSUME NEW c \in Change, NEW r \in Row
  PROVE  Applied(c, r) \in Row /\ Applied(c, r).score = r.score
  <1>1. Or(c.from, r.slot.from) \in Time /\ Or(c.to, r.slot.to) \in Time
    BY DEF Change, Row, Slot, Or
  <1>2. Or(c.status, r.status) \in Status
    BY DEF Change, Row, Or
  <1> QED
    BY <1>1, <1>2 DEF Applied, Row, Slot

\* An update that alters nothing leaves the slot, and leaves the booking out of force if it
\* was; a booking that is not raced was not final when it was looked up, nor is it now.
LEMMA UpdateInv ==
  ASSUME NEW j \in Job, IInv, Update(j) PROVE IInv'
  <1> DEFINE b == target[j]
             r == Applied(change[j], row[b])
  <1> USE DEF IInv
  <1>1. CASE b \notin Booked
    <2> USE <1>1 DEF Update, Goto, table, Booked
    <2>1. TypeOK' /\ DoneInv'
      BY DEF TypeOK, DoneInv
    <2>2. RankInv'
      BY DEF TypeOK, RankInv, DoneInv, Blocks
    <2>3. RaceInv' /\ FinalUnlessRaced'
      BY DEF TypeOK, RaceInv, Changing, FinalUnlessRaced
    <2> QED
      BY <2>1, <2>2, <2>3
  <1>2. CASE b \in Booked
    <2>1. b \in Job /\ row[b] \in Row /\ row[b] # None /\ pc[j] = "update" /\ change[j] \in Change
      BY <1>2 DEF TypeOK, Booked, Update, DoneInv
    <2>2. r \in Row /\ r.score = row[b].score /\ r # None
      BY <2>1, AppliedRow, NoRowAssumption
    <2> DEFINE al == IF Alters(row[b], r) THEN altered \cup {b} ELSE altered
               en == IF r.status \in Final THEN ended \cup {b} ELSE ended
    <2>3. /\ row' = [row EXCEPT ![b] = r] /\ altered' = al /\ ended' = en
          /\ pc' = [pc EXCEPT ![j] = "done"]
          /\ UNCHANGED <<target, new, change, saw, raced>>
      BY <1>2, <2>1 DEF Update, Goto
    <2> HIDE DEF r
    <2>4. Booked' = Booked
      BY <2>1, <2>2, <2>3 DEF Booked, TypeOK
    <2>5. TypeOK'
      BY <2>1, <2>2, <2>3 DEF TypeOK
    <2>6. DoneInv'
      BY <1>2, <2>1, <2>3, <2>4 DEF TypeOK, DoneInv
    <2>7. ASSUME NEW a \in Booked \ altered' PROVE /\ row'[a].slot = row[a].slot
                                                   /\ row'[a].score = row[a].score
                                                   /\ row'[a].status \in Live => row[a].status \in Live
      BY <2>1, <2>2, <2>3, <2>7 DEF TypeOK, Alters, Booked
    <2>8. RankInv'
      BY <2>1, <2>3, <2>4, <2>7 DEF TypeOK, RankInv, Blocks, Booked
    <2>9. RaceInv'
      BY <2>1, <2>3 DEF TypeOK, RaceInv, Changing
    <2>10. FinalUnlessRaced'
      BY <2>1, <2>2, <2>3, <2>4 DEF TypeOK, FinalUnlessRaced, RaceInv, Changing, Booked
    <2> QED
      BY <2>5, <2>6, <2>8, <2>9, <2>10
  <1> QED
    BY <1>1, <1>2

\* A booking that is gone is in nobody's way, and does not come back.
LEMMA DeleteInv ==
  ASSUME NEW j \in Job, IInv, Delete(j) PROVE IInv'
  <1> USE DEF IInv, Delete, Goto, Booked
  <1>1. TypeOK'
    BY DEF TypeOK
  <1>2. DoneInv'
    BY DEF TypeOK, DoneInv
  <1>3. RankInv'
    BY DEF TypeOK, RankInv, Blocks
  <1>4. RaceInv'
    BY DEF TypeOK, RaceInv, Changing
  <1>5. FinalUnlessRaced'
    BY DEF TypeOK, FinalUnlessRaced
  <1> QED
    BY <1>1, <1>2, <1>3, <1>4, <1>5

\* A call that ends early changes nothing but its own place.
LEMMA GiveUpInv ==
  ASSUME NEW j \in Job, IInv, GiveUp(j) PROVE IInv'
  <1> USE DEF IInv, GiveUp, Goto, table, Booked
  <1>1. TypeOK' /\ DoneInv'
    BY DEF TypeOK, DoneInv
  <1>2. RankInv'
    BY DEF TypeOK, RankInv, Blocks
  <1>3. RaceInv' /\ FinalUnlessRaced'
    BY DEF TypeOK, RaceInv, Changing, FinalUnlessRaced
  <1> QED
    BY <1>1, <1>2, <1>3

-------------------------------------------------------------------------------
\* IInv holds in every reachable state.
THEOREM Invariance == Spec => []IInv
  <1>1. IInv /\ [Next]_vars => IInv'
    <2> SUFFICES ASSUME IInv, [Next]_vars PROVE IInv'
      OBVIOUS
    <2>1. ASSUME NEW j \in Job, NEW s \in Slot, CheckBooking(j, s) PROVE IInv'
      <3>1. (s.from < s.to /\ InTheWay(s) = {}) \in BOOLEAN
        OBVIOUS
      <3> QED
        BY <2>1, <3>1, CheckInv DEF CheckBooking
    <2>2. ASSUME NEW j \in Job, NEW s \in Slot, NEW p \in Priority, CheckFleetBooking(j, s, p)
          PROVE  IInv'
      BY <2>2, CheckInv DEF CheckFleetBooking
    <2>3. ASSUME NEW j \in Job, NEW b \in Job, NEW f \in Time \cup {None},
                 NEW t \in Time \cup {None}, FindToMove(j, b, f, t)
          PROVE  IInv'
      <3>1. [from |-> f, to |-> t, status |-> None] \in Change
        BY DEF Change
      <3> QED
        BY <2>3, <3>1, FindInv DEF FindToMove
    <2>4. ASSUME NEW j \in Job, NEW b \in Job, NEW s \in Status, FindToSet(j, b, s) PROVE IInv'
      <3>1. [from |-> None, to |-> None, status |-> s] \in Change
        BY DEF Change
      <3> QED
        BY <2>4, <3>1, FindInv DEF FindToSet
    <2>5. ASSUME NEW j \in Job, NEW b \in Job, FindToRemove(j, b) PROVE IInv'
      BY <2>5, FindInv DEF FindToRemove
    <2>6. ASSUME NEW j \in Job, Insert(j) \/ Update(j) \/ Delete(j) \/ GiveUp(j) PROVE IInv'
      BY <2>6, InsertInv, UpdateInv, DeleteInv, GiveUpInv
    <2>7. CASE UNCHANGED vars
      <3> USE <2>7 DEF IInv, vars, table, calls, Booked
      <3>1. TypeOK' /\ DoneInv'
        BY DEF TypeOK, DoneInv
      <3>2. RankInv'
        BY DEF RankInv, Blocks
      <3>3. RaceInv' /\ FinalUnlessRaced'
        BY DEF RaceInv, Changing, FinalUnlessRaced
      <3> QED
        BY <3>1, <3>2, <3>3
    <2> QED
      BY <2>1, <2>2, <2>3, <2>4, <2>5, <2>6, <2>7 DEF Next
  <1> QED
    BY InitInv, <1>1, PTL DEF Spec

\* Every variable of the booking service keeps its type.
THEOREM TypeCorrect == Spec => []TypeOK
  BY Invariance, PTL DEF IInv

\* Two bookings clash only if they were checked at the same time, or for one of the two
\* reasons that the checks let pass, unless one of them was altered later.
THEOREM ClashesAreExplained == Spec => []ClashIsExplained
  <1>1. IInv => ClashIsExplained
    BY DEF IInv, RankInv, ClashIsExplained, Clash, Blocks, Overlap, SameConnector
  <1> QED
    BY Invariance, <1>1, PTL

\* What is final stays final unless two calls were changing it at the same time.
THEOREM FinalStaysFinal == Spec => []FinalUnlessRaced
  BY Invariance, PTL DEF IInv
===============================================================================
