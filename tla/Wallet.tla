-------------------------------- MODULE Wallet --------------------------------
(***************************************************************************)
(* Wallets of the API (WalletService): the calls that move money, running  *)
(* concurrently, each suspended at every query it awaits.                  *)
(*                                                                         *)
(* A call reads its wallets first (getWallet, which creates a missing      *)
(* row), decides on what it has read, and only then opens a transaction.   *)
(* In the transaction an UPDATE holds the row until the commit, and what   *)
(* it wrote shows at the commit (PostgreSQL, READ COMMITTED).  creditWallet *)
(* and chargeWallet write a balance computed from the earlier read;        *)
(* transfer lets the database increment and decrement.                     *)
(***************************************************************************)
EXTENDS Integers, FiniteSets

CONSTANTS
  User,
  Job,        \* calls of the service; each runs once
  Call,       \* what a job may be asked: the records of CallType that are tried
  MaxOpening, \* bound: balance of a wallet at the start
  MaxFaults,  \* bound: transactions the database gives up, restarts of the API
  None

CallType == [op : {"get", "charge", "credit", "lock", "unlock", "transfer"},
             from : User, to : User, amount : Nat]

ASSUME WalletAssumption ==
  /\ Call \subseteq CallType
  /\ MaxOpening \in Nat
  /\ MaxFaults \in Nat
  /\ None \notin Job \cup Call

VARIABLES
  wallets,    \* users that have a wallet row
  balance,    \* the balance column
  locked,     \* the locked column
  net,        \* credits less debits over the rows of WalletTransaction
  rowLock,    \* the job whose open transaction has updated the user's wallet
  pc,         \* the await a job stands at, or how it ended
  call,       \* the call a job runs
  seen,       \* seen[j]: balance and locked of the from-wallet as j read them
  faults,
  staleWrite, \* users whose balance was overwritten from an outdated read
  overdrawn,  \* users that a transfer took below zero
  frozen      \* jobs whose from-wallet has been locked since before they started

rows == <<wallets, balance, locked, net, rowLock>>
jobs == <<pc, call, seen>>
history == <<staleWrite, overdrawn, frozen>>
vars == <<rows, jobs, faults, history>>

Reading == {"find", "create", "findTo", "createTo"}
InTransaction == {"update", "updateTo", "commit"}
Ended == {"done", "rejected", "failed"}

TypeOK ==
  /\ wallets \in SUBSET User
  /\ balance \in [User -> Int]
  /\ locked \in [User -> BOOLEAN]
  /\ net \in [User -> Int]
  /\ rowLock \in [User -> Job \cup {None}]
  /\ pc \in [Job -> {"new", "setLock"} \cup Reading \cup InTransaction \cup Ended]
  /\ call \in [Job -> Call \cup {None}]
  /\ seen \in [Job -> [balance : Int, locked : BOOLEAN]]
  /\ faults \in 0..MaxFaults
  /\ staleWrite \in SUBSET User
  /\ overdrawn \in SUBSET User
  /\ frozen \in SUBSET Job

Unread == [balance |-> 0, locked |-> FALSE]

\* Any wallets whose rows agree with their balance.
Init ==
  /\ wallets \in SUBSET User
  /\ balance \in [User -> 0..MaxOpening]
  /\ \A u \in User \ wallets : balance[u] = 0
  /\ net = balance
  /\ locked = [u \in User |-> FALSE]
  /\ rowLock = [u \in User |-> None]
  /\ pc = [j \in Job |-> "new"]
  /\ call = [j \in Job |-> None]
  /\ seen = [j \in Job |-> Unread]
  /\ faults = 0
  /\ staleWrite = {}
  /\ overdrawn = {}
  /\ frozen = {}

Op(j) == call[j].op
From(j) == call[j].from
To(j) == call[j].to
Amount(j) == call[j].amount

Goto(j, l) == pc' = [pc EXCEPT ![j] = l]

\* A request arrives at the controller and calls the service.
Start(j, c) ==
  /\ pc[j] = "new"
  /\ call' = [call EXCEPT ![j] = c]
  /\ Goto(j, "find")
  /\ frozen' = IF locked[c.from] THEN frozen \cup {j} ELSE frozen
  /\ UNCHANGED <<rows, seen, faults, staleWrite, overdrawn>>

-------------------------------------------------------------------------------
(* Before the transaction *)

\* The balance is left to the database.
Mutant_Refused(o, v, a) == o \in {"charge", "transfer"} /\ v.locked

\* transfer does not ask whether the sender is locked.
Mutant_RefusedUnlocked(o, v, a) ==
  o \in {"charge", "transfer"} /\ ((o = "charge" /\ v.locked) \/ v.balance < a)

\* A locked or short wallet is not debited; the lock does not stop credits.
Refused(o, v, a) == o \in {"charge", "transfer"} /\ (v.locked \/ v.balance < a)

\* The label a call goes to once getWallet has returned v for the from-wallet.
AfterFrom(j, v) ==
  CASE Op(j) = "get" -> "done"
    [] Op(j) \in {"lock", "unlock"} -> "setLock"
    [] Op(j) = "transfer" -> "findTo"
    [] OTHER -> IF Refused(Op(j), v, Amount(j)) THEN "rejected" ELSE "update"

AfterTo(j) == IF Refused("transfer", seen[j], Amount(j)) THEN "rejected" ELSE "update"

\* The query selects the balance only.
Mutant_Fetched(j, v) ==
  /\ seen' = [seen EXCEPT ![j] = [balance |-> v.balance]]
  /\ Goto(j, AfterFrom(j, v))

Fetched(j, v) ==
  /\ seen' = [seen EXCEPT ![j] = v]
  /\ Goto(j, AfterFrom(j, v))

\* getWallet(from): findUnique, and create for a user without a row.
Find(j) ==
  /\ pc[j] = "find"
  /\ LET u == From(j) IN
       IF u \in wallets
       THEN Fetched(j, [balance |-> balance[u], locked |-> locked[u]])
       ELSE Goto(j, "create") /\ UNCHANGED seen
  /\ UNCHANGED <<rows, call, faults, history>>

\* Two calls may both have missed the row: the unique key on userId fails the second.
Create(j) ==
  /\ pc[j] = "create"
  /\ wallets' = wallets \cup {From(j)}
  /\ IF From(j) \in wallets
     THEN Goto(j, "failed") /\ UNCHANGED seen
     ELSE Fetched(j, Unread)
  /\ UNCHANGED <<balance, locked, net, rowLock, call, faults, history>>

\* getWallet(to), then the checks of transfer on what was read of the sender.
FindTo(j) ==
  /\ pc[j] = "findTo"
  /\ Goto(j, IF To(j) \in wallets THEN AfterTo(j) ELSE "createTo")
  /\ UNCHANGED <<rows, call, seen, faults, history>>

CreateTo(j) ==
  /\ pc[j] = "createTo"
  /\ wallets' = wallets \cup {To(j)}
  /\ Goto(j, IF To(j) \in wallets THEN "failed" ELSE AfterTo(j))
  /\ UNCHANGED <<balance, locked, net, rowLock, call, seen, faults, history>>

-------------------------------------------------------------------------------
(* Writes *)

Free(u, j) == rowLock[u] \in {None, j}

\* setLockStatus: one UPDATE of another column, which waits for the row like any other.
SetLock(j) ==
  /\ pc[j] = "setLock"
  /\ rowLock[From(j)] = None
  /\ locked' = [locked EXCEPT ![From(j)] = (Op(j) = "lock")]
  /\ frozen' = IF Op(j) = "lock" THEN frozen
               ELSE {k \in frozen : From(k) # From(j)}
  /\ Goto(j, "done")
  /\ UNCHANGED <<wallets, balance, net, rowLock, call, seen, faults, staleWrite, overdrawn>>

\* The first UPDATE of the transaction.
Update(j) ==
  /\ pc[j] = "update"
  /\ Free(From(j), j)
  /\ rowLock' = [rowLock EXCEPT ![From(j)] = j]
  /\ Goto(j, IF Op(j) = "transfer" THEN "updateTo" ELSE "commit")
  /\ UNCHANGED <<wallets, balance, locked, net, call, seen, faults, history>>

\* The second UPDATE runs outside the transaction, on a connection of its own.
Mutant_UpdateTo(j) ==
  /\ pc[j] = "updateTo"
  /\ rowLock[To(j)] = None
  /\ rowLock' = [rowLock EXCEPT ![To(j)] = j]
  /\ Goto(j, "commit")
  /\ UNCHANGED <<wallets, balance, locked, net, call, seen, faults, history>>

\* transfer's second UPDATE; a transfer to oneself holds the row already.
UpdateTo(j) ==
  /\ pc[j] = "updateTo"
  /\ Free(To(j), j)
  /\ rowLock' = [rowLock EXCEPT ![To(j)] = j]
  /\ Goto(j, "commit")
  /\ UNCHANGED <<wallets, balance, locked, net, call, seen, faults, history>>

Released(j) == [u \in User |-> IF rowLock[u] = j THEN None ELSE rowLock[u]]

\* What the transaction of j adds to the transaction history of u.
Posted(j, u) ==
  CASE Op(j) = "credit" -> IF u = From(j) THEN Amount(j) ELSE 0
    [] Op(j) = "charge" -> IF u = From(j) THEN -Amount(j) ELSE 0
    [] OTHER -> (IF u = To(j) THEN Amount(j) ELSE 0) - (IF u = From(j) THEN Amount(j) ELSE 0)

\* The sender's row is debited to a balance computed from the earlier read.
Mutant_NewBalance(j, u) ==
  IF Op(j) = "transfer" /\ u # From(j) THEN balance[u] + Posted(j, u)
  ELSE IF u = From(j) THEN seen[j].balance + Posted(j, u) ELSE balance[u]

\* The balance it leaves: an absolute one, or a relative one for a transfer.
NewBalance(j, u) ==
  IF Op(j) = "transfer" THEN balance[u] + Posted(j, u)
  ELSE IF u = From(j) THEN seen[j].balance + Posted(j, u) ELSE balance[u]

\* The commit shows both rows and their history at once.
Commit(j) ==
  /\ pc[j] = "commit"
  /\ balance' = [u \in User |-> NewBalance(j, u)]
  /\ net' = [u \in User |-> net[u] + Posted(j, u)]
  /\ rowLock' = Released(j)
  /\ staleWrite' = IF Op(j) # "transfer" /\ seen[j].balance # balance[From(j)]
                   THEN staleWrite \cup {From(j)} ELSE staleWrite
  /\ overdrawn' = IF Op(j) = "transfer" /\ NewBalance(j, From(j)) < 0
                  THEN overdrawn \cup {From(j)} ELSE overdrawn
  /\ Goto(j, "done")
  /\ UNCHANGED <<wallets, locked, call, seen, faults, frozen>>

-------------------------------------------------------------------------------
(* Failures *)

Waits(j, k) ==
  /\ k # j
  /\ \/ pc[j] = "update" /\ rowLock[From(j)] = k
     \/ pc[j] = "updateTo" /\ rowLock[To(j)] = k

\* j is on a cycle of transactions that wait for one another.
Deadlocked(j) ==
  \E S \in SUBSET Job : j \in S /\ \A k \in S : \E l \in S : Waits(k, l)

RolledBack(j) ==
  /\ rowLock' = Released(j)
  /\ Goto(j, "failed")
  /\ UNCHANGED <<wallets, balance, locked, net, call, seen, history>>

\* The database breaks a deadlock by failing one of its transactions.
BreakDeadlock(j) ==
  /\ Deadlocked(j)
  /\ RolledBack(j)
  /\ UNCHANGED faults

\* A transaction times out or loses its connection.
Abort(j) ==
  /\ faults < MaxFaults
  /\ pc[j] \in InTransaction
  /\ faults' = faults + 1
  /\ RolledBack(j)

\* The API process restarts: its calls are gone, the database rolls back what was open.
Restart ==
  /\ faults < MaxFaults
  /\ faults' = faults + 1
  /\ rowLock' = [u \in User |-> None]
  /\ pc' = [j \in Job |-> IF pc[j] = "new" \/ pc[j] \in Ended THEN pc[j] ELSE "failed"]
  /\ UNCHANGED <<wallets, balance, locked, net, call, seen, history>>

-------------------------------------------------------------------------------
Read(j) == Find(j) \/ Create(j) \/ FindTo(j) \/ CreateTo(j)

Write(j) == SetLock(j) \/ Update(j) \/ UpdateTo(j) \/ Commit(j)

Next ==
  \/ \E j \in Job :
       \/ \E c \in Call : Start(j, c)
       \/ Read(j) \/ Write(j) \/ BreakDeadlock(j) \/ Abort(j)
  \/ Restart

\* A call that is running goes on when its query is answered, and the database finds every
\* deadlock.  Clients owe nothing: a call need not be made.
Fairness == \A j \in Job : WF_vars(Read(j)) /\ WF_vars(Write(j)) /\ WF_vars(BreakDeadlock(j))

Spec == Init /\ [][Next]_vars /\ Fairness

-------------------------------------------------------------------------------
(* Properties *)

\* Whatever transactions interleave, fail or are rolled back, the transaction history
\* explains the balance, unless a credit or a charge overwrote a newer balance.
HistoryExplainsBalance == \A u \in User \ staleWrite : balance[u] = net[u]

\* Only a transfer that was checked against an outdated balance takes a wallet below zero:
\* a charge never does, however stale the balance it has read.
OverdrawnOnlyByTransfer == \A u \in User : balance[u] < 0 => u \in overdrawn

\* A wallet that is locked from before a call starts until it ends is not debited by it.
LockedIsNotDebited ==
  \A j \in frozen : pc[j] = "done" => Op(j) \notin {"charge", "transfer"}

\* The balance check of transfer keeps a wallet from going below zero.
TransfersAreCovered == \A u \in User : balance[u] >= 0

\* Every call that has started ends, two transfers in opposite directions included.
EveryCallEnds == \A j \in Job : pc[j] # "new" ~> pc[j] \in Ended
===============================================================================
