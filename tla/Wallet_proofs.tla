---------------------------- MODULE Wallet_proofs ----------------------------
(***************************************************************************)
(* Proofs about Wallet for every set of users, jobs and calls.  The        *)
(* inductive invariant ties the await a job stands at to what it has read: *)
(* a job that is going to write has passed the checks on its own, possibly *)
(* outdated, view of the sender.                                           *)
(***************************************************************************)
EXTENDS Wallet, TLAPS

\* A job has a call from its start on, and stands only at awaits of that call.
PcInv ==
  \A j \in Job :
    /\ pc[j] # "new" => call[j] \in Call
    /\ pc[j] \in {"findTo", "createTo", "updateTo"} => Op(j) = "transfer"
    /\ pc[j] = "setLock" => Op(j) \in {"lock", "unlock"} /\ From(j) \in wallets
    /\ pc[j] \in {"update", "commit"} => Op(j) \in {"charge", "credit", "transfer"}

\* A job reads zero until it reads, and a negative balance only of an overdrawn wallet; a
\* charge that is going to be written was covered by what it read.
SeenInv ==
  \A j \in Job :
    /\ pc[j] = "new" => seen[j].balance = 0
    /\ seen[j].balance < 0 => From(j) \in overdrawn
    /\ pc[j] \in {"update", "commit"} /\ Op(j) = "charge" => seen[j].balance >= Amount(j)

\* Only rows that exist are locked; a debit by a job that is frozen out has not got past
\* its checks, and will not.
FrozenInv ==
  /\ \A u \in User : locked[u] => u \in wallets
  /\ \A j \in frozen :
       /\ pc[j] # "new"
       /\ locked[From(j)]
       /\ Op(j) \in {"charge", "transfer"} =>
            /\ pc[j] \in Reading \cup {"rejected", "failed"}
            /\ pc[j] \in {"findTo", "createTo"} => seen[j].locked

IInv ==
  /\ TypeOK
  /\ PcInv
  /\ SeenInv
  /\ FrozenInv
  /\ HistoryExplainsBalance
  /\ OverdrawnOnlyByTransfer

-------------------------------------------------------------------------------
\* The initial state satisfies every part.
LEMMA InitInv == Init => IInv
  <1> SUFFICES ASSUME Init PROVE IInv
    OBVIOUS
  <1> USE WalletAssumption DEF Init, Unread
  <1>1. \A u \in User : balance[u] \in Int /\ balance[u] >= 0
    OBVIOUS
  <1>2. balance \in [User -> Int]
    OBVIOUS
  <1>3. TypeOK
    BY <1>2 DEF TypeOK, Reading, InTransaction, Ended
  <1>4. PcInv /\ SeenInv /\ FrozenInv
    BY DEF PcInv, SeenInv, FrozenInv
  <1>5. HistoryExplainsBalance /\ OverdrawnOnlyByTransfer
    BY <1>1 DEF HistoryExplainsBalance, OverdrawnOnlyByTransfer
  <1>6. QED
    BY <1>3, <1>4, <1>5 DEF IInv

\* The fields of a call.
LEMMA CallFields ==
  ASSUME NEW c \in Call
  PROVE  /\ c.op \in {"get", "charge", "credit", "lock", "unlock", "transfer"}
         /\ c.from \in User /\ c.to \in User /\ c.amount \in Nat
  BY WalletAssumption DEF CallType

\* A step of j that moves j alone and leaves the money alone.
LEMMA MoneyFrame ==
  ASSUME HistoryExplainsBalance, OverdrawnOnlyByTransfer,
         UNCHANGED <<balance, net, staleWrite, overdrawn>>
  PROVE  HistoryExplainsBalance' /\ OverdrawnOnlyByTransfer'
  BY DEF HistoryExplainsBalance, OverdrawnOnlyByTransfer

-------------------------------------------------------------------------------
\* The arrival of a call.
LEMMA StartStep ==
  ASSUME IInv, NEW j \in Job, NEW c \in Call, Start(j, c)
  PROVE  IInv'
  <1> USE DEF IInv
  <1>1. c.from \in User /\ c # None
    BY CallFields, WalletAssumption
  <1>2. TypeOK'
    BY DEF TypeOK, Start, Goto, rows, Reading
  <1>3. PcInv'
    BY DEF TypeOK, PcInv, Start, Goto, rows, Op, From
  <1>4. SeenInv'
    BY DEF TypeOK, SeenInv, Start, Goto, rows, Op, From, Amount
  <1>5. FrozenInv'
    BY <1>1 DEF TypeOK, FrozenInv, Start, Goto, rows, Op, From, Reading
  <1>6. HistoryExplainsBalance' /\ OverdrawnOnlyByTransfer'
    BY MoneyFrame DEF Start, rows
  <1>7. QED
    BY <1>2, <1>3, <1>4, <1>5, <1>6

\* What getWallet and the checks that follow it come to, for a view v of the sender.
LEMMA FetchedStep ==
  ASSUME IInv, NEW j \in Job, pc[j] \in {"find", "create"},
         NEW v \in [balance : Int, locked : BOOLEAN], Fetched(j, v),
         v.balance < 0 => From(j) \in overdrawn,
         v.locked \/ j \notin frozen,
         wallets' \in {wallets, wallets \cup {From(j)}}, From(j) \in wallets',
         UNCHANGED <<balance, locked, net, rowLock, call, faults, history>>
  PROVE  IInv'
  <1> USE DEF IInv, history
  <1>1. /\ Op(j) \in {"get", "charge", "credit", "lock", "unlock", "transfer"}
        /\ From(j) \in User /\ Amount(j) \in Nat /\ call[j] \in Call
    BY CallFields DEF PcInv, Op, From, Amount
  <1>2. AfterFrom(j, v) \in {"done", "setLock", "findTo", "rejected", "update"}
    BY <1>1 DEF AfterFrom
  <1>3. TypeOK'
    BY <1>1, <1>2 DEF TypeOK, Fetched, Goto, Reading, InTransaction, Ended
  <1>4. PcInv'
    BY <1>1, <1>2 DEF TypeOK, PcInv, Fetched, Goto, AfterFrom, Op, From
  <1>5. SeenInv'
    BY <1>1 DEF TypeOK, SeenInv, Fetched, Goto, AfterFrom, Refused, Op, From, Amount
  <1>6. FrozenInv'
    BY <1>1 DEF TypeOK, FrozenInv, Fetched, Goto, AfterFrom, Refused, Op, From, Reading
  <1>7. HistoryExplainsBalance' /\ OverdrawnOnlyByTransfer'
    BY MoneyFrame
  <1>8. QED
    BY <1>3, <1>4, <1>5, <1>6, <1>7

\* The queries of getWallet.
LEMMA ReadStep ==
  ASSUME IInv, NEW j \in Job, Read(j)
  PROVE  IInv'
  <1> USE DEF IInv
  <1>1. CASE Find(j) /\ From(j) \in wallets
    <2> DEFINE v == [balance |-> balance[From(j)], locked |-> locked[From(j)]]
    <2>1. /\ call[j] \in Call /\ From(j) \in User
          /\ v \in [balance : Int, locked : BOOLEAN]
          /\ v.balance = balance[From(j)] /\ v.locked = locked[From(j)]
      BY <1>1, CallFields DEF Find, PcInv, From, TypeOK
    <2>2. pc[j] = "find" /\ Fetched(j, v)
      BY <1>1 DEF Find
    <2>3. v.balance < 0 => From(j) \in overdrawn
      BY <2>1 DEF OverdrawnOnlyByTransfer
    <2>4. v.locked \/ j \notin frozen
      BY <2>1 DEF FrozenInv
    <2>5. UNCHANGED <<wallets, balance, locked, net, rowLock, call, faults, history>>
      BY <1>1 DEF Find, rows
    <2>6. QED
      BY <1>1, <2>1, <2>2, <2>3, <2>4, <2>5, FetchedStep
  <1>2. CASE Create(j) /\ From(j) \notin wallets
    <2>1. Unread \in [balance : Int, locked : BOOLEAN] /\ Unread.balance = 0
      BY DEF Unread
    <2>2. call[j] \in Call /\ From(j) \in User
      BY <1>2, CallFields DEF Create, PcInv, From
    <2>3. j \notin frozen
      BY <1>2, <2>2 DEF FrozenInv
    <2>4. /\ pc[j] = "create" /\ Fetched(j, Unread) /\ wallets' = wallets \cup {From(j)}
          /\ UNCHANGED <<balance, locked, net, rowLock, call, faults, history>>
      BY <1>2 DEF Create
    <2>5. QED
      BY <2>1, <2>3, <2>4, FetchedStep
  <1>3. ASSUME /\ pc[j] \in Reading
               /\ \/ pc[j] = "find" /\ pc'[j] = "create"
                  \/ pc[j] = "create" /\ pc'[j] = "failed"
                  \/ pc[j] = "findTo" /\ pc'[j] \in {AfterTo(j), "createTo"}
                  \/ pc[j] = "createTo" /\ pc'[j] \in {AfterTo(j), "failed"}
               /\ pc' = [pc EXCEPT ![j] = pc'[j]]
               /\ wallets' \in {wallets, wallets \cup {From(j)}, wallets \cup {To(j)}}
               /\ UNCHANGED <<balance, locked, net, rowLock, call, seen, faults, history>>
        PROVE  IInv'
    <2>1. /\ Op(j) \in {"get", "charge", "credit", "lock", "unlock", "transfer"}
          /\ From(j) \in User /\ To(j) \in User /\ Amount(j) \in Nat /\ call[j] \in Call
      BY <1>3, CallFields DEF PcInv, Op, From, To, Amount, Reading
    <2>2. /\ AfterTo(j) \in {"rejected", "update"}
          /\ pc[j] \in {"findTo", "createTo"} => Op(j) = "transfer"
          /\ seen[j].locked => AfterTo(j) = "rejected"
      BY <1>3 DEF AfterTo, Refused, PcInv
    <2>3. TypeOK'
      BY <1>3, <2>1, <2>2 DEF TypeOK, history, Reading, InTransaction, Ended
    <2>4. PcInv'
      BY <1>3, <2>1, <2>2 DEF TypeOK, PcInv, history, Op, From
    <2>5. SeenInv'
      BY <1>3, <2>1, <2>2 DEF TypeOK, SeenInv, history, Op, From, Amount
    <2>6. FrozenInv'
      BY <1>3, <2>1, <2>2 DEF TypeOK, FrozenInv, history, Op, From, Reading
    <2>7. HistoryExplainsBalance' /\ OverdrawnOnlyByTransfer'
      BY <1>3, MoneyFrame DEF history
    <2>8. QED
      BY <2>3, <2>4, <2>5, <2>6, <2>7
  <1>4. CASE Find(j) /\ From(j) \notin wallets
    BY <1>3, <1>4 DEF Find, Goto, rows, Reading, TypeOK
  <1>5. CASE Create(j) /\ From(j) \in wallets
    BY <1>3, <1>5 DEF Create, Goto, Reading, TypeOK
  <1>6. CASE FindTo(j)
    BY <1>3, <1>6 DEF FindTo, Goto, rows, Reading, TypeOK
  <1>7. CASE CreateTo(j)
    BY <1>3, <1>7 DEF CreateTo, Goto, Reading, TypeOK
  <1>8. QED
    BY <1>1, <1>2, <1>4, <1>5, <1>6, <1>7 DEF Read

-------------------------------------------------------------------------------
\* The lock column: unlocking thaws every job of that wallet.
LEMMA SetLockStep ==
  ASSUME IInv, NEW j \in Job, SetLock(j)
  PROVE  IInv'
  <1> USE DEF IInv, SetLock, Goto
  <1>1. Op(j) \in {"lock", "unlock"} /\ From(j) \in User /\ From(j) \in wallets
    BY CallFields DEF PcInv, From
  <1>2. TypeOK'
    BY <1>1 DEF TypeOK, Ended
  <1>3. PcInv'
    BY DEF TypeOK, PcInv, Op, From
  <1>4. SeenInv'
    BY DEF TypeOK, SeenInv, Op, From, Amount
  <1>5. FrozenInv'
    <2>1. \A u \in User : locked'[u] => u \in wallets'
      BY <1>1 DEF TypeOK, FrozenInv
    <2>2. ASSUME NEW k \in frozen' PROVE k \in frozen /\ locked'[From(k)]
      BY <1>1, <2>2 DEF TypeOK, FrozenInv
    <2>3. QED
      BY <1>1, <2>1, <2>2 DEF TypeOK, FrozenInv, Op, From, Reading
  <1>6. HistoryExplainsBalance' /\ OverdrawnOnlyByTransfer'
    BY MoneyFrame
  <1>7. QED
    BY <1>2, <1>3, <1>4, <1>5, <1>6

\* Where a job can stand.
Label == {"new", "setLock"} \cup Reading \cup InTransaction \cup Ended

\* Row locks come and go, jobs go on to the commit or fail, and no row changes.
LEMMA LockFrame ==
  ASSUME IInv, rowLock' \in [User -> Job \cup {None}], pc' \in [Job -> Label],
         \A j \in Job :
           \/ pc'[j] = pc[j]
           \/ pc'[j] = "failed"
           \/ pc[j] = "update" /\ pc'[j] = "updateTo" /\ Op(j) = "transfer"
           \/ pc[j] = "update" /\ pc'[j] = "commit"
           \/ pc[j] = "updateTo" /\ pc'[j] = "commit",
         \A j \in Job : pc'[j] = "failed" => pc[j] # "new",
         faults' \in 0..MaxFaults,
         UNCHANGED <<wallets, balance, locked, net, call, seen, history>>
  PROVE  IInv'
  <1> USE DEF IInv, history
  <1>1. TypeOK'
    BY DEF TypeOK, Label
  <1>2. PcInv'
    BY DEF PcInv, Op, From
  <1>3. SeenInv'
    <2> SUFFICES ASSUME NEW j \in Job
                 PROVE  /\ pc'[j] = "new" => seen[j].balance = 0
                        /\ seen[j].balance < 0 => From(j) \in overdrawn
                        /\ pc'[j] \in {"update", "commit"} /\ Op(j) = "charge" =>
                             seen[j].balance >= Amount(j)
      BY DEF SeenInv, Op, From, Amount
    <2>1. pc'[j] \in {"update", "commit"} /\ Op(j) = "charge" => pc[j] \in {"update", "commit"}
      BY DEF PcInv
    <2>2. QED
      BY <2>1 DEF SeenInv
  <1>4. FrozenInv'
    <2>1. \A j \in frozen :
            /\ pc'[j] # "new"
            /\ locked[From(j)]
            /\ Op(j) \in {"charge", "transfer"} =>
                 /\ pc'[j] \in Reading \cup {"rejected", "failed"}
                 /\ pc'[j] \in {"findTo", "createTo"} => seen[j].locked
      <3> SUFFICES ASSUME NEW j \in frozen
                   PROVE  /\ pc'[j] # "new"
                          /\ locked[From(j)]
                          /\ Op(j) \in {"charge", "transfer"} =>
                               /\ pc'[j] \in Reading \cup {"rejected", "failed"}
                               /\ pc'[j] \in {"findTo", "createTo"} => seen[j].locked
        OBVIOUS
      <3>1. j \in Job
        BY DEF TypeOK
      <3>2. QED
        BY <3>1 DEF FrozenInv, Reading
    <2>2. QED
      BY <2>1 DEF FrozenInv, Op, From
  <1>5. HistoryExplainsBalance' /\ OverdrawnOnlyByTransfer'
    BY MoneyFrame
  <1>6. QED
    BY <1>1, <1>2, <1>3, <1>4, <1>5

\* The UPDATEs of a transaction.
LEMMA UpdateStep ==
  ASSUME IInv, NEW j \in Job, Update(j) \/ UpdateTo(j)
  PROVE  IInv'
  <1>1. /\ From(j) \in User /\ To(j) \in User
        /\ Op(j) \in {"charge", "credit", "transfer"}
    BY CallFields DEF Update, UpdateTo, IInv, PcInv, From, To
  <1>2. rowLock' \in [User -> Job \cup {None}]
    BY <1>1 DEF Update, UpdateTo, IInv, TypeOK
  <1>3. pc' \in [Job -> Label]
    <2>1. pc \in [Job -> Label] /\ {"updateTo", "commit"} \subseteq Label
      BY DEF IInv, TypeOK, Label, InTransaction
    <2>2. QED
      BY <2>1 DEF Update, UpdateTo, Goto
  <1>4. \A k \in Job :
          \/ pc'[k] = pc[k]
          \/ pc[k] = "update" /\ pc'[k] = "updateTo" /\ Op(k) = "transfer"
          \/ pc[k] = "update" /\ pc'[k] = "commit"
          \/ pc[k] = "updateTo" /\ pc'[k] = "commit"
    BY DEF Update, UpdateTo, Goto, IInv, TypeOK
  <1>5. \A k \in Job : pc'[k] = "failed" => pc[k] # "new"
    BY <1>4
  <1>6. faults' \in 0..MaxFaults
        /\ UNCHANGED <<wallets, balance, locked, net, call, seen, history>>
    BY DEF Update, UpdateTo, IInv, TypeOK
  <1>7. QED
    BY <1>2, <1>3, <1>4, <1>5, <1>6, LockFrame

\* Transactions that fail, and restarts.
LEMMA FailureStep ==
  ASSUME IInv, (\E j \in Job : BreakDeadlock(j) \/ Abort(j)) \/ Restart
  PROVE  IInv'
  <1>1. UNCHANGED <<wallets, balance, locked, net, call, seen, history>>
    BY DEF BreakDeadlock, Abort, Restart, RolledBack
  <1>2. faults' \in 0..MaxFaults
    BY WalletAssumption DEF BreakDeadlock, Abort, Restart, IInv, TypeOK
  <1>3. rowLock' \in [User -> Job \cup {None}]
    BY DEF BreakDeadlock, Abort, Restart, RolledBack, Released, IInv, TypeOK
  <1>4. pc' \in [Job -> Label] /\ \A k \in Job :
          pc'[k] = pc[k] \/ (pc'[k] = "failed" /\ pc[k] # "new")
    <2>0. pc \in [Job -> Label] /\ "failed" \in Label
      BY DEF IInv, TypeOK, Label, Ended
    <2>1. CASE Restart
      BY <2>0, <2>1 DEF Restart
    <2>2. ASSUME NEW j \in Job, BreakDeadlock(j) \/ Abort(j)
          PROVE  pc' = [pc EXCEPT ![j] = "failed"] /\ pc[j] # "new"
      <3>1. CASE Abort(j)
        BY <3>1 DEF Abort, RolledBack, Goto, InTransaction
      <3>2. CASE BreakDeadlock(j)
        <4>1. pc[j] \in {"update", "updateTo"}
          BY <3>2 DEF BreakDeadlock, Deadlocked, Waits
        <4>2. QED
          BY <3>2, <4>1 DEF BreakDeadlock, RolledBack, Goto
      <3>3. QED
        BY <2>2, <3>1, <3>2
    <2>3. QED
      BY <2>0, <2>1, <2>2
  <1>5. QED
    BY <1>1, <1>2, <1>3, <1>4, LockFrame

-------------------------------------------------------------------------------
\* The commit: a stale absolute write is noticed, a relative one keeps row and history
\* together, and only a transfer can end below zero.
LEMMA CommitStep ==
  ASSUME IInv, NEW j \in Job, Commit(j)
  PROVE  IInv'
  <1> USE DEF IInv
  <1>1. /\ Op(j) \in {"charge", "credit", "transfer"} /\ pc[j] = "commit"
        /\ From(j) \in User /\ To(j) \in User /\ Amount(j) \in Nat /\ call[j] \in Call
        /\ seen[j].balance \in Int
    BY CallFields DEF Commit, PcInv, From, To, Amount, TypeOK
  <1>2. \A u \in User : Posted(j, u) \in Int /\ NewBalance(j, u) \in Int
    BY <1>1 DEF Posted, NewBalance, TypeOK
  <1>3. /\ balance' \in [User -> Int] /\ net' \in [User -> Int]
        /\ \A u \in User : balance'[u] = NewBalance(j, u) /\ net'[u] = net[u] + Posted(j, u)
    BY <1>2 DEF Commit, TypeOK
  <1>4. pc' = [pc EXCEPT ![j] = "done"] /\ UNCHANGED <<wallets, locked, call, seen, faults, frozen>>
    BY DEF Commit, Goto
  <1>5. /\ staleWrite \subseteq staleWrite' /\ staleWrite' \subseteq User
        /\ overdrawn \subseteq overdrawn' /\ overdrawn' \subseteq User
        /\ rowLock' \in [User -> Job \cup {None}]
    BY <1>1 DEF Commit, Released, TypeOK
  <1>6. TypeOK'
    BY <1>3, <1>4, <1>5 DEF TypeOK, Ended
  <1>7. PcInv'
    <2>1. \A k \in Job : pc'[k] = pc[k] \/ (pc'[k] = "done" /\ call[k] \in Call)
      BY <1>1, <1>4 DEF TypeOK
    <2>2. QED
      BY <1>4, <2>1 DEF PcInv, Op, From
  <1>8. SeenInv'
    BY <1>4, <1>5 DEF TypeOK, SeenInv, Op, From, Amount
  <1>9. FrozenInv'
    <2>1. j \in frozen => Op(j) = "credit"
      BY <1>1 DEF FrozenInv, Reading
    <2>2. QED
      BY <1>4, <2>1 DEF TypeOK, FrozenInv, Op, From, Reading
  <1>10. HistoryExplainsBalance'
    <2> SUFFICES ASSUME NEW u \in User, u \notin staleWrite' PROVE balance'[u] = net'[u]
      BY DEF HistoryExplainsBalance
    <2>1. balance[u] = net[u] /\ balance[u] \in Int
      BY <1>5 DEF HistoryExplainsBalance, TypeOK
    <2>2. Op(j) # "transfer" /\ u = From(j) => seen[j].balance = balance[u]
      BY DEF Commit
    <2>3. Op(j) # "transfer" /\ u # From(j) => Posted(j, u) = 0
      BY <1>1 DEF Posted
    <2>4. NewBalance(j, u) = balance[u] + Posted(j, u)
      BY <1>1, <1>2, <2>1, <2>2, <2>3 DEF NewBalance
    <2>5. QED
      BY <1>3, <2>1, <2>4
  <1>11. OverdrawnOnlyByTransfer'
    <2> SUFFICES ASSUME NEW u \in User, balance'[u] < 0, u \notin overdrawn' PROVE FALSE
      BY DEF OverdrawnOnlyByTransfer
    <2>1. u \notin overdrawn /\ balance[u] >= 0 /\ balance[u] \in Int /\ NewBalance(j, u) < 0
      BY <1>3, <1>5 DEF OverdrawnOnlyByTransfer, TypeOK
    <2>2. CASE Op(j) = "transfer"
      <3>1. u # From(j)
        BY <2>1, <2>2 DEF Commit
      <3>2. QED
        BY <1>1, <2>1, <2>2, <3>1 DEF NewBalance, Posted
    <2>3. CASE Op(j) \in {"charge", "credit"}
      <3>1. u = From(j)
        BY <2>1, <2>3 DEF NewBalance
      <3>2. seen[j].balance >= 0
        BY <1>1, <2>1, <3>1 DEF SeenInv
      <3>3. Op(j) = "charge" => seen[j].balance >= Amount(j)
        BY <1>1 DEF SeenInv
      <3>4. QED
        BY <1>1, <2>1, <2>3, <3>1, <3>2, <3>3 DEF NewBalance, Posted
    <2>4. QED
      BY <1>1, <2>2, <2>3
  <1>12. QED
    BY <1>6, <1>7, <1>8, <1>9, <1>10, <1>11

-------------------------------------------------------------------------------
\* Every step of every job, and every failure, preserves the invariant.
LEMMA StepInv == IInv /\ [Next]_vars => IInv'
  <1> SUFFICES ASSUME IInv, [Next]_vars PROVE IInv'
    OBVIOUS
  <1>1. ASSUME NEW j \in Job, NEW c \in Call, Start(j, c) PROVE IInv'
    BY <1>1, StartStep
  <1>2. ASSUME NEW j \in Job, Read(j) PROVE IInv'
    BY <1>2, ReadStep
  <1>3. ASSUME NEW j \in Job, Write(j) PROVE IInv'
    BY <1>3, SetLockStep, UpdateStep, CommitStep DEF Write
  <1>4. CASE (\E j \in Job : BreakDeadlock(j) \/ Abort(j)) \/ Restart
    BY <1>4, FailureStep
  <1>5. CASE UNCHANGED vars
    BY <1>5
    DEF IInv, TypeOK, PcInv, SeenInv, FrozenInv, HistoryExplainsBalance,
        OverdrawnOnlyByTransfer, Op, From, Amount, vars, rows, jobs, history
  <1>6. QED
    BY <1>1, <1>2, <1>3, <1>4, <1>5 DEF Next

\* The inductive invariant holds in every reachable state.
THEOREM Invariance == Spec => []IInv
  BY InitInv, StepInv, PTL DEF Spec

\* Every variable keeps its type, however calls interleave and fail.
THEOREM TypeCorrect == Spec => []TypeOK
  <1>1. IInv => TypeOK
    BY DEF IInv
  <1>2. QED
    BY <1>1, Invariance, PTL

\* The transaction history explains every balance no stale credit or charge has overwritten.
THEOREM HistoryIsComplete == Spec => []HistoryExplainsBalance
  <1>1. IInv => HistoryExplainsBalance
    BY DEF IInv
  <1>2. QED
    BY <1>1, Invariance, PTL

\* Nothing but a transfer checked against an outdated balance takes a wallet below zero.
THEOREM OnlyTransfersOverdraw == Spec => []OverdrawnOnlyByTransfer
  <1>1. IInv => OverdrawnOnlyByTransfer
    BY DEF IInv
  <1>2. QED
    BY <1>1, Invariance, PTL

\* A lock set before a call starts and kept until it ends stops that call's debit.
THEOREM LocksHold == Spec => []LockedIsNotDebited
  <1>1. IInv => LockedIsNotDebited
    BY DEF IInv, FrozenInv, LockedIsNotDebited, Reading
  <1>2. QED
    BY <1>1, Invariance, PTL
===============================================================================
