----------------------------- MODULE GroupWallets -----------------------------
(***************************************************************************)
(* GroupWalletService: one group wallet, its members and its ledger.       *)
(* Every method reads the wallet with its members, decides, and writes     *)
(* later; credits and debits write the balance they computed from that     *)
(* read, in one transaction with the row of the ledger.                    *)
(***************************************************************************)
EXTENDS Calls, Integers

CONSTANTS
  Group,       \* the row of GroupWallet
  Ledger,      \* the sums of the rows of GroupWalletTransaction
  Member,      \* users; their row of GroupWalletMember goes by their name
  Limit,       \* spending limits; 0 is none
  MaxTurnover  \* bound: no credit is decided when this much has been credited

ASSUME GroupWalletsAssumption ==
  /\ MaxTurnover \in Nat /\ Limit \subseteq Nat
  /\ {Group, Ledger} \cup Member \subseteq Id
  /\ Group # Ledger /\ Group \notin Member /\ Ledger \notin Member

Role == {"OWNER", "ADMIN", "MEMBER"}

GroupRow == [balance : Nat, limit : Limit]
LedgerRow == [credited : Nat, debited : Nat]
MemberRow == [role : Role, limit : Limit \cup {0}]

\* What an update of a member may give.
MemberEdit == {Given(fields) : fields \in [role : Role \cup {None}, limit : Limit \cup {None}]}

\* None is no record, nor data of an update; Unseen is no record.
ASSUME NoGroupAssumption ==
  /\ None \notin GroupRow /\ None \notin LedgerRow /\ None \notin MemberRow
  /\ None # NoField /\ None \notin [balance : Nat] /\ \A edit \in MemberEdit : edit # None
  /\ Unseen \notin GroupRow

GroupWalletsRows(records) ==
  /\ records[Group] \in GroupRow \cup {None}
  /\ records[Ledger] \in LedgerRow \cup {None}
  /\ \A m \in Member : records[m] \in MemberRow \cup {None}

IsMember(m) == row[Group] # None /\ row[m] # None

MayManage(m) == IsMember(m) /\ row[m].role \in {"OWNER", "ADMIN"}

-------------------------------------------------------------------------------
(* Members *)

\* What clients give of a new wallet, of a new member, and of a payment.
GroupInput == [balance : {0}, limit : Limit]
MemberInput == [role : Role, limit : Limit]
Sum == 1..2

\* The wallet with its owner, in one query.  A wallet that was deleted is not created again:
\* the next one is another one.
CreateGroupWallet(c) ==
  \E m \in Member, input \in GroupInput :
    /\ {Group, Ledger} \cup Member \subseteq Unused({Group, Ledger} \cup Member)
    /\ Decide(c, <<Both(Both(Insert(Group, input),
                             Insert(Ledger, [credited |-> 0, debited |-> 0])),
                        Insert(m, [role |-> "OWNER", limit |-> 0]))>>)

\* If the new member has no wallet of his own one is made before; when another call makes it
\* first, this one fails there.
AddMember(c) ==
  \E requester, m \in Member, input \in MemberInput :
    /\ MayManage(requester) /\ ~IsMember(m)
    /\ Decide(c, <<Both(Insert(m, input), Exists(Group))>>)

\* An owner can be removed.
Mutant_MayRemove(requester, m) == MayManage(requester) \/ (IsMember(requester) /\ requester = m)

MayRemove(requester, m) ==
  /\ MayManage(requester) \/ (IsMember(requester) /\ requester = m)
  /\ IsMember(m) => row[m].role # "OWNER"

RemoveMember(c) ==
  \E requester, m \in Member :
    /\ MayRemove(requester, m)
    /\ Decide(c, <<Delete(m)>>)

UpdateMember(c) ==
  \E requester, m \in Member, edit \in MemberEdit :
    /\ MayManage(requester) /\ IsMember(m)
    /\ row[m].role = "OWNER" /\ "role" \in DOMAIN edit => edit.role = "OWNER"
    /\ Decide(c, <<Put(m, edit)>>)

-------------------------------------------------------------------------------
(* Money *)

\* The new balance is what was read and the amount.
CreditGroupWallet(c) ==
  \E m \in Member, amount \in Sum :
    /\ IsMember(m)
    /\ row[Ledger].credited < MaxTurnover
    /\ Decide(c, <<Both(Put(Group, [balance |-> row[Group].balance + amount]),
                        Add(Ledger, [credited |-> amount]))>>)

\* The balance is not compared with the amount.
Mutant_MayDebit(m, amount) ==
  /\ IsMember(m)
  /\ \A limit \in {row[m].limit, row[Group].limit} : limit # 0 => amount <= limit

\* A limit is compared with this amount alone.
MayDebit(m, amount) ==
  /\ IsMember(m)
  /\ \A limit \in {row[m].limit, row[Group].limit} : limit # 0 => amount <= limit
  /\ row[Group].balance >= amount

DebitGroupWallet(c) ==
  \E m \in Member, amount \in Sum :
    /\ MayDebit(m, amount)
    /\ Decide(c, <<Both(Put(Group, [balance |-> row[Group].balance - amount]),
                        Add(Ledger, [debited |-> amount]))>>)

MayDelete(m) == IsMember(m) /\ row[m].role = "OWNER" /\ row[Group].balance = 0

DeleteGroupWallet(c) ==
  \E m \in Member : MayDelete(m) /\ Decide(c, <<Then("drop", row[Group])>>)

\* The row goes, and by cascade its members and its ledger, as they are by now.
DropGroupWallet(c) ==
  /\ At(c, "drop") /\ row[Group] # None
  /\ row' = [i \in Id |-> IF i \in {Group, Ledger} \cup Member THEN None ELSE row[i]]
  /\ todo' = [todo EXCEPT ![c] = <<>>]
  /\ raced' = IF row[Group] = Subject(c) THEN raced ELSE raced \cup (Watched \cap {Group})
  /\ UNCHANGED crowded

-------------------------------------------------------------------------------
GroupWalletsNext(c) ==
  \/ CreateGroupWallet(c) \/ AddMember(c) \/ RemoveMember(c) \/ UpdateMember(c)
  \/ CreditGroupWallet(c) \/ DebitGroupWallet(c)
  \/ DeleteGroupWallet(c) \/ DropGroupWallet(c)

\* The service on its own.
GroupWalletsSpec ==
  CallsInit(NoField) /\ [][(\E c \in Call : GroupWalletsNext(c) \/ Step(c)) \/ Restart]_vars

-------------------------------------------------------------------------------
(* Properties *)

\* Lost updates change what a group has, but no order of credits and debits overdraws it, and
\* as long as no update was lost the ledger explains the balance.
GroupBalanceIsSound ==
  row[Group] # None =>
    /\ row[Group].balance >= 0
    /\ Group \notin raced =>
         row[Group].balance + row[Ledger].debited = row[Ledger].credited

\* A group wallet always has an owner: whoever created it can be neither demoted nor removed,
\* by any two calls that read the members before the other wrote.
GroupHasOwner ==
  row[Group] # None => \E m \in Member : row[m] # None /\ row[m].role = "OWNER"
===============================================================================
