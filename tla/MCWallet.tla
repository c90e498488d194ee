------------------------------- MODULE MCWallet -------------------------------
(* Wallet on two users and a few concurrent calls. *)
EXTENDS Wallet, TLC

CONSTANTS u1, u2

Ask(op, from, to, amount) == [op |-> op, from |-> from, to |-> to, amount |-> amount]

\* Both directions of a transfer, a transfer to oneself, and the other calls on u1.
MCCall ==
  {Ask("transfer", u1, u2, 2), Ask("transfer", u2, u1, 1), Ask("transfer", u1, u1, 1),
   Ask("credit", u1, u1, 1), Ask("charge", u1, u1, 1), Ask("lock", u1, u1, 0),
   Ask("unlock", u1, u1, 0), Ask("get", u2, u2, 0)}

JobSymmetry == Permutations(Job)
===============================================================================
