------------------------------- MODULE Wallet -------------------------------
(***************************************************************************)
(* What withdrawing promises the owner of a wallet, stated without handlers: *)
(* a slip pays its amount once, while it is open, out of a balance that      *)
(* holds it; what is paid leaves the balance in the same step, or stays on    *)
(* the books as unrecorded.                                                   *)
(*                                                                          *)
(* Withdrawals can get disordered, and a slip doubled; less is promised      *)
(* from then on.  The detailed specification has to say when that happens.   *)
(***************************************************************************)
EXTENDS Integers

CONSTANT Slips

VARIABLES
    earned,     \* what was ever credited
    balance,    \* what may be withdrawn
    out,        \* what was paid to the owner's bank
    unrecorded, \* the part of it the balance does not show
    slip,       \* withdrawal slips, one for each request
    paid,       \* how many transfers a slip was good for
    doubled,    \* slips that may pay more than once
    disordered  \* nothing is promised about the sums any more

sums == <<earned, balance, out, unrecorded>>
walletVars == <<sums, slip, paid, doubled, disordered>>

Slip == [state : {"unmade", "open", "closed"}, amount : Nat]

WalletTypeOK ==
    /\ ~disordered => /\ earned \in Nat /\ balance \in Nat
                      /\ out \in Nat /\ unrecorded \in Nat
    /\ slip \in [Slips -> Slip] /\ paid \in [Slips -> Nat]
    /\ doubled \subseteq Slips /\ disordered \in BOOLEAN

WalletInit ==
    /\ earned = 0 /\ balance = 0 /\ out = 0 /\ unrecorded = 0
    /\ slip = [r \in Slips |-> [state |-> "unmade", amount |-> 0]]
    /\ paid = [r \in Slips |-> 0]
    /\ doubled = {} /\ disordered = FALSE

Earn ==
    /\ earned' \in Nat /\ earned' > earned
    /\ balance' = balance + (earned' - earned)
    /\ UNCHANGED <<out, unrecorded, slip, paid, doubled, disordered>>

Ask(r) ==
    /\ slip[r].state = "unmade"
    /\ slip'[r] \in [state : {"open"}, amount : Nat]
    /\ slip' = [slip EXCEPT ![r] = slip'[r]]
    /\ UNCHANGED <<sums, paid, doubled, disordered>>

\* Slips expire, are superseded, or their verification fails.
Close ==
    /\ \A r \in Slips :
          slip'[r] # slip[r] =>
              /\ slip[r].state = "open"
              /\ slip'[r] = [slip[r] EXCEPT !.state = "closed"]
    /\ slip' = [r \in Slips |-> slip'[r]]
    /\ UNCHANGED <<sums, paid, doubled, disordered>>

\* The check, the transfer and the debit at once.
PayOut(a) ==
    /\ a \in 1 .. balance
    /\ out' = out + a
    /\ \/ balance' = balance - a /\ UNCHANGED unrecorded
       \/ unrecorded' = unrecorded + a /\ UNCHANGED balance
    /\ UNCHANGED earned

Withdraw(r) ==
    /\ slip[r].state = "open"
    /\ disordered \/ PayOut(slip[r].amount)
    /\ paid' = [paid EXCEPT ![r] = @ + 1]
    /\ \/ slip' = [slip EXCEPT ![r].state = "closed"]
       \/ r \in doubled /\ UNCHANGED slip
    /\ UNCHANGED <<doubled, disordered>>

\* A transfer that had left the balance turns out unrecorded.
Forget ==
    /\ balance' \in Nat /\ balance' - balance \in 1 .. out - unrecorded
    /\ unrecorded' = unrecorded + (balance' - balance)
    /\ UNCHANGED <<earned, out, slip, paid, doubled, disordered>>

Double ==
    /\ doubled \subseteq doubled' /\ doubled' \subseteq Slips
    /\ UNCHANGED <<sums, slip, paid, disordered>>

\* The sums get out of order, or are.
Disorder ==
    /\ disordered'
    /\ UNCHANGED <<slip, paid, doubled>>

WalletNext ==
    \/ Earn \/ Close \/ Forget \/ Double \/ Disorder
    \/ \E r \in Slips : Ask(r) \/ Withdraw(r)

WalletSpec == WalletInit /\ [][WalletNext]_walletVars

-----------------------------------------------------------------------------
\* What follows: the balance never runs below zero and the books balance, and a
\* slip that is not doubled pays once, after which it is closed.
WalletKept ==
    /\ ~disordered => balance \in Nat /\ balance + out = earned + unrecorded
    /\ \A r \in Slips \ doubled :
          paid[r] <= IF slip[r].state = "closed" THEN 1 ELSE 0
=============================================================================
