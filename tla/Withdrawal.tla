----------------------------- MODULE Withdrawal -----------------------------
(***************************************************************************)
(* Bank accounts and withdrawals of one user (banks.service.ts, with        *)
(* wallet.service.ts for the balance and paystack.service.ts for the        *)
(* transfer).  Users do not interact: every statement filters by user id.   *)
(*                                                                          *)
(* The ledger is kept as its sums: a balance is what was credited less the  *)
(* COMPLETED debits.  PENDING debits do not count, and nothing settles them.*)
(***************************************************************************)
EXTENDS Integers, FiniteSets

CONSTANTS
    Banks,      \* ids of bank accounts
    Numbers,    \* account numbers (with their bank codes)
    Otps,       \* ids of withdrawal requests
    Hands,      \* handlers in flight at the same time
    Amounts,    \* amounts that are credited and withdrawn
    MaxBanks,   \* MAX_BANK_ACCOUNTS_PER_USER
    CreditCap,  \* bound on what is credited
    NoBank, NoNumber, NoOtp

ASSUME WithdrawalAssumption ==
    /\ Amounts \subseteq Nat /\ MaxBanks \in Nat /\ CreditCap \in Nat
    /\ NoBank \notin Banks /\ NoNumber \notin Numbers /\ NoOtp \notin Otps

VARIABLES
    bank,       \* the user's bank accounts
    otp,        \* the user's withdrawal requests
    credited, debited, pending, \* sums of CREDITs, COMPLETED and PENDING DEBITs
    hand,       \* handlers in flight
    sent,       \* Paystack: transfers accepted, by withdrawal request
    paidOut,    \* Paystack: sum of the transfers accepted
    lost,       \* history: sum of the accepted transfers nobody recorded
    orphaned,   \* history: the default account was deleted, or unset for nothing
    twice,      \* history: requests two verifications of which overlapped
    raced       \* history: which kinds of handlers overlapped

ledger == <<credited, debited, pending>>
paystack == <<sent, paidOut>>
history == <<lost, orphaned, twice, raced>>
vars == <<bank, otp, ledger, hand, paystack, history>>

BankRow == [state : {"NONE", "SAVED", "DELETED"}, number : Numbers \cup {NoNumber},
            default : BOOLEAN, recipient : BOOLEAN]

\* "USED" whether spent or superseded.
OtpRow == [state : {"NONE", "LIVE", "EXPIRED", "USED"}, amount : Nat,
           bank : Banks \cup {NoBank}]

Steps == {"idle", "number", "default", "insert", "unset", "set",
          "account", "retire", "issue",
          "payee", "balance", "use", "recipient", "transfer", "record"}

\* flag: the account will be the default one / Paystack answered success.
Job == [step : Steps, bank : Banks \cup {NoBank}, number : Numbers \cup {NoNumber},
        otp : Otps \cup {NoOtp}, amount : Nat, flag : BOOLEAN]

Idle == [step |-> "idle", bank |-> NoBank, number |-> NoNumber, otp |-> NoOtp,
         amount |-> 0, flag |-> FALSE]

TypeOK ==
    /\ bank \in [Banks -> BankRow]
    /\ otp \in [Otps -> OtpRow]
    /\ credited \in Nat /\ debited \in Nat /\ pending \in Nat
    /\ hand \in [Hands -> Job]
    /\ sent \in [Otps -> Nat] /\ paidOut \in Nat
    /\ lost \in Nat /\ orphaned \in BOOLEAN
    /\ twice \subseteq Otps /\ raced \subseteq {"banks", "request", "withdraw"}

Init ==
    /\ bank = [b \in Banks |-> [state |-> "NONE", number |-> NoNumber,
                                default |-> FALSE, recipient |-> FALSE]]
    /\ otp = [o \in Otps |-> [state |-> "NONE", amount |-> 0, bank |-> NoBank]]
    /\ credited = 0 /\ debited = 0 /\ pending = 0
    /\ hand = [h \in Hands |-> Idle]
    /\ sent = [o \in Otps |-> 0] /\ paidOut = 0
    /\ lost = 0 /\ orphaned = FALSE /\ twice = {} /\ raced = {}

Saved == {b \in Banks : bank[b].state = "SAVED"}
Defaults == {b \in Saved : bank[b].default}
Live == {o \in Otps : otp[o].state = "LIVE"}

Balance == credited - debited

Start(h, job) == hand[h].step = "idle" /\ hand' = [hand EXCEPT ![h] = job]
Go(h, step) == hand' = [hand EXCEPT ![h].step = step]
Leave(h) == hand' = [hand EXCEPT ![h] = Idle]

\* Records that the handlers in these steps overlap with the one that begins.
Overlap(what, steps) ==
    raced' = IF \E h \in Hands : hand[h].step \in steps THEN raced \cup {what} ELSE raced

-----------------------------------------------------------------------------
(* addBankAccount, setDefaultBankAccount, deleteBankAccount                  *)

BankSteps == {"number", "default", "insert", "unset", "set"}

AddBankAccount(h, n) ==
    /\ Cardinality(Saved) < MaxBanks
    /\ Start(h, [Idle EXCEPT !.step = "number", !.number = n])
    /\ Overlap("banks", BankSteps)
    /\ UNCHANGED <<bank, otp, ledger, paystack, lost, orphaned, twice>>

\* Paystack has confirmed the number (external); it must not be saved yet.
FindNumber(h) ==
    /\ hand[h].step = "number"
    /\ \A b \in Saved : bank[b].number # hand[h].number
    /\ Go(h, "default")
    /\ UNCHANGED <<bank, otp, ledger, paystack, history>>

FindDefault(h) ==
    /\ hand[h].step = "default"
    /\ hand' = [hand EXCEPT ![h].step = "insert", ![h].flag = Defaults = {}]
    /\ UNCHANGED <<bank, otp, ledger, paystack, history>>

\* Without a recipient code when Paystack did not give one.
InsertBank(h, b, recipient) ==
    /\ hand[h].step = "insert"
    /\ bank[b].state = "NONE"
    /\ bank' = [bank EXCEPT ![b] = [state |-> "SAVED", number |-> hand[h].number,
                                    default |-> hand[h].flag, recipient |-> recipient]]
    /\ Leave(h)
    /\ UNCHANGED <<otp, ledger, paystack, history>>

SetDefaultBankAccount(h, b) ==
    /\ b \in Saved
    /\ Start(h, [Idle EXCEPT !.step = "unset", !.bank = b])
    /\ Overlap("banks", BankSteps)
    /\ UNCHANGED <<bank, otp, ledger, paystack, lost, orphaned, twice>>

\* Mutant: only the account itself is written.
KeepDefaults(h) ==
    /\ hand[h].step = "unset"
    /\ Go(h, "set")
    /\ UNCHANGED <<bank, otp, ledger, paystack, history>>

UnsetDefaults(h) ==
    /\ hand[h].step = "unset"
    /\ bank' = [b \in Banks |-> [bank[b] EXCEPT !.default = @ /\ b \notin Saved]]
    /\ Go(h, "set")
    /\ UNCHANGED <<otp, ledger, paystack, history>>

\* The update fails when the account was deleted meanwhile.
SetDefault(h) ==
    LET b == hand[h].bank
    IN  /\ hand[h].step = "set"
        /\ bank' = IF b \in Saved THEN [bank EXCEPT ![b].default = TRUE] ELSE bank
        /\ orphaned' = (orphaned \/ b \notin Saved)
        /\ Leave(h)
        /\ UNCHANGED <<otp, ledger, paystack, lost, twice, raced>>

\* Deleting an account that is gone changes nothing, so that the read before the
\* delete needs no step of its own.  Withdrawal requests lose their account.
DeleteBankAccount(b) ==
    /\ b \in Saved
    /\ bank' = [bank EXCEPT ![b].state = "DELETED"]
    /\ otp' = [o \in Otps |-> IF otp[o].bank = b THEN [otp[o] EXCEPT !.bank = NoBank]
                              ELSE otp[o]]
    /\ orphaned' = (orphaned \/ bank[b].default)
    /\ UNCHANGED <<ledger, hand, paystack, lost, twice, raced>>

-----------------------------------------------------------------------------
(* requestWithdrawalOtp                                                     *)

RequestWithdrawalOtp(h, a, b) ==
    /\ a > 0 /\ Balance >= a
    /\ Start(h, [Idle EXCEPT !.step = "account", !.bank = b, !.amount = a])
    /\ UNCHANGED <<bank, otp, ledger, paystack, history>>

FindAccount(h) ==
    /\ hand[h].step = "account"
    /\ hand[h].bank \in Saved
    /\ Go(h, "retire")
    /\ UNCHANGED <<bank, otp, ledger, paystack, history>>

\* Mutant: retired requests get a state of their own.
SupersedeOtps(h) ==
    /\ hand[h].step = "retire"
    /\ otp' = [o \in Otps |-> IF otp[o].state # "LIVE" THEN otp[o]
                              ELSE [otp[o] EXCEPT !.state = "SUPERSEDED"]]
    /\ Go(h, "issue")
    /\ Overlap("request", {"issue"})
    /\ UNCHANGED <<bank, ledger, paystack, lost, orphaned, twice>>

RetireOtps(h) ==
    /\ hand[h].step = "retire"
    /\ otp' = [o \in Otps |-> IF otp[o].state = "NONE" THEN otp[o]
                              ELSE [otp[o] EXCEPT !.state = "USED"]]
    /\ Go(h, "issue")
    /\ Overlap("request", {"issue"})
    /\ UNCHANGED <<bank, ledger, paystack, lost, orphaned, twice>>

\* The foreign key refuses a request for an account deleted meanwhile.
IssueOtp(h, o) ==
    /\ hand[h].step = "issue"
    /\ hand[h].bank \in Saved
    /\ otp[o].state = "NONE"
    /\ otp' = [otp EXCEPT ![o] = [state |-> "LIVE", amount |-> hand[h].amount,
                                  bank |-> hand[h].bank]]
    /\ Leave(h)
    /\ UNCHANGED <<bank, ledger, paystack, history>>

\* Ten minutes pass.
Expire(o) ==
    /\ otp[o].state = "LIVE"
    /\ otp' = [otp EXCEPT ![o].state = "EXPIRED"]
    /\ UNCHANGED <<bank, ledger, hand, paystack, history>>

-----------------------------------------------------------------------------
(* verifyWithdrawalOtp                                                      *)

Verifying(o) ==
    \E h \in Hands : /\ hand[h].step \in {"payee", "balance", "use"}
                     /\ hand[h].otp = o

VerifyWithdrawalOtp(h, o) ==
    /\ otp[o].state = "LIVE"
    /\ otp[o].bank # NoBank
    /\ Start(h, [Idle EXCEPT !.step = "payee", !.otp = o, !.bank = otp[o].bank,
                             !.amount = otp[o].amount])
    /\ twice' = IF Verifying(o) THEN twice \cup {o} ELSE twice
    /\ UNCHANGED <<bank, otp, ledger, paystack, lost, orphaned, raced>>

\* flag: the account has a recipient code at Paystack.
FindPayee(h) ==
    /\ hand[h].step = "payee"
    /\ hand[h].bank \in Saved
    /\ hand' = [hand EXCEPT ![h].step = "balance", ![h].flag = bank[hand[h].bank].recipient]
    /\ UNCHANGED <<bank, otp, ledger, paystack, history>>

Withdrawing == {"use", "recipient", "transfer", "record"}

\* Mutant: the balance was checked when the request was made.
TrustRequest(h) ==
    /\ hand[h].step = "balance"
    /\ Go(h, "use")
    /\ Overlap("withdraw", Withdrawing)
    /\ UNCHANGED <<bank, otp, ledger, paystack, lost, orphaned, twice>>

CheckBalance(h) ==
    /\ hand[h].step = "balance"
    /\ hand[h].amount > 0 /\ Balance >= hand[h].amount
    /\ Go(h, "use")
    /\ Overlap("withdraw", Withdrawing)
    /\ UNCHANGED <<bank, otp, ledger, paystack, lost, orphaned, twice>>

\* Mutant: the request is spent only by the next one.
KeepOtp(h) ==
    /\ hand[h].step = "use"
    /\ Go(h, IF hand[h].flag THEN "transfer" ELSE "recipient")
    /\ UNCHANGED <<bank, otp, ledger, paystack, history>>

UseOtp(h) ==
    /\ hand[h].step = "use"
    /\ otp' = [otp EXCEPT ![hand[h].otp].state = "USED"]
    /\ Go(h, IF hand[h].flag THEN "transfer" ELSE "recipient")
    /\ UNCHANGED <<bank, ledger, paystack, history>>

CreateRecipient(h) ==
    /\ hand[h].step = "recipient"
    /\ hand[h].bank \in Saved
    /\ bank' = [bank EXCEPT ![hand[h].bank].recipient = TRUE]
    /\ Go(h, "transfer")
    /\ UNCHANGED <<otp, ledger, paystack, history>>

Accept(h) ==
    /\ sent' = [sent EXCEPT ![hand[h].otp] = @ + 1]
    /\ paidOut' = paidOut + hand[h].amount

\* Paystack accepts the transfer and says whether it is done; its answer may not
\* arrive.  A refused transfer is DropHand.
InitiateTransfer(h, answer) ==
    /\ hand[h].step = "transfer"
    /\ Accept(h)
    /\ IF answer = "none"
       THEN Leave(h) /\ lost' = lost + hand[h].amount
       ELSE /\ hand' = [hand EXCEPT ![h].step = "record", ![h].flag = answer = "success"]
            /\ UNCHANGED lost
    /\ UNCHANGED <<bank, otp, ledger, orphaned, twice, raced>>

\* Mutant: an unfinished transfer is not written down.
RecordSuccess(h) ==
    /\ hand[h].step = "record"
    /\ debited' = IF hand[h].flag THEN debited + hand[h].amount ELSE debited
    /\ Leave(h)
    /\ UNCHANGED <<bank, otp, credited, pending, paystack, history>>

RecordDebit(h) ==
    /\ hand[h].step = "record"
    /\ IF hand[h].flag
       THEN debited' = debited + hand[h].amount /\ UNCHANGED pending
       ELSE pending' = pending + hand[h].amount /\ UNCHANGED debited
    /\ Leave(h)
    /\ UNCHANGED <<bank, otp, credited, paystack, history>>

\* A check fails, Paystack refuses, or the process dies between two statements.
DropHand(h) ==
    /\ hand[h].step # "idle"
    /\ lost' = IF hand[h].step = "record" THEN lost + hand[h].amount ELSE lost
    /\ orphaned' = (orphaned \/ hand[h].step = "set")
    /\ Leave(h)
    /\ UNCHANGED <<bank, otp, ledger, paystack, twice, raced>>

\* A payout or a refund (wallet.service.ts, credit).
Credit(a) ==
    /\ credited + a <= CreditCap
    /\ credited' = credited + a
    /\ UNCHANGED <<bank, otp, debited, pending, hand, paystack, history>>

-----------------------------------------------------------------------------
Accounts(h) ==
    \/ \E n \in Numbers : AddBankAccount(h, n)
    \/ FindNumber(h) \/ FindDefault(h)
    \/ \E b \in Banks, r \in BOOLEAN : InsertBank(h, b, r)
    \/ \E b \in Banks : SetDefaultBankAccount(h, b)
    \/ UnsetDefaults(h) \/ SetDefault(h)

Requests(h) ==
    \/ \E a \in Amounts, b \in Banks : RequestWithdrawalOtp(h, a, b)
    \/ FindAccount(h) \/ RetireOtps(h)
    \/ \E o \in Otps : IssueOtp(h, o)

Verifications(h) ==
    \/ \E o \in Otps : VerifyWithdrawalOtp(h, o)
    \/ FindPayee(h) \/ CheckBalance(h) \/ UseOtp(h) \/ CreateRecipient(h)
    \/ \E answer \in {"success", "pending", "none"} : InitiateTransfer(h, answer)
    \/ RecordDebit(h)

Next ==
    \/ \E h \in Hands : Accounts(h) \/ Requests(h) \/ Verifications(h) \/ DropHand(h)
    \/ \E b \in Banks : DeleteBankAccount(b)
    \/ \E o \in Otps : Expire(o)
    \/ \E a \in Amounts : Credit(a)

Spec == Init /\ [][Next]_vars

-----------------------------------------------------------------------------
(* Properties                                                               *)

\* What Paystack was told to pay out was in the wallet, except for transfers it
\* has not finished (their debit is PENDING and does not lower the balance) and
\* transfers whose answer or handler was lost before the debit was written -
\* unless two withdrawals overlapped between check and debit (verifyWithdrawalOtp).
PaidOutWasCredited ==
    "withdraw" \notin raced => paidOut <= credited + pending + lost

\* The ledger is never overdrawn: COMPLETED debits do not exceed the credits,
\* whatever is lost or pending, unless two withdrawals overlapped.
NeverOverdrawn == "withdraw" \notin raced => debited <= credited

\* A withdrawal request is good for one transfer, however often it is verified
\* and wherever its handlers die, unless two verifications of it overlapped
\* before either marked it used.
OneTransferPerOtp == \A o \in Otps \ twice : sent[o] <= 1

\* A new withdrawal request retires those before it: at most one can be verified,
\* unless one was made between another's two writes (requestWithdrawalOtp).
OneOpenRequest ==
    "request" \notin raced => \A o, p \in Live : o = p

\* A user with accounts has exactly one default account, except while or after
\* setDefaultBankAccount stopped half-way or the default one was deleted, and
\* unless two of these handlers overlapped.
OneDefaultAccount ==
    "banks" \notin raced =>
        /\ \A b, c \in Defaults : b = c
        /\ \/ Saved = {} \/ orphaned \/ Defaults # {}
           \/ \E h \in Hands : hand[h].step = "set"

\* No more accounts than the limit and none saved twice, although Paystack is
\* asked between the checks and the insertion, unless handlers overlapped
\* (addBankAccount).
AccountsWithinLimit ==
    "banks" \notin raced =>
        /\ Cardinality(Saved) <= MaxBanks
        /\ \A b, c \in Saved : bank[b].number = bank[c].number => b = c

-----------------------------------------------------------------------------
(* The inductive invariant of WithdrawalProofs: what the handlers in flight  *)
(* still know of the rows they have read.                                    *)

In(steps) == {h \in Hands : hand[h].step \in steps}
Alone(steps) == \A g, h \in In(steps) : g = h

\* A handler past the check has the balance to itself, and what Paystack was told
\* to pay out is accounted for but for the debit about to be written.
MoneyHolds ==
    "withdraw" \notin raced =>
        /\ Alone(Withdrawing)
        /\ \A h \in In(Withdrawing) : debited + hand[h].amount <= credited
        /\ debited <= credited
        /\ IF In({"record"}) = {} THEN paidOut = debited + pending + lost
           ELSE \A h \in In({"record"}) :
                    paidOut = debited + pending + lost + hand[h].amount

BeforeTransfer == {"payee", "balance", "use", "recipient", "transfer"}

\* A request being verified was not transferred; once it was, it is used.
OtpsHold ==
    \A o \in Otps \ twice :
        /\ sent[o] <= 1
        /\ sent[o] # 0 => otp[o].state = "USED"
        /\ \A h \in In(BeforeTransfer) :
              hand[h].otp = o =>
                  /\ sent[o] = 0 /\ otp[o].state # "NONE"
                  /\ hand[h].step \in {"recipient", "transfer"} => otp[o].state = "USED"
                  /\ \A g \in In(BeforeTransfer) : hand[g].otp = o => g = h

\* A handler about to issue a request has retired all others.
RequestsHold ==
    "request" \notin raced =>
        /\ Alone({"issue"})
        /\ In({"issue"}) # {} => Live = {}
        /\ \A o, p \in Live : o = p

\* A handler at the accounts is alone, and what it read of them is still so.
BanksHold ==
    "banks" \notin raced =>
        /\ Alone(BankSteps)
        /\ \A h \in In({"set"}) : Defaults = {}
        /\ \A h \in In({"insert"}) :
              IF hand[h].flag THEN Defaults = {} ELSE orphaned \/ Defaults # {}
        /\ \A h \in In({"default", "insert"}) :
              \A b \in Saved : bank[b].number # hand[h].number
        /\ In({"number", "default", "insert"}) # {} => Cardinality(Saved) < MaxBanks

\* The four parts and the properties of the accounts they serve.
WithdrawalInv ==
    /\ TypeOK /\ IsFiniteSet(Saved)
    /\ MoneyHolds /\ OtpsHold /\ RequestsHold /\ BanksHold
    /\ OneDefaultAccount /\ AccountsWithinLimit
-----------------------------------------------------------------------------
(* The refinement                                                           *)

\* The transfer a handler still has to write down, as done or as unfinished: there is
\* one at most as long as no withdrawals overlapped.
Done == {h \in In({"record"}) : hand[h].flag}
Unfinished == {h \in In({"record"}) : ~hand[h].flag}
InFlight(S) == IF S = {} THEN 0 ELSE hand[CHOOSE h \in S : TRUE].amount

Pursued(o) == \E h \in In(BeforeTransfer) : hand[h].otp = o

\* A request is open until nobody can begin or go on to verify it.
AsSlip(o) ==
    [amount |-> otp[o].amount,
     state |-> IF otp[o].state = "NONE" THEN "unmade"
               ELSE IF otp[o].state = "LIVE" \/ Pursued(o) THEN "open" ELSE "closed"]

Books == INSTANCE Wallet WITH
    Slips <- Otps,
    earned <- credited,
    balance <- credited - debited - InFlight(Done),
    out <- paidOut,
    unrecorded <- pending + lost + InFlight(Unfinished),
    slip <- [o \in Otps |-> AsSlip(o)],
    paid <- sent,
    doubled <- twice,
    disordered <- "withdraw" \in raced

\* Whatever is credited, requested, superseded or lost meanwhile, verifying a
\* request pays as Wallet.tla has it, although the balance is checked, the request
\* marked, Paystack asked and the debit written in separate statements; without the
\* part about the sums once two withdrawals overlapped, and not once but perhaps
\* twice for a request two verifications of which overlapped (verifyWithdrawalOtp).
PaysAtomically == Books!WalletSpec

\* What it rests on besides WithdrawalInv: who verifies a request knows its amount.
Pursues(h) ==
    LET o == hand[h].otp
    IN  /\ o \in Otps /\ otp[o].state # "NONE"
        /\ hand[h].amount = otp[o].amount
        /\ hand[h].step \notin {"payee", "balance"} => hand[h].amount > 0

WalletInv ==
    /\ WithdrawalInv
    /\ \A h \in In({"payee", "balance"} \cup Withdrawing) : Pursues(h)
=============================================================================
