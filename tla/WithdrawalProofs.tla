-------------------------- MODULE WithdrawalProofs --------------------------
(***************************************************************************)
(* The wallet is not overdrawn, a request is transferred once, and accounts *)
(* stay within their limit, for any number of requests, accounts, amounts   *)
(* and handlers in flight.  The invariant has one part for each of money,   *)
(* requests being verified, requests being made and accounts; most steps    *)
(* concern one part only, and a frame lemma per part deals with the others. *)
(*                                                                          *)
(* The second half shows that the handlers implement the wallet of          *)
(* Wallet.tla, and what follows for them from its books.                    *)
(***************************************************************************)
EXTENDS Withdrawal, FiniteSetTheorems, TLAPS

Handler(h) == Accounts(h) \/ Requests(h) \/ Verifications(h) \/ DropHand(h)

-----------------------------------------------------------------------------
\* Types

\* A free handler.
LEMMA IdleJob == Idle \in Job /\ Idle.step = "idle"
  BY DEF Idle, Job, Steps

\* What a job consists of.
LEMMA Fields ==
    ASSUME TypeOK, NEW h \in Hands
    PROVE  /\ hand[h] \in Job /\ hand[h].step \in Steps /\ hand[h].amount \in Nat
           /\ hand[h].bank \in Banks \cup {NoBank} /\ hand[h].flag \in BOOLEAN
           /\ hand[h].number \in Numbers \cup {NoNumber}
           /\ hand[h].otp \in Otps \cup {NoOtp}
  BY DEF TypeOK, Job

\* Replacing the job of one handler leaves the others alone.
LEMMA Slot ==
    ASSUME TypeOK, NEW h \in Hands, NEW m \in Job, hand' = [hand EXCEPT ![h] = m]
    PROVE  /\ hand' \in [Hands -> Job] /\ hand'[h] = m
           /\ \A g \in Hands : g # h => hand'[g] = hand[g]
  BY DEF TypeOK

\* A handler that begins changes no other.
LEMMA Starts ==
    ASSUME TypeOK, NEW h \in Hands, NEW m \in Job, Start(h, m)
    PROVE  /\ hand' \in [Hands -> Job] /\ hand'[h] = m /\ hand[h].step = "idle"
           /\ \A g \in Hands : g # h => hand'[g] = hand[g]
  BY Slot DEF Start

\* A handler that goes on keeps what it holds and changes no other.
LEMMA Goes ==
    ASSUME TypeOK, NEW h \in Hands, NEW s \in Steps, Go(h, s)
    PROVE  /\ hand' \in [Hands -> Job] /\ hand'[h] = [hand[h] EXCEPT !.step = s]
           /\ \A g \in Hands : g # h => hand'[g] = hand[g]
<1>1. [hand[h] EXCEPT !.step = s] \in Job
  BY Fields DEF Job
<1> QED
  BY <1>1, Slot DEF Go, TypeOK

\* A handler that ends changes no other.
LEMMA Leaves ==
    ASSUME TypeOK, NEW h \in Hands, Leave(h)
    PROVE  /\ hand' \in [Hands -> Job] /\ hand'[h] = Idle
           /\ \A g \in Hands : g # h => hand'[g] = hand[g]
  BY Slot, IdleJob DEF Leave

\* A handler that goes on with an answer keeps the rest of what it holds.
LEMMA Flags ==
    ASSUME TypeOK, NEW h \in Hands, NEW s \in Steps, NEW f \in BOOLEAN,
           hand' = [hand EXCEPT ![h].step = s, ![h].flag = f]
    PROVE  /\ hand' \in [Hands -> Job]
           /\ hand'[h].step = s /\ hand'[h].flag = f
           /\ hand'[h].amount = hand[h].amount /\ hand'[h].otp = hand[h].otp
           /\ hand'[h].bank = hand[h].bank /\ hand'[h].number = hand[h].number
           /\ \A g \in Hands : g # h => hand'[g] = hand[g]
<1> DEFINE m == [hand[h] EXCEPT !.step = s, !.flag = f]
<1>1. m \in Job
  BY Fields DEF Job
<1>2. /\ hand' \in [Hands -> Job] /\ hand'[h] = m
      /\ \A g \in Hands : g # h => hand'[g] = hand[g]
  BY <1>1, Slot DEF TypeOK
<1>3. /\ m.step = s /\ m.flag = f /\ m.amount = hand[h].amount
      /\ m.otp = hand[h].otp /\ m.bank = hand[h].bank /\ m.number = hand[h].number
  BY Fields DEF Job
<1> QED
  BY <1>2, <1>3

\* The jobs handlers begin with.
LEMMA Begun ==
    /\ \A n \in Numbers : [Idle EXCEPT !.step = "number", !.number = n] \in Job
    /\ \A b \in Banks : [Idle EXCEPT !.step = "unset", !.bank = b] \in Job
    /\ \A a \in Nat, b \in Banks :
          [Idle EXCEPT !.step = "account", !.bank = b, !.amount = a] \in Job
    /\ \A o \in Otps, b \in Banks \cup {NoBank}, a \in Nat :
          [Idle EXCEPT !.step = "payee", !.otp = o, !.bank = b, !.amount = a] \in Job
  BY DEF Idle, Job, Steps

\* Every step of a handler changes its own job, into a job.
LEMMA Moves ==
    ASSUME TypeOK, NEW h \in Hands, Handler(h)
    PROVE  /\ hand' \in [Hands -> Job]
           /\ \A g \in Hands : g # h => hand'[g] = hand[g]
<1> DEFINE Typed == /\ hand' \in [Hands -> Job]
                    /\ \A g \in Hands : g # h => hand'[g] = hand[g]
<1> SUFFICES Typed
  OBVIOUS
<1>a. \A s \in Steps : Go(h, s) => Typed
  BY Goes
<1>b. Leave(h) => Typed
  BY Leaves
<1>c. \A m \in Job : Start(h, m) => Typed
  BY Starts
<1> HIDE DEF Typed
<1>1. CASE Accounts(h)
  <2>1. ASSUME NEW n \in Numbers, AddBankAccount(h, n)
        PROVE  Typed
    BY <1>c, <2>1, Begun DEF AddBankAccount
  <2>2. CASE FindNumber(h)
    BY <1>a, <2>2 DEF FindNumber, Steps
  <2>3. CASE FindDefault(h)
    <3>1. (Defaults = {}) \in BOOLEAN
      OBVIOUS
    <3> QED
      BY <2>3, <3>1, Flags DEF FindDefault, Steps, Typed
  <2>4. ASSUME NEW b \in Banks, NEW r \in BOOLEAN, InsertBank(h, b, r)
        PROVE  Typed
    BY <1>b, <2>4 DEF InsertBank
  <2>5. ASSUME NEW b \in Banks, SetDefaultBankAccount(h, b)
        PROVE  Typed
    BY <1>c, <2>5, Begun DEF SetDefaultBankAccount
  <2>6. CASE UnsetDefaults(h)
    BY <1>a, <2>6 DEF UnsetDefaults, Steps
  <2>7. CASE SetDefault(h)
    BY <1>b, <2>7 DEF SetDefault
  <2> QED
    BY <1>1, <2>1, <2>2, <2>3, <2>4, <2>5, <2>6, <2>7 DEF Accounts
<1>2. CASE Requests(h)
  <2>1. ASSUME NEW a \in Amounts, NEW b \in Banks, RequestWithdrawalOtp(h, a, b)
        PROVE  Typed
    BY <1>c, <2>1, Begun, WithdrawalAssumption DEF RequestWithdrawalOtp
  <2>2. CASE FindAccount(h)
    BY <1>a, <2>2 DEF FindAccount, Steps
  <2>3. CASE RetireOtps(h)
    BY <1>a, <2>3 DEF RetireOtps, Steps
  <2>4. ASSUME NEW o \in Otps, IssueOtp(h, o)
        PROVE  Typed
    BY <1>b, <2>4 DEF IssueOtp
  <2> QED
    BY <1>2, <2>1, <2>2, <2>3, <2>4 DEF Requests
<1>3. CASE Verifications(h)
  <2>1. ASSUME NEW o \in Otps, VerifyWithdrawalOtp(h, o)
        PROVE  Typed
    <3>1. otp[o].bank \in Banks \cup {NoBank} /\ otp[o].amount \in Nat
      BY DEF TypeOK, OtpRow
    <3> QED
      BY <1>c, <2>1, <3>1, Begun DEF VerifyWithdrawalOtp
  <2>2. CASE FindPayee(h)
    <3>1. bank[hand[h].bank].recipient \in BOOLEAN
      BY <2>2 DEF FindPayee, Saved, TypeOK, BankRow
    <3> QED
      BY <2>2, <3>1, Flags DEF FindPayee, Steps, Typed
  <2>3. CASE CheckBalance(h)
    BY <1>a, <2>3 DEF CheckBalance, Steps
  <2>4. CASE UseOtp(h)
    <3>1. (IF hand[h].flag THEN "transfer" ELSE "recipient") \in Steps
      BY DEF Steps
    <3> QED
      BY <1>a, <2>4, <3>1 DEF UseOtp
  <2>5. CASE CreateRecipient(h)
    BY <1>a, <2>5 DEF CreateRecipient, Steps
  <2>6. ASSUME NEW answer \in {"success", "pending", "none"}, InitiateTransfer(h, answer)
        PROVE  Typed
    <3>1. (answer = "success") \in BOOLEAN
      OBVIOUS
    <3>2. CASE answer = "none"
      BY <1>b, <2>6, <3>2 DEF InitiateTransfer
    <3>3. CASE answer # "none"
      BY <2>6, <3>1, <3>3, Flags DEF InitiateTransfer, Steps, Typed
    <3> QED
      BY <3>2, <3>3
  <2>7. CASE RecordDebit(h)
    BY <1>b, <2>7 DEF RecordDebit
  <2> QED
    BY <1>3, <2>1, <2>2, <2>3, <2>4, <2>5, <2>6, <2>7 DEF Verifications
<1>4. CASE DropHand(h)
  BY <1>b, <1>4 DEF DropHand
<1> QED
  BY <1>1, <1>2, <1>3, <1>4 DEF Handler

-----------------------------------------------------------------------------
\* Every step keeps the state well formed.

\* The history of overlaps stays within its kinds.
LEMMA OverlapTyped ==
    ASSUME TypeOK, NEW what \in {"banks", "request", "withdraw"}, NEW steps,
           Overlap(what, steps)
    PROVE  /\ raced' \subseteq {"banks", "request", "withdraw"}
           /\ raced \subseteq raced'
  BY DEF TypeOK, Overlap

\* Every step keeps the types.
LEMMA Types ==
    ASSUME TypeOK, [Next]_vars
    PROVE  TypeOK'
<1> USE DEF ledger, paystack, history
<1>1. ASSUME NEW h \in Hands, Accounts(h)
      PROVE  TypeOK'
  <2>0. hand' \in [Hands -> Job]
    BY <1>1, Moves DEF Handler
  <2>1. ASSUME NEW n \in Numbers, AddBankAccount(h, n)
        PROVE  TypeOK'
    BY <2>0, <2>1, OverlapTyped DEF AddBankAccount, TypeOK
  <2>2. CASE FindNumber(h) \/ FindDefault(h)
    BY <2>0, <2>2 DEF FindNumber, FindDefault, TypeOK
  <2>4. ASSUME NEW b \in Banks, NEW r \in BOOLEAN, InsertBank(h, b, r)
        PROVE  TypeOK'
    <3>1. [state |-> "SAVED", number |-> hand[h].number, default |-> hand[h].flag,
           recipient |-> r] \in BankRow
      BY Fields DEF BankRow
    <3> QED
      BY <2>0, <2>4, <3>1 DEF InsertBank, TypeOK
  <2>5. ASSUME NEW b \in Banks, SetDefaultBankAccount(h, b)
        PROVE  TypeOK'
    BY <2>0, <2>5, OverlapTyped DEF SetDefaultBankAccount, TypeOK
  <2>6. CASE UnsetDefaults(h)
    <3>1. \A b \in Banks : [bank[b] EXCEPT !.default = @ /\ b \notin Saved] \in BankRow
      BY DEF TypeOK, BankRow
    <3>2. bank' \in [Banks -> BankRow]
      BY <2>6, <3>1 DEF UnsetDefaults
    <3> QED
      BY <2>0, <2>6, <3>2 DEF UnsetDefaults, TypeOK
  <2>7. CASE SetDefault(h)
    <3>1. \A b \in Banks : [bank[b] EXCEPT !.default = TRUE] \in BankRow
      BY DEF TypeOK, BankRow
    <3>2. bank' \in [Banks -> BankRow]
      BY <2>7, <3>1 DEF SetDefault, TypeOK, Saved
    <3>3. orphaned' \in BOOLEAN
      BY <2>7 DEF SetDefault, TypeOK
    <3> QED
      BY <2>0, <2>7, <3>2, <3>3 DEF SetDefault, TypeOK
  <2> QED
    BY <1>1, <2>1, <2>2, <2>4, <2>5, <2>6, <2>7 DEF Accounts
<1>2. ASSUME NEW h \in Hands, Requests(h)
      PROVE  TypeOK'
  <2>0. hand' \in [Hands -> Job]
    BY <1>2, Moves DEF Handler
  <2>1. ASSUME NEW a \in Amounts, NEW b \in Banks, RequestWithdrawalOtp(h, a, b)
        PROVE  TypeOK'
    BY <2>0, <2>1 DEF RequestWithdrawalOtp, TypeOK
  <2>2. CASE FindAccount(h)
    BY <2>0, <2>2 DEF FindAccount, TypeOK
  <2>3. CASE RetireOtps(h)
    <3>1. \A o \in Otps : [otp[o] EXCEPT !.state = "USED"] \in OtpRow
      BY DEF TypeOK, OtpRow
    <3>2. otp' \in [Otps -> OtpRow]
      BY <2>3, <3>1 DEF RetireOtps, TypeOK
    <3> QED
      BY <2>0, <2>3, <3>2, OverlapTyped DEF RetireOtps, TypeOK
  <2>4. ASSUME NEW o \in Otps, IssueOtp(h, o)
        PROVE  TypeOK'
    <3>1. [state |-> "LIVE", amount |-> hand[h].amount, bank |-> hand[h].bank] \in OtpRow
      BY Fields DEF OtpRow
    <3> QED
      BY <2>0, <2>4, <3>1 DEF IssueOtp, TypeOK
  <2> QED
    BY <1>2, <2>1, <2>2, <2>3, <2>4 DEF Requests
<1>3. ASSUME NEW h \in Hands, Verifications(h)
      PROVE  TypeOK'
  <2>0. hand' \in [Hands -> Job]
    BY <1>3, Moves DEF Handler
  <2>1. ASSUME NEW o \in Otps, VerifyWithdrawalOtp(h, o)
        PROVE  TypeOK'
    BY <2>0, <2>1 DEF VerifyWithdrawalOtp, TypeOK
  <2>2. CASE FindPayee(h)
    BY <2>0, <2>2 DEF FindPayee, TypeOK
  <2>3. CASE CheckBalance(h)
    BY <2>0, <2>3, OverlapTyped DEF CheckBalance, TypeOK
  <2>4. CASE UseOtp(h)
    <3>1. \A o \in Otps : [otp[o] EXCEPT !.state = "USED"] \in OtpRow
      BY DEF TypeOK, OtpRow
    <3>2. otp' \in [Otps -> OtpRow]
      BY <2>4, <3>1 DEF UseOtp, TypeOK
    <3> QED
      BY <2>0, <2>4, <3>2 DEF UseOtp, TypeOK
  <2>5. CASE CreateRecipient(h)
    <3>1. \A b \in Banks : [bank[b] EXCEPT !.recipient = TRUE] \in BankRow
      BY DEF TypeOK, BankRow
    <3>2. bank' \in [Banks -> BankRow]
      BY <2>5, <3>1 DEF CreateRecipient, TypeOK, Saved
    <3> QED
      BY <2>0, <2>5, <3>2 DEF CreateRecipient, TypeOK
  <2>6. ASSUME NEW answer \in {"success", "pending", "none"}, InitiateTransfer(h, answer)
        PROVE  TypeOK'
    <3>1. sent' \in [Otps -> Nat]
      <4>1. \A n \in Nat : n + 1 \in Nat
        OBVIOUS
      <4>2. sent' = [sent EXCEPT ![hand[h].otp] = sent[hand[h].otp] + 1]
        BY <2>6 DEF InitiateTransfer, Accept
      <4>3. sent \in [Otps -> Nat]
        BY DEF TypeOK
      <4>4. \A o \in Otps : sent'[o] \in Nat
        BY <4>1, <4>2, <4>3
      <4> QED
        BY <4>2, <4>3, <4>4
    <3>2. paidOut' \in Nat /\ lost' \in Nat
      BY <2>6, Fields DEF InitiateTransfer, Accept, TypeOK
    <3> QED
      BY <2>0, <2>6, <3>1, <3>2 DEF InitiateTransfer, TypeOK
  <2>7. CASE RecordDebit(h)
    BY <2>0, <2>7, Fields DEF RecordDebit, TypeOK
  <2> QED
    BY <1>3, <2>1, <2>2, <2>3, <2>4, <2>5, <2>6, <2>7 DEF Verifications
<1>4. ASSUME NEW h \in Hands, DropHand(h)
      PROVE  TypeOK'
  <2>0. hand' \in [Hands -> Job]
    BY <1>4, Moves DEF Handler
  <2> QED
    BY <2>0, <1>4, Fields DEF DropHand, TypeOK
<1>5. ASSUME NEW b \in Banks, DeleteBankAccount(b)
      PROVE  TypeOK'
  <2>1. [bank[b] EXCEPT !.state = "DELETED"] \in BankRow
    BY DEF TypeOK, BankRow
  <2>2. \A o \in Otps : [otp[o] EXCEPT !.bank = NoBank] \in OtpRow
    BY DEF TypeOK, OtpRow
  <2>3. bank' \in [Banks -> BankRow]
    BY <1>5, <2>1 DEF DeleteBankAccount, TypeOK
  <2>4. otp' \in [Otps -> OtpRow]
    BY <1>5, <2>2 DEF DeleteBankAccount, TypeOK
  <2>5. orphaned' \in BOOLEAN
    BY <1>5 DEF DeleteBankAccount, TypeOK, BankRow
  <2> QED
    BY <1>5, <2>3, <2>4, <2>5 DEF DeleteBankAccount, TypeOK
<1>6. ASSUME NEW o \in Otps, Expire(o)
      PROVE  TypeOK'
  <2>1. [otp[o] EXCEPT !.state = "EXPIRED"] \in OtpRow
    BY DEF TypeOK, OtpRow
  <2> QED
    BY <1>6, <2>1 DEF Expire, TypeOK
<1>7. ASSUME NEW a \in Amounts, Credit(a)
      PROVE  TypeOK'
  BY <1>7, WithdrawalAssumption DEF Credit, TypeOK
<1>8. CASE UNCHANGED vars
  BY <1>8 DEF vars, TypeOK
<1> QED
  BY <1>1, <1>2, <1>3, <1>4, <1>5, <1>6, <1>7, <1>8 DEF Next

-----------------------------------------------------------------------------
\* The three kinds of handlers: the steps each goes through, and what it leaves alone.

\* The account handlers stay in their steps and leave requests and money alone.
LEMMA AccountMoves ==
    ASSUME TypeOK, NEW h \in Hands, Accounts(h)
    PROVE  /\ hand[h].step \in BankSteps \cup {"idle"}
           /\ hand'[h].step \in BankSteps \cup {"idle"}
           /\ UNCHANGED <<otp, ledger, paystack, lost, twice>>
           /\ raced \subseteq raced'
<1> USE DEF ledger, paystack, history, BankSteps
<1>1. ASSUME NEW n \in Numbers, AddBankAccount(h, n)
      PROVE  /\ hand[h].step = "idle" /\ hand'[h].step = "number"
             /\ raced \subseteq raced'
  <2>1. hand[h].step = "idle" /\ hand'[h] = [Idle EXCEPT !.step = "number", !.number = n]
    BY <1>1, Begun, Starts DEF AddBankAccount
  <2> QED
    BY <1>1, <2>1, OverlapTyped DEF AddBankAccount, Idle
<1>2. CASE FindNumber(h)
  <2>1. hand'[h] = [hand[h] EXCEPT !.step = "default"]
    BY <1>2, Goes DEF FindNumber, Steps
  <2> QED
    BY <1>2, <2>1, Fields DEF FindNumber, Job
<1>3. CASE FindDefault(h)
  <2>1. (Defaults = {}) \in BOOLEAN
    OBVIOUS
  <2>2. "insert" \in Steps
    BY DEF Steps
  <2>3. hand'[h].step = "insert"
    BY <1>3, <2>1, <2>2, Flags DEF FindDefault
  <2> QED
    BY <1>3, <2>3 DEF FindDefault
<1>4. ASSUME NEW b \in Banks, NEW r \in BOOLEAN, InsertBank(h, b, r)
      PROVE  hand[h].step = "insert" /\ hand'[h].step = "idle"
  BY <1>4, Leaves, IdleJob DEF InsertBank
<1>5. ASSUME NEW b \in Banks, SetDefaultBankAccount(h, b)
      PROVE  /\ hand[h].step = "idle" /\ hand'[h].step = "unset"
             /\ raced \subseteq raced'
  <2>1. hand[h].step = "idle" /\ hand'[h] = [Idle EXCEPT !.step = "unset", !.bank = b]
    BY <1>5, Begun, Starts DEF SetDefaultBankAccount
  <2> QED
    BY <1>5, <2>1, OverlapTyped DEF SetDefaultBankAccount, Idle
<1>6. CASE UnsetDefaults(h)
  <2>1. hand'[h] = [hand[h] EXCEPT !.step = "set"]
    BY <1>6, Goes DEF UnsetDefaults, Steps
  <2> QED
    BY <1>6, <2>1, Fields DEF UnsetDefaults, Job
<1>7. CASE SetDefault(h)
  BY <1>7, Leaves, IdleJob DEF SetDefault
<1>8. CASE \E n \in Numbers : AddBankAccount(h, n)
  BY <1>1, <1>8 DEF AddBankAccount
<1>9. CASE \E b \in Banks, r \in BOOLEAN : InsertBank(h, b, r)
  BY <1>4, <1>9 DEF InsertBank
<1>10. CASE \E b \in Banks : SetDefaultBankAccount(h, b)
  BY <1>5, <1>10 DEF SetDefaultBankAccount
<1> QED
  BY <1>2, <1>3, <1>6, <1>7, <1>8, <1>9, <1>10 DEF Accounts

\* The request handlers stay in their steps and leave accounts and money alone.
LEMMA RequestMoves ==
    ASSUME TypeOK, NEW h \in Hands, Requests(h)
    PROVE  /\ hand[h].step \in {"idle", "account", "retire", "issue"}
           /\ hand'[h].step \in {"idle", "account", "retire", "issue"}
           /\ UNCHANGED <<bank, ledger, paystack, lost, orphaned, twice>>
           /\ raced \subseteq raced'
<1> USE DEF ledger, paystack, history
<1>1. ASSUME NEW a \in Amounts, NEW b \in Banks, RequestWithdrawalOtp(h, a, b)
      PROVE  hand[h].step = "idle" /\ hand'[h].step = "account"
  <2>1. /\ hand[h].step = "idle"
        /\ hand'[h] = [Idle EXCEPT !.step = "account", !.bank = b, !.amount = a]
    BY <1>1, Begun, Starts, WithdrawalAssumption DEF RequestWithdrawalOtp
  <2> QED
    BY <2>1 DEF Idle
<1>2. CASE FindAccount(h)
  <2>1. hand'[h] = [hand[h] EXCEPT !.step = "retire"]
    BY <1>2, Goes DEF FindAccount, Steps
  <2> QED
    BY <1>2, <2>1, Fields DEF FindAccount, Job
<1>3. CASE RetireOtps(h)
  <2>1. hand'[h] = [hand[h] EXCEPT !.step = "issue"]
    BY <1>3, Goes DEF RetireOtps, Steps
  <2> QED
    <3>1. hand[h].step = "retire" /\ hand'[h].step = "issue"
      BY <1>3, <2>1, Fields DEF RetireOtps, Job
    <3>2. raced \subseteq raced'
      BY <1>3, OverlapTyped DEF RetireOtps
    <3> QED
      BY <1>3, <3>1, <3>2 DEF RetireOtps
<1>4. ASSUME NEW o \in Otps, IssueOtp(h, o)
      PROVE  hand[h].step = "issue" /\ hand'[h].step = "idle"
  BY <1>4, Leaves, IdleJob DEF IssueOtp
<1>5. CASE \E a \in Amounts, b \in Banks : RequestWithdrawalOtp(h, a, b)
  BY <1>1, <1>5 DEF RequestWithdrawalOtp
<1>6. CASE \E o \in Otps : IssueOtp(h, o)
  BY <1>4, <1>6 DEF IssueOtp
<1> QED
  BY <1>2, <1>3, <1>5, <1>6 DEF Requests

\* The verification handlers stay in their steps and credit nothing.
LEMMA VerificationMoves ==
    ASSUME TypeOK, NEW h \in Hands, Verifications(h)
    PROVE  /\ hand[h].step \in {"idle", "payee", "balance"} \cup Withdrawing
           /\ hand'[h].step \in {"idle", "payee", "balance"} \cup Withdrawing
           /\ credited' = credited /\ orphaned' = orphaned
           /\ raced \subseteq raced'
<1> USE DEF ledger, paystack, history, Withdrawing
<1>1. ASSUME NEW o \in Otps, VerifyWithdrawalOtp(h, o)
      PROVE  hand[h].step = "idle" /\ hand'[h].step = "payee"
  <2>1. otp[o].bank \in Banks \cup {NoBank} /\ otp[o].amount \in Nat
    BY DEF TypeOK, OtpRow
  <2>2. /\ hand[h].step = "idle"
        /\ hand'[h] = [Idle EXCEPT !.step = "payee", !.otp = o, !.bank = otp[o].bank,
                                    !.amount = otp[o].amount]
    BY <1>1, <2>1, Begun, Starts DEF VerifyWithdrawalOtp
  <2> QED
    BY <2>2 DEF Idle
<1>2. CASE FindPayee(h)
  <2>1. bank[hand[h].bank].recipient \in BOOLEAN
    BY <1>2 DEF FindPayee, Saved, TypeOK, BankRow
  <2>2. hand'[h].step = "balance"
    BY <1>2, <2>1, Flags DEF FindPayee, Steps
  <2> QED
    BY <1>2, <2>2 DEF FindPayee
<1>3. CASE CheckBalance(h)
  <2>1. hand'[h] = [hand[h] EXCEPT !.step = "use"]
    BY <1>3, Goes DEF CheckBalance, Steps
  <2>2. hand[h].step = "balance" /\ hand'[h].step = "use"
    BY <1>3, <2>1, Fields DEF CheckBalance, Job
  <2>3. raced \subseteq raced'
    BY <1>3, OverlapTyped DEF CheckBalance
  <2> QED
    BY <1>3, <2>2, <2>3 DEF CheckBalance
<1>4. CASE UseOtp(h)
  <2>1. (IF hand[h].flag THEN "transfer" ELSE "recipient") \in Steps
    BY DEF Steps
  <2>2. hand'[h] = [hand[h] EXCEPT !.step = IF hand[h].flag THEN "transfer" ELSE "recipient"]
    BY <1>4, <2>1, Goes DEF UseOtp
  <2>3. hand'[h].step \in {"transfer", "recipient"}
    BY <2>2, Fields DEF Job
  <2> QED
    BY <1>4, <2>3 DEF UseOtp
<1>5. CASE CreateRecipient(h)
  <2>1. hand'[h] = [hand[h] EXCEPT !.step = "transfer"]
    BY <1>5, Goes DEF CreateRecipient, Steps
  <2> QED
    BY <1>5, <2>1, Fields DEF CreateRecipient, Job
<1>6. ASSUME NEW answer \in {"success", "pending", "none"}, InitiateTransfer(h, answer)
      PROVE  hand[h].step = "transfer" /\ hand'[h].step \in {"idle", "record"}
  <2>1. (answer = "success") \in BOOLEAN /\ "record" \in Steps
    BY DEF Steps
  <2>2. CASE answer = "none"
    BY <1>6, <2>2, Leaves, IdleJob DEF InitiateTransfer
  <2>3. CASE answer # "none"
    BY <1>6, <2>1, <2>3, Flags DEF InitiateTransfer
  <2> QED
    BY <1>6, <2>2, <2>3 DEF InitiateTransfer
<1>7. CASE RecordDebit(h)
  BY <1>7, Leaves, IdleJob DEF RecordDebit
<1>8. CASE \E o \in Otps : VerifyWithdrawalOtp(h, o)
  BY <1>1, <1>8 DEF VerifyWithdrawalOtp
<1>9. CASE \E answer \in {"success", "pending", "none"} : InitiateTransfer(h, answer)
  BY <1>6, <1>9 DEF InitiateTransfer
<1> QED
  BY <1>2, <1>3, <1>4, <1>5, <1>7, <1>8, <1>9 DEF Verifications

-----------------------------------------------------------------------------
\* Money

\* A handler that stays out of the withdrawal proper leaves the money alone.
LEMMA MoneyFrame ==
    ASSUME TypeOK, MoneyHolds, NEW h \in Hands,
           \A g \in Hands : g # h => hand'[g] = hand[g],
           hand[h].step \notin Withdrawing, hand'[h].step \notin Withdrawing,
           UNCHANGED <<ledger, paidOut, lost>>, raced \subseteq raced'
    PROVE  MoneyHolds'
<1> SUFFICES ASSUME "withdraw" \notin raced'
             PROVE  MoneyHolds'
  BY DEF MoneyHolds
<1>1. "withdraw" \notin raced
  OBVIOUS
<1>2. "record" \in Withdrawing
  BY DEF Withdrawing
<1>3. \A g \in Hands : hand'[g].step \in Withdrawing =>
                          /\ hand'[g] = hand[g]
                          /\ hand[g].step \in Withdrawing
  OBVIOUS
<1>4. \A g \in Hands : hand[g].step \in Withdrawing => hand'[g] = hand[g]
  OBVIOUS
<1>5. /\ In(Withdrawing)' = In(Withdrawing)
      /\ In({"record"})' = In({"record"})
      /\ \A g \in In(Withdrawing) : hand'[g] = hand[g]
      /\ In({"record"}) \subseteq In(Withdrawing)
  BY <1>2, <1>3, <1>4 DEF In
<1> QED
  BY <1>1, <1>5 DEF MoneyHolds, Alone, ledger

\* A handler of the withdrawal that stays in it, and away from its last step, does
\* too, as long as its amount is the same.
LEMMA MoneyMoves ==
    ASSUME TypeOK, MoneyHolds, NEW h \in Hands,
           \A g \in Hands : g # h => hand'[g] = hand[g],
           hand[h].step \in Withdrawing \ {"record"},
           hand'[h].step \in Withdrawing \ {"record"} \/ hand'[h] = Idle,
           hand'[h].amount = hand[h].amount \/ hand'[h] = Idle,
           UNCHANGED <<ledger, paidOut, lost, raced>>
    PROVE  MoneyHolds'
<1> SUFFICES ASSUME "withdraw" \notin raced
             PROVE  MoneyHolds'
  BY DEF MoneyHolds
<1>1. Idle.step \notin Withdrawing
  BY IdleJob DEF Withdrawing
<1>2. \A g \in Hands : /\ hand'[g].step \in Withdrawing => hand[g].step \in Withdrawing
                       /\ hand'[g].step \in Withdrawing => hand'[g].amount = hand[g].amount
                       /\ hand'[g].step = "record" <=> hand[g].step = "record"
  BY <1>1 DEF Withdrawing
<1>3. /\ In(Withdrawing)' \subseteq In(Withdrawing)
      /\ In({"record"})' = In({"record"})
      /\ In({"record"}) \subseteq In(Withdrawing)
  BY <1>2 DEF In, Withdrawing
<1>4. Alone(Withdrawing)'
  BY <1>3 DEF MoneyHolds, Alone
<1>5. \A g \in In({"record"}) : hand'[g].amount = hand[g].amount
  BY <1>2 DEF In, Withdrawing
<1>6. \A g \in In(Withdrawing)' : (debited + hand[g].amount <= credited)'
  BY <1>2, <1>3 DEF MoneyHolds, ledger, In
<1> QED
  BY <1>3, <1>4, <1>5, <1>6 DEF MoneyHolds, ledger

\* Every step keeps what handlers know of the money.
LEMMA MoneyStep ==
    ASSUME TypeOK, MoneyHolds, [Next]_vars
    PROVE  MoneyHolds'
<1> USE DEF ledger, paystack, history
<1>1. ASSUME NEW h \in Hands, Accounts(h) \/ Requests(h)
      PROVE  MoneyHolds'
  <2>1. \A g \in Hands : g # h => hand'[g] = hand[g]
    BY <1>1, Moves DEF Handler
  <2>2. /\ hand[h].step \notin Withdrawing /\ hand'[h].step \notin Withdrawing
        /\ UNCHANGED <<ledger, paidOut, lost>> /\ raced \subseteq raced'
    BY <1>1, AccountMoves, RequestMoves DEF BankSteps, Withdrawing
  <2> QED
    BY <2>1, <2>2, MoneyFrame
<1>2. ASSUME NEW h \in Hands, Verifications(h)
      PROVE  MoneyHolds'
  <2>0. \A g \in Hands : g # h => hand'[g] = hand[g]
    BY <1>2, Moves DEF Handler
  <2>1. ASSUME NEW o \in Otps, VerifyWithdrawalOtp(h, o)
        PROVE  MoneyHolds'
    <3>1. otp[o].bank \in Banks \cup {NoBank} /\ otp[o].amount \in Nat
      BY DEF TypeOK, OtpRow
    <3>2. /\ hand[h].step = "idle"
          /\ hand'[h] = [Idle EXCEPT !.step = "payee", !.otp = o, !.bank = otp[o].bank,
                                      !.amount = otp[o].amount]
      BY <2>1, <3>1, Begun, Starts DEF VerifyWithdrawalOtp
    <3>3. hand[h].step \notin Withdrawing /\ hand'[h].step \notin Withdrawing
      BY <3>2 DEF Withdrawing, Idle
    <3> QED
      BY <2>0, <2>1, <3>3, MoneyFrame DEF VerifyWithdrawalOtp
  <2>2. CASE FindPayee(h)
    <3>1. bank[hand[h].bank].recipient \in BOOLEAN
      BY <2>2 DEF FindPayee, Saved, TypeOK, BankRow
    <3>2. hand'[h].step = "balance"
      BY <2>2, <3>1, Flags DEF FindPayee, Steps
    <3>3. hand[h].step \notin Withdrawing /\ hand'[h].step \notin Withdrawing
      BY <2>2, <3>2 DEF FindPayee, Withdrawing
    <3> QED
      BY <2>0, <2>2, <3>3, MoneyFrame DEF FindPayee
  <2>3. CASE CheckBalance(h)
    <3>1. hand'[h] = [hand[h] EXCEPT !.step = "use"]
      BY <2>3, Goes DEF CheckBalance, Steps
    <3>2. /\ hand'[h].step = "use" /\ hand'[h].amount = hand[h].amount
          /\ debited + hand'[h].amount <= credited
      BY <2>3, <3>1, Fields DEF CheckBalance, Job, Balance, TypeOK
    <3> SUFFICES ASSUME "withdraw" \notin raced'
                 PROVE  MoneyHolds'
      BY DEF MoneyHolds
    <3>3. "withdraw" \notin raced /\ In(Withdrawing) = {}
      BY <2>3 DEF CheckBalance, Overlap, In
    <3>4. In({"record"}) = {} /\ In({"record"})' = {}
      BY <3>3, <3>2, <2>0 DEF In, Withdrawing
    <3>5. In(Withdrawing)' = {h}
      BY <3>3, <3>2, <2>0 DEF In, Withdrawing
    <3> QED
      BY <2>3, <3>2, <3>3, <3>4, <3>5 DEF MoneyHolds, Alone, CheckBalance
  <2>4. CASE UseOtp(h)
    <3>1. (IF hand[h].flag THEN "transfer" ELSE "recipient") \in Steps
      BY DEF Steps
    <3>2. hand'[h] = [hand[h] EXCEPT !.step = IF hand[h].flag THEN "transfer" ELSE "recipient"]
      BY <2>4, <3>1, Goes DEF UseOtp
    <3>3. /\ hand'[h].step \in {"transfer", "recipient"}
          /\ hand'[h].amount = hand[h].amount
      BY <3>2, Fields DEF Job
    <3> QED
      BY <2>0, <2>4, <3>3, MoneyMoves DEF UseOtp, Withdrawing
  <2>5. CASE CreateRecipient(h)
    <3>1. hand'[h] = [hand[h] EXCEPT !.step = "transfer"]
      BY <2>5, Goes DEF CreateRecipient, Steps
    <3>2. hand'[h].step = "transfer" /\ hand'[h].amount = hand[h].amount
      BY <3>1, Fields DEF Job
    <3> QED
      BY <2>0, <2>5, <3>2, MoneyMoves DEF CreateRecipient, Withdrawing
  <2>6. ASSUME NEW answer \in {"success", "pending", "none"}, InitiateTransfer(h, answer)
        PROVE  MoneyHolds'
    <3> SUFFICES ASSUME "withdraw" \notin raced
                 PROVE  MoneyHolds'
      BY <2>6 DEF MoneyHolds, InitiateTransfer
    <3>1. h \in In(Withdrawing) /\ In({"record"}) \subseteq In(Withdrawing)
      BY <2>6 DEF InitiateTransfer, In, Withdrawing
    <3>2. In(Withdrawing) = {h} /\ In({"record"}) = {}
      BY <2>6, <3>1 DEF MoneyHolds, Alone, InitiateTransfer, In
    <3>3. paidOut = debited + pending + lost /\ paidOut' = paidOut + hand[h].amount
      BY <2>6, <3>2 DEF MoneyHolds, InitiateTransfer, Accept
    <3>4. \A g \in Hands : g # h => hand'[g].step \notin Withdrawing
      BY <2>0, <3>2 DEF In
    <3>5. CASE answer = "none"
      <4>1. hand'[h].step = "idle" /\ lost' = lost + hand[h].amount
        BY <2>6, <3>5, Leaves, IdleJob DEF InitiateTransfer
      <4>2. In(Withdrawing)' = {} /\ In({"record"})' = {}
        BY <3>4, <4>1 DEF In, Withdrawing
      <4> QED
        BY <2>6, <3>3, <4>1, <4>2, Fields DEF MoneyHolds, Alone, InitiateTransfer, TypeOK
    <3>6. CASE answer # "none"
      <4>1. (answer = "success") \in BOOLEAN
        OBVIOUS
      <4>2. "record" \in Steps
        BY DEF Steps
      <4>3. hand'[h].step = "record" /\ hand'[h].amount = hand[h].amount
        BY <2>6, <3>6, <4>1, <4>2, Flags DEF InitiateTransfer
      <4>4. In(Withdrawing)' = {h} /\ In({"record"})' = {h}
        BY <3>4, <4>3 DEF In, Withdrawing
      <4> QED
        BY <2>6, <3>1, <3>3, <3>6, <4>3, <4>4, Fields
        DEF MoneyHolds, Alone, InitiateTransfer, TypeOK
    <3> QED
      BY <3>5, <3>6
  <2>7. CASE RecordDebit(h)
    <3> SUFFICES ASSUME "withdraw" \notin raced
                 PROVE  MoneyHolds'
      BY <2>7 DEF MoneyHolds, RecordDebit
    <3>1. h \in In(Withdrawing) /\ h \in In({"record"})
      BY <2>7 DEF RecordDebit, In, Withdrawing
    <3>2. In(Withdrawing) = {h}
      BY <3>1 DEF MoneyHolds, Alone
    <3>3. hand'[h].step = "idle"
      BY <2>7, Leaves, IdleJob DEF RecordDebit
    <3>4. In(Withdrawing)' = {} /\ In({"record"})' = {}
      BY <2>0, <3>2, <3>3 DEF In, Withdrawing
    <3>5. /\ paidOut = debited + pending + lost + hand[h].amount
          /\ debited + hand[h].amount <= credited /\ debited <= credited
      BY <3>1 DEF MoneyHolds
    <3> QED
      BY <2>7, <3>4, <3>5, Fields DEF MoneyHolds, Alone, RecordDebit, TypeOK
  <2> QED
    BY <1>2, <2>1, <2>2, <2>3, <2>4, <2>5, <2>6, <2>7 DEF Verifications
<1>3. ASSUME NEW h \in Hands, DropHand(h)
      PROVE  MoneyHolds'
  <2>0. \A g \in Hands : g # h => hand'[g] = hand[g]
    BY <1>3, Moves DEF Handler
  <2>1. hand'[h] = Idle
    BY <1>3, Leaves DEF DropHand
  <2>2. CASE hand[h].step \in Withdrawing \ {"record"}
    BY <1>3, <2>0, <2>1, <2>2, MoneyMoves DEF DropHand
  <2>3. CASE hand[h].step \notin Withdrawing
    BY <1>3, <2>0, <2>1, <2>3, MoneyFrame, IdleJob DEF DropHand, Withdrawing
  <2>4. CASE hand[h].step = "record"
    <3> SUFFICES ASSUME "withdraw" \notin raced
                 PROVE  MoneyHolds'
      BY <1>3 DEF MoneyHolds, DropHand
    <3>1. h \in In(Withdrawing) /\ h \in In({"record"})
      BY <2>4 DEF In, Withdrawing
    <3>2. In(Withdrawing) = {h}
      BY <3>1 DEF MoneyHolds, Alone
    <3>3. In(Withdrawing)' = {} /\ In({"record"})' = {}
      BY <2>0, <2>1, <3>2, IdleJob DEF In, Withdrawing
    <3>4. /\ paidOut = debited + pending + lost + hand[h].amount
          /\ debited <= credited
      BY <3>1 DEF MoneyHolds
    <3> QED
      BY <1>3, <2>4, <3>3, <3>4, Fields DEF MoneyHolds, Alone, DropHand, TypeOK
  <2> QED
    BY <2>2, <2>3, <2>4
<1>4. ASSUME NEW b \in Banks, DeleteBankAccount(b)
      PROVE  MoneyHolds'
  BY <1>4 DEF DeleteBankAccount, MoneyHolds, Alone, In
<1>5. ASSUME NEW o \in Otps, Expire(o)
      PROVE  MoneyHolds'
  BY <1>5 DEF Expire, MoneyHolds, Alone, In
<1>6. ASSUME NEW a \in Amounts, Credit(a)
      PROVE  MoneyHolds'
  <2>1. a \in Nat
    BY WithdrawalAssumption
  <2>2. In(Withdrawing)' = In(Withdrawing) /\ In({"record"})' = In({"record"})
    BY <1>6 DEF Credit, In
  <2>3. \A h \in In(Withdrawing) : hand[h].amount \in Nat
    BY Fields DEF In
  <2> QED
    BY <1>6, <2>1, <2>2, <2>3 DEF Credit, MoneyHolds, Alone, TypeOK
<1>7. CASE UNCHANGED vars
  BY <1>7 DEF vars, MoneyHolds, Alone, In
<1> QED
  BY <1>1, <1>2, <1>3, <1>4, <1>5, <1>6, <1>7 DEF Next

-----------------------------------------------------------------------------
\* Requests being verified

\* A step after which every handler before its transfer was so already, with the
\* same request, and which takes no request's "USED" back, keeps this part.
LEMMA OtpsFrame ==
    ASSUME TypeOK, OtpsHold, sent' = sent, twice \subseteq twice',
           \A o \in Otps : /\ otp[o].state = "USED" => otp'[o].state = "USED"
                           /\ otp[o].state # "NONE" => otp'[o].state # "NONE",
           \A h \in Hands : hand'[h].step \in BeforeTransfer =>
               /\ hand[h].step \in BeforeTransfer /\ hand'[h].otp = hand[h].otp
               /\ hand'[h].step \in {"recipient", "transfer"} =>
                    \/ hand[h].step \in {"recipient", "transfer"}
                    \/ hand[h].otp \in Otps => otp'[hand[h].otp].state = "USED"
    PROVE  OtpsHold'
<1> SUFFICES ASSUME NEW o \in Otps, o \notin twice'
             PROVE  /\ sent[o] <= 1
                    /\ sent[o] # 0 => otp'[o].state = "USED"
                    /\ \A h \in In(BeforeTransfer)' : hand'[h].otp = o =>
                          /\ sent[o] = 0 /\ otp'[o].state # "NONE"
                          /\ hand'[h].step \in {"recipient", "transfer"}
                               => otp'[o].state = "USED"
                          /\ \A g \in In(BeforeTransfer)' : hand'[g].otp = o => g = h
  BY DEF OtpsHold
<1>1. o \in Otps \ twice
  OBVIOUS
<1>2. In(BeforeTransfer)' \subseteq In(BeforeTransfer)
  BY DEF In
<1>3. sent[o] <= 1 /\ (sent[o] # 0 => otp'[o].state = "USED")
  BY <1>1 DEF OtpsHold
<1>4. ASSUME NEW h \in In(BeforeTransfer)', hand'[h].otp = o
      PROVE  /\ sent[o] = 0 /\ otp'[o].state # "NONE"
             /\ hand'[h].step \in {"recipient", "transfer"} => otp'[o].state = "USED"
             /\ \A g \in In(BeforeTransfer)' : hand'[g].otp = o => g = h
  <2>1. h \in In(BeforeTransfer) /\ hand[h].otp = o
    BY <1>2, <1>4 DEF In
  <2>2. sent[o] = 0 /\ otp'[o].state # "NONE"
    BY <1>1, <2>1 DEF OtpsHold
  <2>3. hand'[h].step \in {"recipient", "transfer"} => otp'[o].state = "USED"
    BY <1>1, <1>4, <2>1 DEF OtpsHold, In
  <2>4. \A g \in In(BeforeTransfer)' : hand'[g].otp = o => g = h
    BY <1>1, <1>2, <2>1 DEF OtpsHold, In
  <2> QED
    BY <2>2, <2>3, <2>4
<1> QED
  BY <1>3, <1>4

\* Every step keeps what handlers know of the request they verify.
LEMMA OtpsStep ==
    ASSUME TypeOK, OtpsHold, [Next]_vars
    PROVE  OtpsHold'
<1> USE DEF ledger, paystack, history
<1>1. ASSUME NEW h \in Hands, Accounts(h)
      PROVE  OtpsHold'
  <2>1. /\ \A g \in Hands : g # h => hand'[g] = hand[g]
        /\ hand'[h].step \notin BeforeTransfer
        /\ UNCHANGED <<otp, sent, twice>>
    BY <1>1, Moves, AccountMoves DEF Handler, BankSteps, BeforeTransfer
  <2> QED
    BY <2>1, OtpsFrame
<1>2. ASSUME NEW h \in Hands, Requests(h)
      PROVE  OtpsHold'
  <2>1. /\ \A g \in Hands : g # h => hand'[g] = hand[g]
        /\ hand'[h].step \notin BeforeTransfer
        /\ UNCHANGED <<sent, twice>>
    BY <1>2, Moves, RequestMoves DEF Handler, BeforeTransfer
  <2>2. \A o \in Otps : /\ otp[o].state = "USED" => otp'[o].state = "USED"
                        /\ otp[o].state # "NONE" => otp'[o].state # "NONE"
    <3>1. otp \in [Otps -> OtpRow]
      BY DEF TypeOK
    <3>2. CASE RetireOtps(h)
      BY <3>1, <3>2 DEF RetireOtps, OtpRow
    <3>3. ASSUME NEW p \in Otps, IssueOtp(h, p)
          PROVE  \A o \in Otps : /\ otp[o].state = "USED" => otp'[o].state = "USED"
                                 /\ otp[o].state # "NONE" => otp'[o].state # "NONE"
      BY <3>1, <3>3 DEF IssueOtp
    <3> QED
      BY <1>2, <3>2, <3>3 DEF Requests, RequestWithdrawalOtp, FindAccount
  <2> QED
    BY <2>1, <2>2, OtpsFrame
<1>3. ASSUME NEW h \in Hands, Verifications(h)
      PROVE  OtpsHold'
  <2>0. \A g \in Hands : g # h => hand'[g] = hand[g]
    BY <1>3, Moves DEF Handler
  <2>1. ASSUME NEW o \in Otps, VerifyWithdrawalOtp(h, o)
        PROVE  OtpsHold'
    <3>1. otp[o].bank \in Banks \cup {NoBank} /\ otp[o].amount \in Nat
      BY DEF TypeOK, OtpRow
    <3>2. /\ hand[h].step = "idle"
          /\ hand'[h] = [Idle EXCEPT !.step = "payee", !.otp = o, !.bank = otp[o].bank,
                                      !.amount = otp[o].amount]
      BY <2>1, <3>1, Begun, Starts DEF VerifyWithdrawalOtp
    <3>3. hand'[h].step = "payee" /\ hand'[h].otp = o
      BY <3>2 DEF Idle
    <3> SUFFICES ASSUME NEW p \in Otps, p \notin twice'
                 PROVE  /\ sent[p] <= 1
                        /\ sent[p] # 0 => otp[p].state = "USED"
                        /\ \A g \in In(BeforeTransfer)' : hand'[g].otp = p =>
                              /\ sent[p] = 0 /\ otp[p].state # "NONE"
                              /\ hand'[g].step \in {"recipient", "transfer"}
                                   => otp[p].state = "USED"
                              /\ \A f \in In(BeforeTransfer)' : hand'[f].otp = p => f = g
      BY <2>1 DEF OtpsHold, VerifyWithdrawalOtp
    <3>4. p \in Otps \ twice
      BY <2>1 DEF VerifyWithdrawalOtp
    <3>5. sent[p] <= 1 /\ (sent[p] # 0 => otp[p].state = "USED")
      BY <3>4 DEF OtpsHold
    <3>6. \A g \in In(BeforeTransfer)' :
             g = h \/ (g \in In(BeforeTransfer) /\ hand'[g] = hand[g])
      BY <2>0 DEF In
    <3>7. CASE p = o
      <4>1. otp[p].state = "LIVE"
        BY <2>1, <3>7 DEF VerifyWithdrawalOtp
      <4>2. ~Verifying(o)
        BY <2>1, <3>7 DEF VerifyWithdrawalOtp
      <4>3. \A g \in In(BeforeTransfer) : hand[g].otp # o
        <5>1. \A g \in In(BeforeTransfer) : hand[g].otp = o
                                             => hand[g].step \notin {"recipient", "transfer"}
          BY <3>4, <3>7, <4>1 DEF OtpsHold
        <5> QED
          BY <4>2, <5>1 DEF Verifying, In, BeforeTransfer
      <4>4. \A g \in In(BeforeTransfer)' : hand'[g].otp = p => g = h
        BY <3>6, <3>7, <4>3
      <4>5. sent[p] = 0
        BY <3>5, <4>1
      <4> QED
        BY <3>3, <3>5, <4>1, <4>4, <4>5
    <3>8. CASE p # o
      <4>1. \A g \in In(BeforeTransfer)' : hand'[g].otp = p =>
               g \in In(BeforeTransfer) /\ hand'[g] = hand[g]
        BY <3>3, <3>6, <3>8
      <4> QED
        BY <3>4, <3>5, <4>1 DEF OtpsHold
    <3> QED
      BY <3>7, <3>8
  <2>2. CASE FindPayee(h)
    <3>1. bank[hand[h].bank].recipient \in BOOLEAN
      BY <2>2 DEF FindPayee, Saved, TypeOK, BankRow
    <3>2. hand'[h].step = "balance" /\ hand'[h].otp = hand[h].otp
      BY <2>2, <3>1, Flags DEF FindPayee, Steps
    <3> QED
      BY <2>0, <2>2, <3>2, OtpsFrame DEF FindPayee, BeforeTransfer
  <2>3. CASE CheckBalance(h)
    <3>1. hand'[h] = [hand[h] EXCEPT !.step = "use"]
      BY <2>3, Goes DEF CheckBalance, Steps
    <3>2. hand'[h].step = "use" /\ hand'[h].otp = hand[h].otp
      BY <3>1, Fields DEF Job
    <3> QED
      BY <2>0, <2>3, <3>2, OtpsFrame DEF CheckBalance, BeforeTransfer
  <2>4. CASE UseOtp(h)
    <3>1. (IF hand[h].flag THEN "transfer" ELSE "recipient") \in Steps
      BY DEF Steps
    <3>2. hand'[h] = [hand[h] EXCEPT !.step = IF hand[h].flag THEN "transfer" ELSE "recipient"]
      BY <2>4, <3>1, Goes DEF UseOtp
    <3>3. /\ hand'[h].step \in {"transfer", "recipient"}
          /\ hand'[h].otp = hand[h].otp
      BY <3>2, Fields DEF Job
    <3>4. /\ \A o \in Otps : \/ otp'[o].state = otp[o].state
                             \/ otp'[o].state = "USED"
          /\ hand[h].otp \in Otps => otp'[hand[h].otp].state = "USED"
      BY <2>4 DEF UseOtp, TypeOK, OtpRow
    <3> QED
      BY <2>0, <2>4, <3>3, <3>4, OtpsFrame DEF UseOtp, BeforeTransfer
  <2>5. CASE CreateRecipient(h)
    <3>1. hand'[h] = [hand[h] EXCEPT !.step = "transfer"]
      BY <2>5, Goes DEF CreateRecipient, Steps
    <3>2. hand'[h].step = "transfer" /\ hand'[h].otp = hand[h].otp
      BY <3>1, Fields DEF Job
    <3> QED
      BY <2>0, <2>5, <3>2, OtpsFrame DEF CreateRecipient, BeforeTransfer
  <2>6. ASSUME NEW answer \in {"success", "pending", "none"}, InitiateTransfer(h, answer)
        PROVE  OtpsHold'
    <3>1. hand'[h].step \notin BeforeTransfer
      <4>1. CASE answer = "none"
        BY <2>6, <4>1, Leaves, IdleJob DEF InitiateTransfer, BeforeTransfer
      <4>2. CASE answer # "none"
        <5>1. (answer = "success") \in BOOLEAN
          OBVIOUS
        <5>2. "record" \in Steps
          BY DEF Steps
        <5>3. hand'[h].step = "record"
          BY <2>6, <4>2, <5>1, <5>2, Flags DEF InitiateTransfer
        <5> QED
          BY <5>3 DEF BeforeTransfer
      <4> QED
        BY <4>1, <4>2
    <3>2. otp' = otp /\ twice' = twice /\ hand[h].step = "transfer"
      BY <2>6 DEF InitiateTransfer
    <3>3. h \in In(BeforeTransfer)
      BY <3>2 DEF In, BeforeTransfer
    <3>4. \A g \in In(BeforeTransfer)' : g # h /\ g \in In(BeforeTransfer) /\ hand'[g] = hand[g]
      BY <2>0, <3>1 DEF In
    <3>5. \A p \in Otps : sent'[p] = IF p = hand[h].otp THEN sent[p] + 1 ELSE sent[p]
      BY <2>6 DEF InitiateTransfer, Accept, TypeOK
    <3> SUFFICES ASSUME NEW p \in Otps, p \notin twice
                 PROVE  /\ sent'[p] <= 1
                        /\ sent'[p] # 0 => otp[p].state = "USED"
                        /\ \A g \in In(BeforeTransfer)' : hand[g].otp = p =>
                              /\ sent'[p] = 0 /\ otp[p].state # "NONE"
                              /\ hand[g].step \in {"recipient", "transfer"}
                                   => otp[p].state = "USED"
                              /\ \A f \in In(BeforeTransfer)' : hand[f].otp = p => f = g
      BY <3>2, <3>4 DEF OtpsHold
    <3>6. CASE p = hand[h].otp
      <4>1. sent[p] = 0 /\ otp[p].state = "USED"
        BY <3>2, <3>3, <3>6 DEF OtpsHold
      <4>2. \A g \in In(BeforeTransfer)' : hand[g].otp # p
        BY <3>3, <3>4, <3>6 DEF OtpsHold
      <4> QED
        BY <3>5, <3>6, <4>1, <4>2
    <3>7. CASE p # hand[h].otp
      BY <3>4, <3>5, <3>7 DEF OtpsHold
    <3> QED
      BY <3>6, <3>7
  <2>7. CASE RecordDebit(h)
    <3>1. hand'[h].step \notin BeforeTransfer
      BY <2>7, Leaves, IdleJob DEF RecordDebit, BeforeTransfer
    <3> QED
      BY <2>0, <2>7, <3>1, OtpsFrame DEF RecordDebit
  <2> QED
    BY <1>3, <2>1, <2>2, <2>3, <2>4, <2>5, <2>6, <2>7 DEF Verifications
<1>4. ASSUME NEW h \in Hands, DropHand(h)
      PROVE  OtpsHold'
  <2>1. /\ \A g \in Hands : g # h => hand'[g] = hand[g]
        /\ hand'[h].step \notin BeforeTransfer
    BY <1>4, Leaves, IdleJob DEF DropHand, BeforeTransfer
  <2> QED
    BY <1>4, <2>1, OtpsFrame DEF DropHand
<1>5. ASSUME NEW b \in Banks, DeleteBankAccount(b)
      PROVE  OtpsHold'
  <2>1. \A o \in Otps : otp'[o].state = otp[o].state
    BY <1>5 DEF DeleteBankAccount, TypeOK, OtpRow
  <2> QED
    BY <1>5, <2>1, OtpsFrame DEF DeleteBankAccount
<1>6. ASSUME NEW o \in Otps, Expire(o)
      PROVE  OtpsHold'
  <2>1. \A p \in Otps : /\ otp[p].state = "USED" => otp'[p].state = "USED"
                        /\ otp[p].state # "NONE" => otp'[p].state # "NONE"
    BY <1>6 DEF Expire, TypeOK, OtpRow
  <2> QED
    BY <1>6, <2>1, OtpsFrame DEF Expire
<1>7. ASSUME NEW a \in Amounts, Credit(a)
      PROVE  OtpsHold'
  BY <1>7, OtpsFrame DEF Credit
<1>8. CASE UNCHANGED vars
  BY <1>8, OtpsFrame DEF vars
<1> QED
  BY <1>1, <1>2, <1>3, <1>4, <1>5, <1>6, <1>7, <1>8 DEF Next

-----------------------------------------------------------------------------
\* Requests being made

\* Fewer open requests, and fewer handlers about to issue one, do no harm.
LEMMA RequestsFrame ==
    ASSUME RequestsHold, In({"issue"})' \subseteq In({"issue"}), Live' \subseteq Live,
           raced \subseteq raced'
    PROVE  RequestsHold'
  BY DEF RequestsHold, Alone

\* Every step keeps what handlers know of the open requests.
LEMMA RequestsStep ==
    ASSUME TypeOK, RequestsHold, [Next]_vars
    PROVE  RequestsHold'
<1> USE DEF ledger, paystack, history
<1>1. ASSUME NEW h \in Hands, Accounts(h)
      PROVE  RequestsHold'
  <2>1. /\ \A g \in Hands : g # h => hand'[g] = hand[g]
        /\ hand'[h].step # "issue" /\ otp' = otp /\ raced \subseteq raced'
    BY <1>1, Moves, AccountMoves DEF Handler, BankSteps
  <2>2. In({"issue"})' \subseteq In({"issue"}) /\ Live' = Live
    BY <2>1 DEF In, Live
  <2> QED
    BY <2>1, <2>2, RequestsFrame
<1>2. ASSUME NEW h \in Hands, Requests(h)
      PROVE  RequestsHold'
  <2>0. \A g \in Hands : g # h => hand'[g] = hand[g]
    BY <1>2, Moves DEF Handler
  <2>1. ASSUME NEW a \in Amounts, NEW b \in Banks, RequestWithdrawalOtp(h, a, b)
        PROVE  RequestsHold'
    <3>1. hand'[h] = [Idle EXCEPT !.step = "account", !.bank = b, !.amount = a]
      BY <2>1, Begun, Starts, WithdrawalAssumption DEF RequestWithdrawalOtp
    <3>2. In({"issue"})' \subseteq In({"issue"}) /\ Live' = Live
      BY <2>0, <2>1, <3>1 DEF In, Live, Idle, RequestWithdrawalOtp
    <3> QED
      BY <2>1, <3>2, RequestsFrame DEF RequestWithdrawalOtp
  <2>2. CASE FindAccount(h)
    <3>1. hand'[h] = [hand[h] EXCEPT !.step = "retire"]
      BY <2>2, Goes DEF FindAccount, Steps
    <3>2. hand'[h].step = "retire"
      BY <3>1, Fields DEF Job
    <3>3. In({"issue"})' \subseteq In({"issue"}) /\ Live' = Live
      BY <2>0, <2>2, <3>2 DEF In, Live, FindAccount
    <3> QED
      BY <2>2, <3>3, RequestsFrame DEF FindAccount
  <2>3. CASE RetireOtps(h)
    <3> SUFFICES ASSUME "request" \notin raced'
                 PROVE  RequestsHold'
      BY DEF RequestsHold
    <3>1. In({"issue"}) = {}
      BY <2>3 DEF RetireOtps, Overlap, In
    <3>2. In({"issue"})' \subseteq {h}
      BY <2>0, <3>1 DEF In
    <3>3. Live' = {}
      BY <2>3 DEF RetireOtps, Live, TypeOK, OtpRow
    <3> QED
      BY <3>2, <3>3 DEF RequestsHold, Alone
  <2>4. ASSUME NEW o \in Otps, IssueOtp(h, o)
        PROVE  RequestsHold'
    <3> SUFFICES ASSUME "request" \notin raced
                 PROVE  RequestsHold'
      BY <2>4 DEF RequestsHold, IssueOtp
    <3>1. h \in In({"issue"})
      BY <2>4 DEF IssueOtp, In
    <3>2. In({"issue"}) = {h} /\ Live = {}
      BY <3>1 DEF RequestsHold, Alone
    <3>3. hand'[h].step = "idle"
      BY <2>4, Leaves, IdleJob DEF IssueOtp
    <3>4. In({"issue"})' = {}
      BY <2>0, <3>2, <3>3 DEF In
    <3>5. Live' \subseteq {o}
      BY <2>4, <3>2 DEF IssueOtp, Live, TypeOK
    <3> QED
      BY <3>4, <3>5 DEF RequestsHold, Alone
  <2> QED
    BY <1>2, <2>1, <2>2, <2>3, <2>4 DEF Requests
<1>3. ASSUME NEW h \in Hands, Verifications(h)
      PROVE  RequestsHold'
  <2>1. /\ \A g \in Hands : g # h => hand'[g] = hand[g]
        /\ hand'[h].step # "issue" /\ raced \subseteq raced'
    BY <1>3, Moves, VerificationMoves DEF Handler, Withdrawing
  <2>2. Live' \subseteq Live
    <3>1. CASE UseOtp(h)
      BY <3>1 DEF UseOtp, Live, TypeOK, OtpRow
    <3>2. otp' = otp => Live' = Live
      BY DEF Live
    <3> QED
      BY <1>3, <3>1, <3>2
      DEF Verifications, VerifyWithdrawalOtp, FindPayee, CheckBalance, CreateRecipient,
          InitiateTransfer, RecordDebit
  <2>3. In({"issue"})' \subseteq In({"issue"})
    BY <2>1 DEF In
  <2> QED
    BY <2>1, <2>2, <2>3, RequestsFrame
<1>4. ASSUME NEW h \in Hands, DropHand(h)
      PROVE  RequestsHold'
  <2>1. /\ \A g \in Hands : g # h => hand'[g] = hand[g]
        /\ hand'[h].step # "issue"
    BY <1>4, Leaves, IdleJob DEF DropHand
  <2> QED
    BY <1>4, <2>1, RequestsFrame DEF DropHand, In, Live
<1>5. ASSUME NEW b \in Banks, DeleteBankAccount(b)
      PROVE  RequestsHold'
  <2>1. \A o \in Otps : otp'[o].state = otp[o].state
    BY <1>5 DEF DeleteBankAccount, TypeOK, OtpRow
  <2> QED
    BY <1>5, <2>1, RequestsFrame DEF DeleteBankAccount, In, Live
<1>6. ASSUME NEW o \in Otps, Expire(o)
      PROVE  RequestsHold'
  <2>1. Live' \subseteq Live
    BY <1>6 DEF Expire, TypeOK, OtpRow, Live
  <2> QED
    BY <1>6, <2>1, RequestsFrame DEF Expire, In
<1>7. ASSUME NEW a \in Amounts, Credit(a)
      PROVE  RequestsHold'
  BY <1>7, RequestsFrame DEF Credit, In, Live
<1>8. CASE UNCHANGED vars
  BY <1>8, RequestsFrame DEF vars, In, Live
<1> QED
  BY <1>1, <1>2, <1>3, <1>4, <1>5, <1>6, <1>7, <1>8 DEF Next

-----------------------------------------------------------------------------
\* Accounts

AccountsInv ==
    IsFiniteSet(Saved) /\ BanksHold /\ OneDefaultAccount /\ AccountsWithinLimit

\* A step that leaves the accounts alone, and moves no handler at the accounts
\* except to end it.
LEMMA BanksFrame ==
    ASSUME TypeOK, AccountsInv,
           \A h \in Hands : /\ hand'[h].step \in BankSteps => hand'[h] = hand[h]
                            /\ hand[h].step = "set" => hand'[h].step = "set" \/ orphaned',
           \A b \in Banks : /\ bank'[b].state = bank[b].state
                            /\ bank'[b].number = bank[b].number
                            /\ bank'[b].default = bank[b].default,
           orphaned => orphaned', raced \subseteq raced'
    PROVE  AccountsInv'
<1>1. Saved' = Saved /\ Defaults' = Defaults
  BY DEF Saved, Defaults
<1>2. \A b \in Saved : bank'[b].number = bank[b].number
  BY DEF Saved
<1>3. /\ In(BankSteps)' \subseteq In(BankSteps) /\ In({"set"})' \subseteq In({"set"})
      /\ In({"insert"})' \subseteq In({"insert"})
      /\ In({"default", "insert"})' \subseteq In({"default", "insert"})
      /\ In({"number", "default", "insert"})' \subseteq In({"number", "default", "insert"})
  BY DEF In, BankSteps
<1>4. \A h \in In({"default", "insert"})' : hand'[h] = hand[h]
  BY DEF In, BankSteps
<1>5. \A h \in In({"insert"})' : hand'[h] = hand[h]
  BY DEF In, BankSteps
<1>6. BanksHold'
  <2> SUFFICES ASSUME "banks" \notin raced'
               PROVE  BanksHold'
    BY DEF BanksHold
  <2>1. Alone(BankSteps)' /\ \A h \in In({"set"})' : Defaults' = {}
    BY <1>1, <1>3 DEF BanksHold, AccountsInv, Alone
  <2>2. \A h \in In({"insert"})' :
           IF hand'[h].flag THEN Defaults' = {} ELSE orphaned' \/ Defaults' # {}
    BY <1>1, <1>3, <1>5 DEF BanksHold, AccountsInv
  <2>3. \A h \in In({"default", "insert"})' : \A b \in Saved' :
           bank'[b].number # hand'[h].number
    BY <1>1, <1>2, <1>3, <1>4 DEF BanksHold, AccountsInv
  <2>4. In({"number", "default", "insert"})' # {} => Cardinality(Saved') < MaxBanks
    BY <1>1, <1>3 DEF BanksHold, AccountsInv
  <2> QED
    BY <2>1, <2>2, <2>3, <2>4 DEF BanksHold
<1>7. OneDefaultAccount'
  BY <1>1 DEF OneDefaultAccount, AccountsInv
<1>8. AccountsWithinLimit'
  BY <1>1, <1>2 DEF AccountsWithinLimit, AccountsInv
<1> QED
  BY <1>1, <1>6, <1>7, <1>8 DEF AccountsInv

\* A handler that comes to the accounts finds them to itself, or the overlap is
\* recorded; it starts with a step that knows nothing yet of the accounts.
LEMMA BanksEnter ==
    ASSUME TypeOK, AccountsInv, NEW h \in Hands, Overlap("banks", BankSteps),
           \A g \in Hands : g # h => hand'[g] = hand[g],
           \/ hand'[h].step = "unset"
           \/ hand'[h].step = "number" /\ Cardinality(Saved) < MaxBanks,
           UNCHANGED <<bank, orphaned>>
    PROVE  AccountsInv'
<1>1. Saved' = Saved /\ Defaults' = Defaults
  BY DEF Saved, Defaults
<1> SUFFICES ASSUME "banks" \notin raced'
             PROVE  AccountsInv'
  BY <1>1 DEF AccountsInv, BanksHold, OneDefaultAccount, AccountsWithinLimit
<1>2. In(BankSteps) = {} /\ "banks" \notin raced
  BY DEF Overlap, In
<1>3. /\ In(BankSteps)' \subseteq {h} /\ In({"set"})' = {}
      /\ In({"default", "insert"})' = {} /\ In({"insert"})' = {}
  BY <1>2 DEF In, BankSteps
<1>4. In({"number", "default", "insert"})' # {} => Cardinality(Saved) < MaxBanks
  BY <1>2 DEF In, BankSteps
<1>5. BanksHold'
  BY <1>1, <1>3, <1>4 DEF BanksHold, Alone
<1>6. OneDefaultAccount'
  <2>1. ~ \E g \in Hands : hand[g].step = "set"
    BY <1>2 DEF In, BankSteps
  <2> QED
    BY <1>1, <1>2, <2>1 DEF OneDefaultAccount, AccountsInv
<1>7. AccountsWithinLimit'
  BY <1>1, <1>2 DEF AccountsWithinLimit, AccountsInv
<1> QED
  BY <1>1, <1>5, <1>6, <1>7 DEF AccountsInv

\* A handler at the accounts is the only one there, unless an overlap was recorded.
LEMMA AtAccounts ==
    ASSUME TypeOK, AccountsInv, NEW h \in Hands, hand[h].step \in BankSteps,
           "banks" \notin raced
    PROVE  /\ In(BankSteps) = {h}
           /\ \A g \in Hands : g # h => hand[g].step \notin BankSteps
  BY DEF AccountsInv, BanksHold, Alone, In

\* Such a handler moves on: who is where at the accounts afterwards.
LEMMA AccountsMove ==
    ASSUME TypeOK, AccountsInv, NEW h \in Hands, hand[h].step \in BankSteps,
           "banks" \notin raced,
           \A g \in Hands : g # h => hand'[g] = hand[g]
    PROVE  /\ \A g \in Hands : hand'[g].step \in BankSteps => g = h
           /\ \A S \in SUBSET BankSteps :
                 In(S)' = IF hand'[h].step \in S THEN {h} ELSE {}
<1>1. \A g \in Hands : g # h => hand'[g].step \notin BankSteps
  BY AtAccounts
<1>2. ASSUME NEW S \in SUBSET BankSteps
      PROVE  In(S)' = IF hand'[h].step \in S THEN {h} ELSE {}
  BY <1>1 DEF In
<1> QED
  BY <1>1, <1>2

\* The steps of the account handlers keep what they know of the accounts.
LEMMA AccountsStep ==
    ASSUME TypeOK, AccountsInv, NEW h \in Hands, Accounts(h)
    PROVE  AccountsInv'
<1> USE DEF ledger, paystack, history
<1>0. \A g \in Hands : g # h => hand'[g] = hand[g]
  BY Moves DEF Handler
<1>1. ASSUME NEW n \in Numbers, AddBankAccount(h, n)
      PROVE  AccountsInv'
  <2>1. hand'[h] = [Idle EXCEPT !.step = "number", !.number = n]
    BY <1>1, Begun, Starts DEF AddBankAccount
  <2>2. hand'[h].step = "number"
    BY <2>1 DEF Idle
  <2> QED
    BY <1>0, <1>1, <2>2, BanksEnter DEF AddBankAccount
<1>2. ASSUME NEW b \in Banks, SetDefaultBankAccount(h, b)
      PROVE  AccountsInv'
  <2>1. hand'[h] = [Idle EXCEPT !.step = "unset", !.bank = b]
    BY <1>2, Begun, Starts DEF SetDefaultBankAccount
  <2>2. hand'[h].step = "unset"
    BY <2>1 DEF Idle
  <2> QED
    BY <1>0, <1>2, <2>2, BanksEnter DEF SetDefaultBankAccount
<1>3. CASE FindNumber(h)
  <2>1. hand'[h] = [hand[h] EXCEPT !.step = "default"]
    BY <1>3, Goes DEF FindNumber, Steps
  <2>2. hand'[h].step = "default" /\ hand'[h].number = hand[h].number
    BY <2>1, Fields DEF Job
  <2>3. Saved' = Saved /\ Defaults' = Defaults /\ UNCHANGED <<bank, orphaned, raced>>
    BY <1>3 DEF FindNumber, Saved, Defaults
  <2> SUFFICES ASSUME "banks" \notin raced
               PROVE  AccountsInv'
    BY <2>3 DEF AccountsInv, BanksHold, OneDefaultAccount, AccountsWithinLimit
  <2>4. hand[h].step = "number" /\ hand[h].step \in BankSteps
    BY <1>3 DEF FindNumber, BankSteps
  <2>5. /\ In(BankSteps)' = {h} /\ In({"set"})' = {} /\ In({"insert"})' = {}
        /\ In({"default", "insert"})' = {h} /\ In({"number", "default", "insert"})' = {h}
        /\ h \in In({"number", "default", "insert"})
    BY <1>0, <2>2, <2>4, AccountsMove DEF BankSteps, In
  <2>6. BanksHold'
    BY <1>3, <2>2, <2>3, <2>5 DEF BanksHold, AccountsInv, Alone, FindNumber
  <2>7. ~ \E g \in Hands : hand[g].step = "set"
    BY <2>4, AtAccounts DEF BankSteps
  <2> QED
    BY <2>3, <2>6, <2>7 DEF AccountsInv, OneDefaultAccount, AccountsWithinLimit
<1>4. CASE FindDefault(h)
  <2>1. (Defaults = {}) \in BOOLEAN /\ "insert" \in Steps
    BY DEF Steps
  <2>2. /\ hand'[h].step = "insert" /\ hand'[h].flag = (Defaults = {})
        /\ hand'[h].number = hand[h].number
    BY <1>4, <2>1, Flags DEF FindDefault
  <2>3. Saved' = Saved /\ Defaults' = Defaults /\ UNCHANGED <<bank, orphaned, raced>>
    BY <1>4 DEF FindDefault, Saved, Defaults
  <2> SUFFICES ASSUME "banks" \notin raced
               PROVE  AccountsInv'
    BY <2>3 DEF AccountsInv, BanksHold, OneDefaultAccount, AccountsWithinLimit
  <2>4. hand[h].step = "default" /\ hand[h].step \in BankSteps
    BY <1>4 DEF FindDefault, BankSteps
  <2>5. /\ In(BankSteps)' = {h} /\ In({"set"})' = {} /\ In({"insert"})' = {h}
        /\ In({"default", "insert"})' = {h} /\ In({"number", "default", "insert"})' = {h}
        /\ h \in In({"number", "default", "insert"}) /\ h \in In({"default", "insert"})
    BY <1>0, <2>2, <2>4, AccountsMove DEF BankSteps, In
  <2>6. \A b \in Saved : bank[b].number # hand[h].number
    BY <2>5 DEF BanksHold, AccountsInv
  <2>7. Cardinality(Saved) < MaxBanks
    BY <2>5 DEF BanksHold, AccountsInv
  <2>8. IF hand'[h].flag THEN Defaults = {} ELSE Defaults # {}
    BY <2>2
  <2>9. BanksHold'
    BY <2>2, <2>3, <2>5, <2>6, <2>7, <2>8 DEF BanksHold, Alone
  <2>10. ~ \E g \in Hands : hand[g].step = "set"
    BY <2>4, AtAccounts DEF BankSteps
  <2> QED
    BY <2>3, <2>9, <2>10 DEF AccountsInv, OneDefaultAccount, AccountsWithinLimit
<1>5. ASSUME NEW b \in Banks, NEW r \in BOOLEAN, InsertBank(h, b, r)
      PROVE  AccountsInv'
  <2>1. hand[h].step = "insert" /\ hand'[h].step = "idle" /\ UNCHANGED <<orphaned, raced>>
    BY <1>5, Leaves, IdleJob DEF InsertBank
  <2>2. /\ bank'[b] = [state |-> "SAVED", number |-> hand[h].number,
                       default |-> hand[h].flag, recipient |-> r]
        /\ \A c \in Banks : c # b => bank'[c] = bank[c]
    BY <1>5 DEF InsertBank, TypeOK
  <2>3. b \notin Saved /\ Saved' = Saved \cup {b}
    BY <1>5, <2>2 DEF InsertBank, Saved
  <2>4. Defaults' = IF hand[h].flag THEN Defaults \cup {b} ELSE Defaults
    BY <2>2, <2>3 DEF Defaults, Saved
  <2>5. /\ IsFiniteSet(Saved') /\ Cardinality(Saved') = Cardinality(Saved) + 1
    BY <2>3, FS_AddElement DEF AccountsInv
  <2> SUFFICES ASSUME "banks" \notin raced
               PROVE  AccountsInv'
    BY <2>1, <2>5 DEF AccountsInv, BanksHold, OneDefaultAccount, AccountsWithinLimit
  <2>6. hand[h].step \in BankSteps
    BY <2>1 DEF BankSteps
  <2>7. /\ In(BankSteps)' = {} /\ In({"set"})' = {} /\ In({"insert"})' = {}
        /\ In({"default", "insert"})' = {} /\ In({"number", "default", "insert"})' = {}
    BY <1>0, <2>1, <2>6, AccountsMove DEF BankSteps
  <2>8. /\ h \in In({"insert"}) /\ h \in In({"default", "insert"})
        /\ h \in In({"number", "default", "insert"})
    BY <2>1 DEF In
  <2>9. /\ IF hand[h].flag THEN Defaults = {} ELSE orphaned \/ Defaults # {}
        /\ \A c \in Saved : bank[c].number # hand[h].number
        /\ Cardinality(Saved) < MaxBanks
    BY <2>8 DEF BanksHold, AccountsInv
  <2>10. BanksHold'
    BY <2>7 DEF BanksHold, Alone
  <2>11. OneDefaultAccount'
    BY <2>1, <2>4, <2>9 DEF OneDefaultAccount, AccountsInv
  <2>12. AccountsWithinLimit'
    <3>1. Cardinality(Saved') <= MaxBanks
      BY <2>5, <2>9, FS_CardinalityType, WithdrawalAssumption DEF AccountsInv
    <3>2. \A c \in Saved : c # b /\ c \in Banks /\ bank'[c] = bank[c]
      BY <2>2, <2>3 DEF Saved
    <3>3. bank'[b].number = hand[h].number
      BY <2>2
    <3>4. ASSUME NEW c \in Saved', NEW d \in Saved', bank'[c].number = bank'[d].number
          PROVE  c = d
      <4>1. CASE c \in Saved /\ d \in Saved
        BY <3>2, <3>4, <4>1 DEF AccountsInv, AccountsWithinLimit
      <4>2. CASE c = b \/ d = b
        BY <2>3, <2>9, <3>2, <3>3, <3>4, <4>2
      <4> QED
        BY <2>3, <4>1, <4>2
    <3> QED
      BY <3>1, <3>4 DEF AccountsWithinLimit
  <2> QED
    BY <2>5, <2>10, <2>11, <2>12 DEF AccountsInv
<1>6. CASE UnsetDefaults(h)
  <2>1. hand'[h] = [hand[h] EXCEPT !.step = "set"]
    BY <1>6, Goes DEF UnsetDefaults, Steps
  <2>2. hand'[h].step = "set" /\ UNCHANGED <<orphaned, raced>>
    BY <1>6, <2>1, Fields DEF Job, UnsetDefaults
  <2>3. \A b \in Banks : /\ bank'[b].state = bank[b].state
                         /\ bank'[b].number = bank[b].number
                         /\ b \in Saved => bank'[b].default = FALSE
    BY <1>6 DEF UnsetDefaults, TypeOK, BankRow
  <2>4. Saved' = Saved /\ Defaults' = {} /\ \A b \in Saved : bank'[b].number = bank[b].number
    BY <2>3 DEF Saved, Defaults
  <2> SUFFICES ASSUME "banks" \notin raced
               PROVE  AccountsInv'
    BY <2>2, <2>4 DEF AccountsInv, BanksHold, OneDefaultAccount, AccountsWithinLimit
  <2>5. hand[h].step \in BankSteps
    BY <1>6 DEF UnsetDefaults, BankSteps
  <2>6. /\ In(BankSteps)' = {h} /\ In({"insert"})' = {} /\ In({"default", "insert"})' = {}
        /\ In({"number", "default", "insert"})' = {}
    BY <1>0, <2>2, <2>5, AccountsMove DEF BankSteps
  <2>7. BanksHold'
    BY <2>4, <2>6 DEF BanksHold, Alone
  <2> QED
    BY <2>2, <2>4, <2>7 DEF AccountsInv, OneDefaultAccount, AccountsWithinLimit
<1>7. CASE SetDefault(h)
  <2>1. /\ hand[h].step = "set" /\ hand'[h].step = "idle" /\ raced' = raced
        /\ orphaned' = (orphaned \/ hand[h].bank \notin Saved)
    BY <1>7, Leaves, IdleJob DEF SetDefault
  <2>2. \A b \in Banks : /\ bank'[b].state = bank[b].state
                         /\ bank'[b].number = bank[b].number
                         /\ b # hand[h].bank => bank'[b].default = bank[b].default
    BY <1>7 DEF SetDefault, TypeOK, BankRow
  <2>3. Saved' = Saved /\ \A b \in Saved : bank'[b].number = bank[b].number
    BY <2>2 DEF Saved
  <2> SUFFICES ASSUME "banks" \notin raced
               PROVE  AccountsInv'
    BY <2>1, <2>3 DEF AccountsInv, BanksHold, OneDefaultAccount, AccountsWithinLimit
  <2>4. hand[h].step \in BankSteps /\ h \in In({"set"})
    BY <2>1 DEF BankSteps, In
  <2>5. /\ In(BankSteps)' = {} /\ In({"set"})' = {} /\ In({"insert"})' = {}
        /\ In({"default", "insert"})' = {} /\ In({"number", "default", "insert"})' = {}
    BY <1>0, <2>1, <2>4, AccountsMove DEF BankSteps
  <2>6. BanksHold'
    BY <2>5 DEF BanksHold, Alone
  <2>7. Defaults = {}
    BY <2>4 DEF AccountsInv, BanksHold
  <2>8. Defaults' \subseteq {hand[h].bank}
    BY <2>2, <2>3, <2>7 DEF Defaults, Saved
  <2>9. hand[h].bank \in Saved => Defaults' # {}
    BY <1>7, <2>3 DEF SetDefault, Defaults, Saved, TypeOK, BankRow
  <2>10. OneDefaultAccount'
    BY <2>1, <2>8, <2>9 DEF OneDefaultAccount
  <2> QED
    BY <2>1, <2>3, <2>6, <2>10 DEF AccountsInv, AccountsWithinLimit
<1> QED
  BY <1>1, <1>2, <1>3, <1>4, <1>5, <1>6, <1>7 DEF Accounts

\* So does every other step.
LEMMA AccountsInvStep ==
    ASSUME TypeOK, AccountsInv, [Next]_vars
    PROVE  AccountsInv'
<1> USE DEF ledger, paystack, history
<1>1. ASSUME NEW h \in Hands, Accounts(h)
      PROVE  AccountsInv'
  BY <1>1, AccountsStep
<1>2. ASSUME NEW h \in Hands, Requests(h)
      PROVE  AccountsInv'
  <2>1. /\ \A g \in Hands : g # h => hand'[g] = hand[g]
        /\ hand[h].step # "set" /\ hand'[h].step \notin BankSteps
        /\ UNCHANGED <<bank, orphaned>> /\ raced \subseteq raced'
    BY <1>2, Moves, RequestMoves DEF Handler, BankSteps
  <2> QED
    BY <2>1, BanksFrame
<1>3. ASSUME NEW h \in Hands, Verifications(h)
      PROVE  AccountsInv'
  <2>1. /\ \A g \in Hands : g # h => hand'[g] = hand[g]
        /\ hand[h].step # "set" /\ hand'[h].step \notin BankSteps
        /\ orphaned' = orphaned /\ raced \subseteq raced'
    BY <1>3, Moves, VerificationMoves DEF Handler, BankSteps, Withdrawing
  <2>2. \A b \in Banks : /\ bank'[b].state = bank[b].state
                         /\ bank'[b].number = bank[b].number
                         /\ bank'[b].default = bank[b].default
    <3>1. CASE CreateRecipient(h)
      BY <3>1 DEF CreateRecipient, TypeOK, BankRow
    <3>2. bank' = bank \/ CreateRecipient(h)
      BY <1>3 DEF Verifications, VerifyWithdrawalOtp, FindPayee, CheckBalance, UseOtp,
          InitiateTransfer, RecordDebit
    <3> QED
      BY <3>1, <3>2
  <2> QED
    BY <2>1, <2>2, BanksFrame
<1>4. ASSUME NEW h \in Hands, DropHand(h)
      PROVE  AccountsInv'
  <2>1. /\ \A g \in Hands : g # h => hand'[g] = hand[g]
        /\ hand'[h].step \notin BankSteps
    BY <1>4, Leaves, IdleJob DEF DropHand, BankSteps
  <2>2. hand[h].step = "set" => orphaned'
    BY <1>4 DEF DropHand
  <2> QED
    BY <1>4, <2>1, <2>2, BanksFrame DEF DropHand
<1>5. ASSUME NEW b \in Banks, DeleteBankAccount(b)
      PROVE  AccountsInv'
  <2>1. /\ bank'[b] = [bank[b] EXCEPT !.state = "DELETED"]
        /\ \A c \in Banks : c # b => bank'[c] = bank[c]
    BY <1>5 DEF DeleteBankAccount, TypeOK
  <2>2. bank'[b].state = "DELETED"
    BY <2>1 DEF TypeOK, BankRow
  <2>3. Saved' = Saved \ {b} /\ \A c \in Saved' : bank'[c] = bank[c]
    BY <2>1, <2>2 DEF Saved
  <2>4. Defaults' = Defaults \ {b}
    BY <2>3 DEF Defaults
  <2>5. IsFiniteSet(Saved') /\ Cardinality(Saved') <= Cardinality(Saved)
    BY <2>3, FS_Subset DEF AccountsInv
  <2>6. Cardinality(Saved) \in Nat /\ Cardinality(Saved') \in Nat
    BY <2>5, FS_CardinalityType DEF AccountsInv
  <2>7. /\ hand' = hand /\ raced' = raced /\ orphaned' = (orphaned \/ bank[b].default)
        /\ b \in Saved
    BY <1>5 DEF DeleteBankAccount
  <2>8. b \in Defaults => orphaned'
    BY <2>7 DEF Defaults
  <2> SUFFICES ASSUME "banks" \notin raced
               PROVE  AccountsInv'
    BY <2>5, <2>7 DEF AccountsInv, BanksHold, OneDefaultAccount, AccountsWithinLimit
  <2>9. BanksHold'
    <3>1. \A S : In(S)' = In(S)
      BY <2>7 DEF In
    <3>2. Alone(BankSteps)' /\ \A h \in In({"set"}) : Defaults' = {}
      BY <2>4, <3>1 DEF BanksHold, AccountsInv, Alone
    <3>3. \A h \in In({"insert"}) :
             IF hand[h].flag THEN Defaults' = {} ELSE orphaned' \/ Defaults' # {}
      BY <2>4, <2>7, <2>8 DEF BanksHold, AccountsInv
    <3>4. \A h \in In({"default", "insert"}) : \A c \in Saved' :
             bank'[c].number # hand[h].number
      BY <2>3 DEF BanksHold, AccountsInv
    <3>5. In({"number", "default", "insert"}) # {} => Cardinality(Saved') < MaxBanks
      BY <2>5, <2>6, WithdrawalAssumption DEF BanksHold, AccountsInv
    <3> QED
      BY <2>7, <3>1, <3>2, <3>3, <3>4, <3>5 DEF BanksHold
  <2>10. OneDefaultAccount'
    BY <2>3, <2>4, <2>7, <2>8 DEF OneDefaultAccount, AccountsInv
  <2>11. AccountsWithinLimit'
    BY <2>3, <2>5, <2>6, WithdrawalAssumption DEF AccountsWithinLimit, AccountsInv
  <2> QED
    BY <2>5, <2>9, <2>10, <2>11 DEF AccountsInv
<1>6. ASSUME NEW o \in Otps, Expire(o)
      PROVE  AccountsInv'
  BY <1>6, BanksFrame DEF Expire
<1>7. ASSUME NEW a \in Amounts, Credit(a)
      PROVE  AccountsInv'
  BY <1>7, BanksFrame DEF Credit
<1>8. CASE UNCHANGED vars
  BY <1>8, BanksFrame DEF vars
<1> QED
  BY <1>1, <1>2, <1>3, <1>4, <1>5, <1>6, <1>7, <1>8 DEF Next

-----------------------------------------------------------------------------
\* The theorems

\* A user without accounts, requests and money satisfies the invariant.
LEMMA WithdrawalInit == Init => WithdrawalInv
<1> SUFFICES ASSUME Init
             PROVE  WithdrawalInv
  OBVIOUS
<1> USE DEF Init
<1>1. \A h \in Hands : hand[h].step = "idle"
  BY IdleJob
<1>2. \A S : "idle" \notin S => In(S) = {}
  BY <1>1 DEF In
<1>3. /\ In(Withdrawing) = {} /\ In({"record"}) = {} /\ In(BeforeTransfer) = {}
      /\ In({"issue"}) = {} /\ In(BankSteps) = {} /\ In({"set"}) = {} /\ In({"insert"}) = {}
      /\ In({"default", "insert"}) = {} /\ In({"number", "default", "insert"}) = {}
  BY <1>2 DEF Withdrawing, BeforeTransfer, BankSteps
<1>4. Saved = {} /\ Defaults = {} /\ Live = {}
  BY DEF Saved, Defaults, Live
<1>5. TypeOK
  BY IdleJob DEF TypeOK, BankRow, OtpRow
<1>6. MoneyHolds
  BY <1>3 DEF MoneyHolds, Alone
<1>7. OtpsHold /\ RequestsHold
  BY <1>3, <1>4 DEF OtpsHold, RequestsHold, Alone
<1>8. IsFiniteSet(Saved) /\ Cardinality(Saved) = 0
  BY <1>4, FS_EmptySet
<1>9. BanksHold
  BY <1>3 DEF BanksHold, Alone
<1>10. OneDefaultAccount /\ AccountsWithinLimit
  BY <1>4, <1>8, WithdrawalAssumption DEF OneDefaultAccount, AccountsWithinLimit
<1> QED
  BY <1>5, <1>6, <1>7, <1>8, <1>9, <1>10 DEF WithdrawalInv

\* The four parts and the accounts, each by its lemma.
LEMMA WithdrawalStep == WithdrawalInv /\ [Next]_vars => WithdrawalInv'
<1> SUFFICES ASSUME WithdrawalInv, [Next]_vars
             PROVE  WithdrawalInv'
  OBVIOUS
<1>1. TypeOK'
  BY Types DEF WithdrawalInv
<1>2. MoneyHolds' /\ OtpsHold' /\ RequestsHold'
  BY MoneyStep, OtpsStep, RequestsStep DEF WithdrawalInv
<1>3. AccountsInv'
  BY AccountsInvStep DEF WithdrawalInv, AccountsInv
<1> QED
  BY <1>1, <1>2, <1>3 DEF WithdrawalInv, AccountsInv

\* What the handlers in flight still know of the rows they have read stays true,
\* for any number of accounts, requests, amounts and handlers.
THEOREM WithdrawalInvariant == Spec => []WithdrawalInv
  BY WithdrawalInit, WithdrawalStep, PTL DEF Spec

\* Every reachable state is well formed.
THEOREM WithdrawalTypes == Spec => []TypeOK
<1>1. WithdrawalInv => TypeOK
  BY DEF WithdrawalInv
<1> QED
  BY <1>1, WithdrawalInvariant, PTL

\* No more leaves the platform than the wallet was credited, except what Paystack
\* has not finished and what nobody could record, unless withdrawals overlapped
\* (verifyWithdrawalOtp).
THEOREM PaidOutCredited == Spec => []PaidOutWasCredited
<1>1. WithdrawalInv => PaidOutWasCredited
  <2> SUFFICES ASSUME WithdrawalInv, "withdraw" \notin raced
               PROVE  paidOut <= credited + pending + lost
    BY DEF PaidOutWasCredited
  <2>1. /\ credited \in Nat /\ debited \in Nat /\ pending \in Nat /\ lost \in Nat
        /\ debited <= credited
    BY DEF WithdrawalInv, TypeOK, MoneyHolds
  <2>2. CASE In({"record"}) = {}
    BY <2>1, <2>2 DEF WithdrawalInv, MoneyHolds
  <2>3. ASSUME NEW h \in In({"record"})
        PROVE  paidOut <= credited + pending + lost
    <3>1. h \in In(Withdrawing) /\ hand[h].amount \in Nat
      BY <2>3, Fields DEF In, Withdrawing, WithdrawalInv
    <3>2. /\ debited + hand[h].amount <= credited
          /\ paidOut = debited + pending + lost + hand[h].amount
      BY <2>3, <3>1 DEF WithdrawalInv, MoneyHolds
    <3> QED
      BY <2>1, <3>1, <3>2
  <2> QED
    BY <2>2, <2>3
<1> QED
  BY <1>1, WithdrawalInvariant, PTL

\* COMPLETED debits never exceed the credits, unless withdrawals overlapped.
THEOREM LedgerNotOverdrawn == Spec => []NeverOverdrawn
<1>1. WithdrawalInv => NeverOverdrawn
  BY DEF WithdrawalInv, MoneyHolds, NeverOverdrawn
<1> QED
  BY <1>1, WithdrawalInvariant, PTL

\* A withdrawal request leads to one transfer at most, unless two verifications of
\* it overlapped (verifyWithdrawalOtp).
THEOREM OtpSpentOnce == Spec => []OneTransferPerOtp
<1>1. WithdrawalInv => OneTransferPerOtp
  BY DEF WithdrawalInv, OtpsHold, OneTransferPerOtp
<1> QED
  BY <1>1, WithdrawalInvariant, PTL

\* At most one withdrawal request is open (requestWithdrawalOtp).
THEOREM RequestsRetired == Spec => []OneOpenRequest
<1>1. WithdrawalInv => OneOpenRequest
  BY DEF WithdrawalInv, RequestsHold, OneOpenRequest
<1> QED
  BY <1>1, WithdrawalInvariant, PTL

\* A user with accounts has one default account (setDefaultBankAccount,
\* addBankAccount, deleteBankAccount).
THEOREM DefaultAccount == Spec => []OneDefaultAccount
<1>1. WithdrawalInv => OneDefaultAccount
  BY DEF WithdrawalInv
<1> QED
  BY <1>1, WithdrawalInvariant, PTL

\* The limit on accounts holds and no number is saved twice (addBankAccount).
THEOREM AccountLimit == Spec => []AccountsWithinLimit
<1>1. WithdrawalInv => AccountsWithinLimit
  BY DEF WithdrawalInv
<1> QED
  BY <1>1, WithdrawalInvariant, PTL

-----------------------------------------------------------------------------
(* The refinement of Wallet                                                 *)

Pursuing == {"payee", "balance"} \cup Withdrawing

\* What a choice from one handler is.
LEMMA OnlyWriter ==
    ASSUME NEW H, NEW S, NEW h, S = {h}
    PROVE  H[CHOOSE g \in S : TRUE].amount = H[h].amount
<1>1. (CHOOSE g \in {h} : TRUE) \in {h}  OBVIOUS
<1>2. QED  BY <1>1

\* With one handler about to write its debit, that is what is in flight.
LEMMA OneInFlight ==
    ASSUME TypeOK, NEW h \in Hands, In({"record"}) = {h}
    PROVE  /\ hand[h].flag => InFlight(Done) = hand[h].amount /\ InFlight(Unfinished) = 0
           /\ ~hand[h].flag => InFlight(Done) = 0 /\ InFlight(Unfinished) = hand[h].amount
<1>1. hand[h].flag \in BOOLEAN  BY Fields
<1>2. CASE hand[h].flag
  <2>1. Done = {h} /\ Unfinished = {}  BY <1>2 DEF Done, Unfinished, In
  <2>2. QED  BY <1>2, <2>1, OnlyWriter DEF InFlight
<1>3. CASE ~hand[h].flag
  <2>1. Unfinished = {h} /\ Done = {}  BY <1>1, <1>3 DEF Done, Unfinished, In
  <2>2. QED  BY <1>3, <2>1, OnlyWriter DEF InFlight
<1>4. QED  BY <1>2, <1>3

\* The same after a step.
LEMMA OneInFlightNext ==
    ASSUME TypeOK', NEW h \in Hands, In({"record"})' = {h}
    PROVE  /\ hand'[h].flag => InFlight(Done)' = hand'[h].amount /\ InFlight(Unfinished)' = 0
           /\ ~hand'[h].flag => InFlight(Done)' = 0 /\ InFlight(Unfinished)' = hand'[h].amount
<1>1. hand'[h].flag \in BOOLEAN  BY DEF TypeOK, Job
<1>2. CASE hand'[h].flag
  <2>1. Done' = {h} /\ Unfinished' = {}  BY <1>2 DEF Done, Unfinished, In
  <2>2. QED  BY <1>2, <2>1, OnlyWriter DEF InFlight
<1>3. CASE ~hand'[h].flag
  <2>1. Unfinished' = {h} /\ Done' = {}  BY <1>1, <1>3 DEF Done, Unfinished, In
  <2>2. QED  BY <1>3, <2>1, OnlyWriter DEF InFlight
<1>4. QED  BY <1>2, <1>3

\* With none, nothing is in flight.
LEMMA NoneInFlight ==
    /\ In({"record"}) = {} => InFlight(Done) = 0 /\ InFlight(Unfinished) = 0
    /\ In({"record"})' = {} => InFlight(Done)' = 0 /\ InFlight(Unfinished)' = 0
<1>1. In({"record"}) = {} => Done = {} /\ Unfinished = {}
      BY DEF Done, Unfinished, In
<1>2. In({"record"})' = {} => Done' = {} /\ Unfinished' = {}
      BY DEF Done, Unfinished, In
<1>3. QED  BY <1>1, <1>2 DEF InFlight

\* Steps that leave the handlers about to write their debit alone.
LEMMA FlightKept ==
    ASSUME \A h \in Hands : hand[h].step = "record" \/ hand'[h].step = "record" =>
                                hand'[h] = hand[h]
    PROVE  InFlight(Done)' = InFlight(Done) /\ InFlight(Unfinished)' = InFlight(Unfinished)
<1> DEFINE pick(S) == CHOOSE g \in S : TRUE
           sum(H, S) == IF S = {} THEN 0 ELSE H[pick(S)].amount
<1>1. Done' = Done /\ Unfinished' = Unfinished  BY DEF Done, Unfinished, In
<1>2. \A h \in Done \cup Unfinished : hand'[h] = hand[h]  BY DEF Done, Unfinished, In
<1>3. \A S : S # {} => pick(S) \in S  OBVIOUS
<1>4. /\ InFlight(Done) = sum(hand, Done) /\ InFlight(Done)' = sum(hand', Done')
      /\ InFlight(Unfinished) = sum(hand, Unfinished)
      /\ InFlight(Unfinished)' = sum(hand', Unfinished')
      BY DEF InFlight
<1> HIDE DEF pick
<1>5. QED  BY <1>1, <1>2, <1>3, <1>4

\* A request whose row and whose verifications stand, stands.
LEMMA SlipStands ==
    ASSUME NEW o \in Otps, otp'[o].amount = otp[o].amount,
           otp'[o].state = "NONE" <=> otp[o].state = "NONE",
           (otp[o].state = "LIVE" \/ Pursued(o)) <=> (otp[o].state = "LIVE" \/ Pursued(o))'
    PROVE  AsSlip(o)' = AsSlip(o)
BY DEF AsSlip

\* Steps that concern no transfer, and after which no more requests are open.
LEMMA CloseBooks ==
    ASSUME UNCHANGED <<ledger, paystack, lost, twice>>,
           ("withdraw" \in raced)' <=> "withdraw" \in raced,
           \A h \in Hands : hand[h].step = "record" \/ hand'[h].step = "record" =>
                                hand'[h] = hand[h],
           \A o \in Otps :
              /\ otp'[o].amount = otp[o].amount
              /\ otp'[o].state = "NONE" <=> otp[o].state = "NONE"
              /\ (otp[o].state = "LIVE" \/ Pursued(o))' => otp[o].state = "LIVE" \/ Pursued(o)
    PROVE  Books!WalletNext
<1>1. InFlight(Done)' = InFlight(Done) /\ InFlight(Unfinished)' = InFlight(Unfinished)
      BY FlightKept
<1>2. /\ credited' = credited /\ debited' = debited /\ pending' = pending
      /\ lost' = lost /\ sent' = sent /\ paidOut' = paidOut /\ twice' = twice
      BY DEF ledger, paystack
<1>3. ASSUME NEW o \in Otps, AsSlip(o)' # AsSlip(o)
      PROVE  /\ AsSlip(o).state = "open"
             /\ AsSlip(o)' = [AsSlip(o) EXCEPT !.state = "closed"]
  <2>1. /\ otp[o].state # "NONE" /\ otp'[o].state # "NONE"
        /\ otp[o].state = "LIVE" \/ Pursued(o)
        /\ ~(otp[o].state = "LIVE" \/ Pursued(o))'
    <3>1. CASE otp[o].state = "NONE"  BY <1>3, <3>1 DEF AsSlip
    <3>2. CASE otp[o].state # "NONE"  BY <1>3, <3>2, SlipStands
    <3>3. QED  BY <3>1, <3>2
  <2>2. QED  BY <2>1 DEF AsSlip
<1>4. Books!Close
  <2> DEFINE slips == [o \in Otps |-> AsSlip(o)]
  <2>1. slips' = [o \in Otps |-> slips'[o]]  OBVIOUS
  <2>2. \A o \in Otps : slips[o] = AsSlip(o) /\ slips'[o] = AsSlip(o)'  OBVIOUS
  <2>3. UNCHANGED <<Books!sums, sent, twice>>  BY <1>1, <1>2 DEF Books!sums
  <2>5. ("withdraw" \in raced)' = ("withdraw" \in raced)  OBVIOUS
  <2> HIDE DEF slips
  <2>4. \A o \in Otps : slips'[o] # slips[o] =>
           /\ slips[o].state = "open" /\ slips'[o] = [slips[o] EXCEPT !.state = "closed"]
        BY <1>3, <2>2
  <2>6. QED  BY <2>1, <2>3, <2>4, <2>5 DEF Books!Close, slips
<1>5. QED  BY <1>4 DEF Books!WalletNext

\* A verification begins with the amount of the request it read.
LEMMA VerifyHand ==
    ASSUME TypeOK, NEW h \in Hands, NEW o \in Otps, VerifyWithdrawalOtp(h, o)
    PROVE  /\ hand[h].step = "idle" /\ hand'[h].step = "payee"
           /\ hand'[h].otp = o /\ hand'[h].amount = otp[o].amount
<1>1. otp[o].bank \in Banks \cup {NoBank} /\ otp[o].amount \in Nat
      BY DEF TypeOK, OtpRow
<1>2. /\ hand[h].step = "idle"
      /\ hand'[h] = [Idle EXCEPT !.step = "payee", !.otp = o, !.bank = otp[o].bank,
                                 !.amount = otp[o].amount]
      BY <1>1, Begun, Starts DEF VerifyWithdrawalOtp
<1>3. QED  BY <1>2 DEF Idle

\* A verification that found the payee knows the same request and amount.
LEMMA PayeeHand ==
    ASSUME TypeOK, NEW h \in Hands, FindPayee(h)
    PROVE  /\ hand[h].step = "payee" /\ hand'[h].step = "balance"
           /\ hand'[h].otp = hand[h].otp /\ hand'[h].amount = hand[h].amount
<1>1. bank[hand[h].bank].recipient \in BOOLEAN
      BY DEF FindPayee, Saved, TypeOK, BankRow
<1>2. QED  BY <1>1, Flags DEF FindPayee, Steps

\* So does one that checked the balance.
LEMMA BalanceHand ==
    ASSUME TypeOK, NEW h \in Hands, CheckBalance(h)
    PROVE  /\ hand[h].step = "balance" /\ hand'[h].step = "use"
           /\ hand'[h].otp = hand[h].otp /\ hand'[h].amount = hand[h].amount
<1>1. hand'[h] = [hand[h] EXCEPT !.step = "use"]  BY Goes DEF CheckBalance, Steps
<1>2. QED  BY <1>1, Fields DEF CheckBalance, Job

\* So does one that marked the request.
LEMMA UseHand ==
    ASSUME TypeOK, NEW h \in Hands, UseOtp(h)
    PROVE  /\ hand[h].step = "use" /\ hand'[h].step \in {"recipient", "transfer"}
           /\ hand'[h].otp = hand[h].otp /\ hand'[h].amount = hand[h].amount
<1> DEFINE s == IF hand[h].flag THEN "transfer" ELSE "recipient"
<1>1. s \in Steps /\ s \in {"recipient", "transfer"}  BY DEF Steps
<1>2. Go(h, s) /\ hand[h].step = "use"  BY DEF UseOtp
<1> HIDE DEF s
<1>3. hand'[h] = [hand[h] EXCEPT !.step = s]  BY <1>1, <1>2, Goes
<1>4. QED  BY <1>1, <1>2, <1>3, Fields DEF Job

\* So does one that registered the recipient.
LEMMA RecipientHand ==
    ASSUME TypeOK, NEW h \in Hands, CreateRecipient(h)
    PROVE  /\ hand[h].step = "recipient" /\ hand'[h].step = "transfer"
           /\ hand'[h].otp = hand[h].otp /\ hand'[h].amount = hand[h].amount
<1>1. hand'[h] = [hand[h] EXCEPT !.step = "transfer"]  BY Goes DEF CreateRecipient, Steps
<1>2. QED  BY <1>1, Fields DEF CreateRecipient, Job

\* A transfer that was answered is about to be written down, as done or unfinished.
LEMMA TransferHand ==
    ASSUME TypeOK, NEW h \in Hands, NEW answer \in {"success", "pending", "none"},
           InitiateTransfer(h, answer)
    PROVE  /\ hand[h].step = "transfer"
           /\ answer = "none" => hand'[h].step = "idle"
           /\ answer # "none" =>
                 /\ hand'[h].step = "record" /\ hand'[h].flag = (answer = "success")
                 /\ hand'[h].otp = hand[h].otp /\ hand'[h].amount = hand[h].amount
<1>1. (answer = "success") \in BOOLEAN /\ "record" \in Steps  BY DEF Steps
<1>2. CASE answer = "none"  BY <1>2, Leaves, IdleJob DEF InitiateTransfer
<1>3. CASE answer # "none"  BY <1>1, <1>3, Flags DEF InitiateTransfer
<1>4. QED  BY <1>2, <1>3 DEF InitiateTransfer

\* A request that was made keeps its amount.
LEMMA OtpKept ==
    ASSUME TypeOK, [Next]_vars, NEW o \in Otps, otp[o].state # "NONE"
    PROVE  otp'[o].state # "NONE" /\ otp'[o].amount = otp[o].amount
<1> DEFINE Kept == otp'[o].state # "NONE" /\ otp'[o].amount = otp[o].amount
<1>0. otp \in [Otps -> OtpRow] /\ otp[o] \in OtpRow  BY DEF TypeOK
<1>1. ASSUME NEW h \in Hands, Accounts(h) PROVE Kept
      BY <1>1, AccountMoves
<1>2. ASSUME NEW h \in Hands, Requests(h) PROVE Kept
  <2>1. CASE RetireOtps(h)  BY <1>0, <2>1 DEF RetireOtps, OtpRow
  <2>2. ASSUME NEW p \in Otps, IssueOtp(h, p) PROVE Kept
        BY <1>0, <2>2 DEF IssueOtp
  <2>3. QED  BY <1>2, <2>1, <2>2 DEF Requests, RequestWithdrawalOtp, FindAccount
<1>3. ASSUME NEW h \in Hands, Verifications(h) \/ DropHand(h) PROVE Kept
  <2>1. CASE UseOtp(h)  BY <1>0, <2>1 DEF UseOtp, OtpRow
  <2>2. QED  BY <1>3, <2>1 DEF Verifications, VerifyWithdrawalOtp, FindPayee, CheckBalance,
                 CreateRecipient, InitiateTransfer, RecordDebit, DropHand
<1>4. ASSUME NEW b \in Banks, DeleteBankAccount(b) PROVE Kept
      BY <1>0, <1>4 DEF DeleteBankAccount, OtpRow
<1>5. ASSUME NEW p \in Otps, Expire(p) PROVE Kept
      BY <1>0, <1>5 DEF Expire, OtpRow
<1>6. ASSUME NEW a \in Amounts, Credit(a) PROVE Kept
      BY <1>6 DEF Credit
<1>7. CASE UNCHANGED vars  BY <1>7 DEF vars
<1>8. QED  BY <1>1, <1>2, <1>3, <1>4, <1>5, <1>6, <1>7 DEF Next

\* Handlers that verify a request go on to know its amount.
LEMMA PursuesStep ==
    ASSUME TypeOK, [Next]_vars, \A h \in In(Pursuing) : Pursues(h)
    PROVE  \A h \in In(Pursuing)' : Pursues(h)'
<1>1. ASSUME NEW g \in Hands, hand'[g].step \in Pursuing, hand[g].step \in Pursuing,
             hand'[g].otp = hand[g].otp, hand'[g].amount = hand[g].amount,
             hand'[g].step \notin {"payee", "balance"} =>
                hand[g].step \notin {"payee", "balance"} \/ hand[g].amount > 0
      PROVE  Pursues(g)'
  <2>1. Pursues(g)  BY <1>1 DEF In
  <2>2. QED  BY <1>1, <2>1, OtpKept DEF Pursues
<1>2. ASSUME NEW h \in Hands, Handler(h), NEW g \in Hands, hand'[g].step \in Pursuing
      PROVE  Pursues(g)'
  <2>1. CASE g # h
    <3>1. hand'[g] = hand[g]  BY <1>2, <2>1, Moves
    <3>2. QED  BY <1>1, <1>2, <3>1
  <2>2. CASE g = h
    <3>1. ~Accounts(h)
          BY <1>2, <2>2, AccountMoves DEF Pursuing, Withdrawing, BankSteps
    <3>2. ~Requests(h)
          BY <1>2, <2>2, RequestMoves DEF Pursuing, Withdrawing
    <3>3. ~DropHand(h) /\ ~RecordDebit(h)
          BY <1>2, <2>2, Leaves, IdleJob DEF DropHand, RecordDebit, Pursuing, Withdrawing
    <3>4. ASSUME NEW o \in Otps, VerifyWithdrawalOtp(h, o) PROVE Pursues(h)'
      <4>1. /\ hand'[h].step = "payee" /\ hand'[h].otp = o
            /\ hand'[h].amount = otp[o].amount /\ otp'[o] = otp[o] /\ otp[o].state = "LIVE"
            BY <3>4, VerifyHand DEF VerifyWithdrawalOtp
      <4>2. QED  BY <4>1 DEF Pursues
    <3>5. CASE FindPayee(h)
          BY <1>1, <1>2, <2>2, <3>5, PayeeHand DEF Pursuing
    <3>6. CASE CheckBalance(h)
          BY <1>1, <1>2, <2>2, <3>6, BalanceHand DEF Pursuing, CheckBalance
    <3>7. CASE UseOtp(h)
          BY <1>1, <1>2, <2>2, <3>7, UseHand DEF Pursuing, Withdrawing
    <3>8. CASE CreateRecipient(h)
          BY <1>1, <1>2, <2>2, <3>8, RecipientHand DEF Pursuing, Withdrawing
    <3>9. ASSUME NEW answer \in {"success", "pending", "none"}, InitiateTransfer(h, answer)
          PROVE  Pursues(h)'
      <4>1. answer # "none"
            BY <1>2, <2>2, <3>9, TransferHand DEF Pursuing, Withdrawing
      <4>2. QED  BY <1>1, <1>2, <2>2, <3>9, <4>1, TransferHand DEF Pursuing, Withdrawing
    <3>10. QED
           BY <1>2, <2>2, <3>1, <3>2, <3>3, <3>4, <3>5, <3>6, <3>7, <3>8, <3>9
           DEF Handler, Verifications
  <2>3. QED  BY <2>1, <2>2
<1>3. CASE UNCHANGED hand
      BY <1>1, <1>3 DEF In
<1>4. \A g \in In(Pursuing)' : g \in Hands /\ hand'[g].step \in Pursuing  BY DEF In
<1>5. CASE \E h \in Hands : Handler(h)  BY <1>2, <1>4, <1>5
<1>6. CASE ~\E h \in Hands : Handler(h)
  <2>1. UNCHANGED hand
        BY <1>6 DEF Next, Handler, DeleteBankAccount, Expire, Credit, vars
  <2>2. QED  BY <1>3, <2>1
<1>7. QED  BY <1>5, <1>6

\* A step of one handler, away from the transfer, after which no more requests are open.
LEMMA CloseByHand ==
    ASSUME NEW h \in Hands, \A g \in Hands : g # h => hand'[g] = hand[g],
           hand[h].step # "record", hand'[h].step # "record",
           hand'[h].step \in BeforeTransfer =>
              \/ hand[h].step \in BeforeTransfer /\ hand'[h].otp = hand[h].otp
              \/ otp[hand'[h].otp].state = "LIVE",
           UNCHANGED <<ledger, paystack, lost, twice>>,
           ("withdraw" \in raced)' <=> "withdraw" \in raced,
           \A o \in Otps : /\ otp'[o].amount = otp[o].amount
                           /\ otp'[o].state = "NONE" <=> otp[o].state = "NONE"
                           /\ otp'[o].state = "LIVE" => otp[o].state = "LIVE"
    PROVE  Books!WalletNext
<1>1. \A g \in Hands : hand[g].step = "record" \/ hand'[g].step = "record" =>
                          hand'[g] = hand[g]
      OBVIOUS
<1>2. \A o \in Otps : Pursued(o)' => otp[o].state = "LIVE" \/ Pursued(o)
  <2>1. SUFFICES ASSUME NEW o \in Otps, NEW g \in Hands,
                        hand'[g].step \in BeforeTransfer, hand'[g].otp = o
                 PROVE  otp[o].state = "LIVE" \/ Pursued(o)
        BY DEF Pursued, In
  <2>2. QED  BY <2>1 DEF Pursued, In
<1>3. QED  BY <1>1, <1>2, CloseBooks

\* The same when the open requests are the same.
LEMMA SlipsStand ==
    ASSUME NEW h \in Hands, \A g \in Hands : g # h => hand'[g] = hand[g],
           \A o \in Otps :
              (hand'[h].step \in BeforeTransfer /\ hand'[h].otp = o) \/ otp[o].state = "LIVE"
              <=> (hand[h].step \in BeforeTransfer /\ hand[h].otp = o) \/ otp[o].state = "LIVE",
           otp' = otp
    PROVE  \A o \in Otps : AsSlip(o)' = AsSlip(o)
<1>1. TAKE o \in Otps
<1>2. Pursued(o) <=> \E g \in Hands : hand[g].step \in BeforeTransfer /\ hand[g].otp = o
      BY DEF Pursued, In
<1>3. Pursued(o)' <=> \E g \in Hands : hand'[g].step \in BeforeTransfer /\ hand'[g].otp = o
      BY DEF Pursued, In
<1>4. Pursued(o)' => otp[o].state = "LIVE" \/ Pursued(o)  BY <1>2, <1>3
<1>5. Pursued(o) => otp[o].state = "LIVE" \/ Pursued(o)'  BY <1>2, <1>3
<1>6. QED  BY <1>4, <1>5, SlipStands

\* Overlaps of other handlers than withdrawals.
LEMMA NoRace ==
    ASSUME NEW h \in Hands, Accounts(h) \/ Requests(h)
    PROVE  ("withdraw" \in raced)' <=> "withdraw" \in raced
BY DEF Accounts, AddBankAccount, FindNumber, FindDefault, InsertBank,
       SetDefaultBankAccount, UnsetDefaults, SetDefault, Requests, RequestWithdrawalOtp,
       FindAccount, RetireOtps, IssueOtp, Overlap, history

\* Handlers of bank accounts leave the wallet alone.
LEMMA AccountBooks ==
    ASSUME WalletInv, NEW h \in Hands, Accounts(h)
    PROVE  Books!WalletNext
<1>1. TypeOK  BY DEF WalletInv, WithdrawalInv
<1>2. /\ hand[h].step # "record" /\ hand'[h].step # "record"
      /\ hand'[h].step \notin BeforeTransfer
      /\ UNCHANGED <<otp, ledger, paystack, lost, twice>>
      BY <1>1, AccountMoves DEF BankSteps, BeforeTransfer
<1>3. \A g \in Hands : g # h => hand'[g] = hand[g]  BY <1>1, Moves DEF Handler
<1>4. QED  BY <1>2, <1>3, NoRace, CloseByHand

\* A new request closes those before it, and is then open itself.
LEMMA RequestBooks ==
    ASSUME WalletInv, NEW h \in Hands, Requests(h)
    PROVE  Books!WalletNext
<1>1. TypeOK  BY DEF WalletInv, WithdrawalInv
<1>2. /\ hand[h].step # "record" /\ hand'[h].step # "record"
      /\ hand[h].step \notin BeforeTransfer /\ hand'[h].step \notin BeforeTransfer
      /\ UNCHANGED <<ledger, paystack, lost, twice>>
      BY <1>1, RequestMoves DEF BeforeTransfer
<1>3. \A g \in Hands : g # h => hand'[g] = hand[g]  BY <1>1, Moves DEF Handler
<1>4. CASE UNCHANGED otp
      BY <1>2, <1>3, <1>4, NoRace, CloseByHand
<1>5. CASE RetireOtps(h)
  <2>1. \A o \in Otps : /\ otp'[o].amount = otp[o].amount
                        /\ otp'[o].state = "NONE" <=> otp[o].state = "NONE"
                        /\ otp'[o].state = "LIVE" => otp[o].state = "LIVE"
        BY <1>1, <1>5 DEF RetireOtps, TypeOK, OtpRow
  <2>2. QED  BY <1>2, <1>3, <2>1, NoRace, CloseByHand
<1>6. ASSUME NEW o \in Otps, IssueOtp(h, o) PROVE Books!WalletNext
  <2>1. /\ hand[h].amount \in Nat /\ otp[o].state = "NONE"
        /\ otp' = [otp EXCEPT ![o] = [state |-> "LIVE", amount |-> hand[h].amount,
                                      bank |-> hand[h].bank]]
        BY <1>1, <1>6, Fields DEF IssueOtp
  <2>2. /\ otp'[o].state = "LIVE" /\ otp'[o].amount = hand[h].amount
        /\ \A p \in Otps : p # o => otp'[p] = otp[p]
        BY <1>1, <2>1 DEF TypeOK
  <2>3. \A p \in Otps : Pursued(p)' <=> Pursued(p)
        BY <1>2, <1>3 DEF Pursued, In
  <2>4. \A p \in Otps : p # o => AsSlip(p)' = AsSlip(p)
        BY <2>2, <2>3 DEF AsSlip
  <2>5. AsSlip(o).state = "unmade" /\ AsSlip(o)' = [state |-> "open", amount |-> hand[h].amount]
        BY <2>1, <2>2 DEF AsSlip
  <2>6. InFlight(Done)' = InFlight(Done) /\ InFlight(Unfinished)' = InFlight(Unfinished)
    <3>1. \A g \in Hands : hand[g].step = "record" \/ hand'[g].step = "record" =>
                              hand'[g] = hand[g]
          BY <1>2, <1>3
    <3>2. QED  BY <3>1, FlightKept
  <2> DEFINE slips == [p \in Otps |-> AsSlip(p)]
  <2>7. /\ slips[o].state = "unmade" /\ slips'[o] \in [state : {"open"}, amount : Nat]
        /\ slips' = [slips EXCEPT ![o] = slips'[o]]
    <3>1. /\ \A p \in Otps : slips[p] = AsSlip(p) /\ slips'[p] = AsSlip(p)'
          /\ DOMAIN slips = Otps /\ slips' = [p \in Otps |-> slips'[p]]
          /\ slips = [p \in Otps |-> slips[p]]
          OBVIOUS
    <3> HIDE DEF slips
    <3>2. slips[o].state = "unmade"  BY <2>5, <3>1
    <3>3. slips'[o] \in [state : {"open"}, amount : Nat]  BY <2>1, <2>5, <3>1
    <3>4. \A p \in Otps : p # o => slips'[p] = slips[p]  BY <2>4, <3>1
    <3>5. slips' = [slips EXCEPT ![o] = slips'[o]]  BY <3>1, <3>4
    <3>6. QED  BY <3>2, <3>3, <3>5
  <2>8. UNCHANGED <<Books!sums, sent, twice>>
        BY <1>2, <2>6 DEF Books!sums, ledger, paystack
  <2>9. ("withdraw" \in raced)' = ("withdraw" \in raced)  BY NoRace
  <2>10. Books!Ask(o)  BY <2>7, <2>8, <2>9 DEF Books!Ask
  <2>11. QED  BY <2>10 DEF Books!WalletNext
<1>7. QED  BY <1>4, <1>5, <1>6 DEF Requests, RequestWithdrawalOtp, FindAccount

\* Beginning to verify a request keeps it open, and may double it.
LEMMA VerifyBooks ==
    ASSUME WalletInv, NEW h \in Hands, NEW o \in Otps, VerifyWithdrawalOtp(h, o)
    PROVE  Books!WalletNext
<1>1. TypeOK  BY DEF WalletInv, WithdrawalInv
<1>2. /\ hand[h].step = "idle" /\ hand'[h].step = "payee" /\ hand'[h].otp = o
      /\ otp[o].state = "LIVE" /\ raced' = raced
      /\ UNCHANGED <<otp, ledger, paystack, lost>>
      BY <1>1, VerifyHand DEF VerifyWithdrawalOtp
<1>3. \A g \in Hands : g # h => hand'[g] = hand[g]
      BY <1>1, Moves DEF Handler, Verifications
<1>4. /\ hand[h].step \notin BeforeTransfer /\ hand'[h].step \in BeforeTransfer
      /\ hand[h].step # "record" /\ hand'[h].step # "record"
      BY <1>2 DEF BeforeTransfer
<1>5. CASE twice' = twice
      BY <1>2, <1>3, <1>4, <1>5, CloseByHand
<1>6. CASE twice' # twice
  <2>1. twice \subseteq twice' /\ twice' \subseteq Otps
        BY <1>1, <1>6 DEF VerifyWithdrawalOtp, TypeOK
  <2>2. \A p \in Otps : AsSlip(p)' = AsSlip(p)
        BY <1>2, <1>3, <1>4, SlipsStand
  <2>3. InFlight(Done)' = InFlight(Done) /\ InFlight(Unfinished)' = InFlight(Unfinished)
    <3>1. \A g \in Hands : hand[g].step = "record" \/ hand'[g].step = "record" =>
                              hand'[g] = hand[g]
          BY <1>3, <1>4
    <3>2. QED  BY <3>1, FlightKept
  <2>4. UNCHANGED <<Books!sums, sent>>
        BY <1>2, <2>3 DEF Books!sums, ledger, paystack
  <2>5. [p \in Otps |-> AsSlip(p)]' = [p \in Otps |-> AsSlip(p)]  BY <2>2
  <2>6. ("withdraw" \in raced)' = ("withdraw" \in raced)  BY <1>2
  <2>7. Books!Double  BY <2>1, <2>4, <2>5, <2>6 DEF Books!Double
  <2>8. QED  BY <2>7 DEF Books!WalletNext
<1>7. QED  BY <1>5, <1>6

\* The check of the balance changes no sum; overlapping with another disorders them.
LEMMA CheckBooks ==
    ASSUME WalletInv, NEW h \in Hands, CheckBalance(h)
    PROVE  Books!WalletNext
<1>1. TypeOK  BY DEF WalletInv, WithdrawalInv
<1>2. /\ hand[h].step = "balance" /\ hand'[h].step = "use" /\ hand'[h].otp = hand[h].otp
      /\ UNCHANGED <<otp, ledger, paystack, lost, twice>>
      BY <1>1, BalanceHand DEF CheckBalance
<1>3. \A g \in Hands : g # h => hand'[g] = hand[g]
      BY <1>1, Moves DEF Handler, Verifications
<1>4. /\ hand[h].step \in BeforeTransfer /\ hand'[h].step \in BeforeTransfer
      /\ hand[h].step # "record" /\ hand'[h].step # "record"
      BY <1>2 DEF BeforeTransfer
<1>5. CASE ("withdraw" \in raced)' <=> "withdraw" \in raced
      BY <1>2, <1>3, <1>4, <1>5, CloseByHand
<1>6. CASE ~(("withdraw" \in raced)' <=> "withdraw" \in raced)
  <2>1. "withdraw" \in raced'
        BY <1>1, <1>6, OverlapTyped DEF CheckBalance
  <2>2. [p \in Otps |-> AsSlip(p)]' = [p \in Otps |-> AsSlip(p)]
    <3>1. \A p \in Otps : AsSlip(p)' = AsSlip(p)
          BY <1>2, <1>3, <1>4, SlipsStand
    <3>2. QED  BY <3>1
  <2>3. Books!Disorder
        BY <1>2, <2>1, <2>2 DEF Books!Disorder, paystack
  <2>4. QED  BY <2>3 DEF Books!WalletNext
<1>7. QED  BY <1>5, <1>6

\* What a transfer does to the requests: its own is closed, unless it was doubled.
LEMMA TransferSlips ==
    ASSUME WalletInv, NEW h \in Hands, NEW answer \in {"success", "pending", "none"},
           InitiateTransfer(h, answer), NEW o, o = hand[h].otp
    PROVE  /\ o \in Otps /\ AsSlip(o).state = "open"
           /\ AsSlip(o).amount = hand[h].amount /\ hand[h].amount \in Nat \ {0}
           /\ \A p \in Otps : p # o => AsSlip(p)' = AsSlip(p)
           /\ \/ AsSlip(o)' = [AsSlip(o) EXCEPT !.state = "closed"]
              \/ o \in twice /\ AsSlip(o)' = AsSlip(o)
<1>1. TypeOK  BY DEF WalletInv, WithdrawalInv
<1>2. /\ hand[h].step = "transfer" /\ hand'[h].step \in {"idle", "record"}
      /\ otp' = otp /\ twice' = twice
      BY <1>1, TransferHand DEF InitiateTransfer
<1>3. \A g \in Hands : g # h => hand'[g] = hand[g]
      BY <1>1, Moves DEF Handler, Verifications
<1>4. /\ hand[h].step \in BeforeTransfer /\ hand'[h].step \notin BeforeTransfer
      /\ h \in In(BeforeTransfer) /\ h \in In({"payee", "balance"} \cup Withdrawing)
      BY <1>2 DEF BeforeTransfer, Withdrawing, In
<1>5. Pursues(h)  BY <1>4 DEF WalletInv
<1>6. /\ o \in Otps /\ otp[o].state # "NONE" /\ hand[h].amount = otp[o].amount
      /\ hand[h].amount \in Nat \ {0}
      BY <1>1, <1>2, <1>5, Fields DEF Pursues
<1>7. Pursued(o)  BY <1>4 DEF Pursued
<1>8. AsSlip(o) = [amount |-> otp[o].amount, state |-> "open"]
      BY <1>6, <1>7 DEF AsSlip
<1>9. ASSUME NEW p \in Otps, p # o PROVE AsSlip(p)' = AsSlip(p)
  <2>1. Pursued(p)' <=> Pursued(p)
        BY <1>3, <1>4, <1>9 DEF Pursued, In
  <2>2. QED  BY <1>2, <2>1, SlipStands
<1>10. CASE o \in twice
  <2>1. AsSlip(o)' = [amount |-> otp[o].amount,
                      state |-> IF otp[o].state = "LIVE" \/ Pursued(o)' THEN "open"
                                ELSE "closed"]
        BY <1>2, <1>6 DEF AsSlip
  <2>2. QED  BY <1>6, <1>8, <1>9, <1>10, <2>1
<1>11. CASE o \notin twice
  <2>1. otp[o].state = "USED" /\ \A g \in In(BeforeTransfer) : hand[g].otp = o => g = h
        BY <1>2, <1>4, <1>6, <1>11 DEF WalletInv, WithdrawalInv, OtpsHold
  <2>2. ~Pursued(o)'
        BY <1>3, <1>4, <2>1 DEF Pursued, In
  <2>3. AsSlip(o)' = [amount |-> otp[o].amount, state |-> "closed"]
        BY <1>2, <2>1, <2>2 DEF AsSlip
  <2>4. QED  BY <1>6, <1>8, <1>9, <2>3
<1>12. QED  BY <1>10, <1>11

\* What a transfer does to the sums: the check made earlier still holds.
LEMMA TransferSums ==
    ASSUME WalletInv, TypeOK', NEW h \in Hands,
           NEW answer \in {"success", "pending", "none"}, InitiateTransfer(h, answer),
           "withdraw" \notin raced, NEW a \in Nat \ {0}, a = hand[h].amount
    PROVE  Books!PayOut(a)
<1>0. a \in Int /\ a > 0  OBVIOUS
<1>1. /\ TypeOK /\ MoneyHolds  BY DEF WalletInv, WithdrawalInv
<1>2. hand[h].step = "transfer"  BY DEF InitiateTransfer
<1>3. h \in In(Withdrawing) /\ In({"record"}) \subseteq In(Withdrawing)
      BY <1>2 DEF In, Withdrawing
<1>4. In(Withdrawing) = {h} /\ In({"record"}) = {}
      BY <1>1, <1>2, <1>3 DEF MoneyHolds, Alone, In
<1>5. /\ credited \in Nat /\ debited \in Nat /\ pending \in Nat /\ lost \in Nat
      /\ paidOut \in Nat /\ debited + a <= credited
      BY <1>1, <1>3 DEF MoneyHolds, TypeOK
<1>6. InFlight(Done) = 0 /\ InFlight(Unfinished) = 0  BY <1>4, NoneInFlight
<1>7. a \in 1 .. (credited - debited - InFlight(Done))
  <2>1. credited - debited - InFlight(Done) = credited - debited  BY <1>5, <1>6
  <2>2. a <= credited - debited /\ credited - debited \in Int  BY <1>0, <1>5
  <2>3. QED  BY <1>0, <2>1, <2>2
<1>8. /\ paidOut' = paidOut + a
      /\ credited' = credited /\ debited' = debited /\ pending' = pending
      BY DEF InitiateTransfer, Accept, ledger
<1>9. \A g \in Hands : g # h => hand'[g] = hand[g]
      BY <1>1, Moves DEF Handler, Verifications
<1>10. \A g \in Hands : g # h => hand'[g].step # "record"
       BY <1>4, <1>9 DEF In
<1>11. CASE answer = "none"
  <2>1. hand'[h].step = "idle" /\ lost' = lost + a
        BY <1>1, <1>11, TransferHand DEF InitiateTransfer
  <2>2. In({"record"})' = {}  BY <1>10, <2>1 DEF In
  <2>3. InFlight(Done)' = 0 /\ InFlight(Unfinished)' = 0  BY <2>2, NoneInFlight
  <2>4. /\ (credited - debited - InFlight(Done))' = credited - debited - InFlight(Done)
        /\ (pending + lost + InFlight(Unfinished))' = pending + lost + InFlight(Unfinished) + a
        BY <1>0, <1>5, <1>6, <1>8, <2>1, <2>3
  <2>5. QED  BY <1>7, <1>8, <2>4 DEF Books!PayOut
<1>12. CASE answer # "none"
  <2>1. /\ hand'[h].step = "record" /\ hand'[h].flag = (answer = "success")
        /\ hand'[h].amount = a /\ lost' = lost
        BY <1>1, <1>12, TransferHand DEF InitiateTransfer
  <2>2. In({"record"})' = {h}  BY <1>10, <2>1 DEF In
  <2>3. CASE answer = "success"
    <3>1. InFlight(Done)' = a /\ InFlight(Unfinished)' = 0
          BY <2>1, <2>2, <2>3, OneInFlightNext
    <3>2. /\ (credited - debited - InFlight(Done))' = credited - debited - InFlight(Done) - a
          /\ (pending + lost + InFlight(Unfinished))' = pending + lost + InFlight(Unfinished)
          BY <1>0, <1>5, <1>6, <1>8, <2>1, <3>1
    <3>3. QED  BY <1>7, <1>8, <3>2 DEF Books!PayOut
  <2>4. CASE answer # "success"
    <3>1. InFlight(Done)' = 0 /\ InFlight(Unfinished)' = a
          BY <2>1, <2>2, <2>4, OneInFlightNext
    <3>2. /\ (credited - debited - InFlight(Done))' = credited - debited - InFlight(Done)
          /\ (pending + lost + InFlight(Unfinished))' = pending + lost + InFlight(Unfinished) + a
          BY <1>0, <1>5, <1>6, <1>8, <2>1, <3>1
    <3>3. QED  BY <1>7, <1>8, <3>2 DEF Books!PayOut
  <2>5. QED  BY <2>3, <2>4
<1>13. QED  BY <1>11, <1>12

\* A transfer is the withdrawal.
LEMMA TransferBooks ==
    ASSUME WalletInv, TypeOK', NEW h \in Hands,
           NEW answer \in {"success", "pending", "none"}, InitiateTransfer(h, answer)
    PROVE  Books!WalletNext
<1> DEFINE slips == [p \in Otps |-> AsSlip(p)]
<1>0. PICK o : o = hand[h].otp  OBVIOUS
<1>1. /\ o \in Otps /\ AsSlip(o).state = "open"
      /\ AsSlip(o).amount = hand[h].amount /\ hand[h].amount \in Nat \ {0}
      /\ \A p \in Otps : p # o => AsSlip(p)' = AsSlip(p)
      /\ \/ AsSlip(o)' = [AsSlip(o) EXCEPT !.state = "closed"]
         \/ o \in twice /\ AsSlip(o)' = AsSlip(o)
      BY <1>0, TransferSlips
<1>2. /\ \A p \in Otps : slips[p] = AsSlip(p) /\ slips'[p] = AsSlip(p)'
      /\ DOMAIN slips = Otps /\ slips' = [p \in Otps |-> slips'[p]]
      /\ slips = [p \in Otps |-> slips[p]]
      OBVIOUS
<1>3. "withdraw" \in raced \/ Books!PayOut(slips[o].amount)
      BY <1>1, <1>2, TransferSums
<1>4. sent' = [sent EXCEPT ![o] = @ + 1] /\ twice' = twice /\ raced' = raced
      BY <1>0 DEF InitiateTransfer, Accept
<1> HIDE DEF slips
<1>5. \/ slips' = [slips EXCEPT ![o].state = "closed"]
      \/ o \in twice /\ slips' = slips
  <2>1. \A p \in Otps : p # o => slips'[p] = slips[p]  BY <1>1, <1>2
  <2>2. CASE AsSlip(o)' = [AsSlip(o) EXCEPT !.state = "closed"]
    <3>1. slips'[o] = [slips[o] EXCEPT !.state = "closed"]  BY <1>1, <1>2, <2>2
    <3>2. QED  BY <1>2, <2>1, <3>1
  <2>3. CASE o \in twice /\ AsSlip(o)' = AsSlip(o)
    <3>1. slips'[o] = slips[o]  BY <1>1, <1>2, <2>3
    <3>2. QED  BY <1>2, <2>1, <2>3, <3>1
  <2>4. QED  BY <1>1, <2>2, <2>3
<1>6. slips[o].state = "open"  BY <1>1, <1>2
<1>7. ("withdraw" \in raced)' = ("withdraw" \in raced)  BY <1>4
<1>8. Books!Withdraw(o)
      BY <1>3, <1>4, <1>5, <1>6, <1>7 DEF Books!Withdraw, slips
<1>9. QED  BY <1>1, <1>8 DEF Books!WalletNext

\* Steps of a handler past its transfer concern no request.
LEMMA PastTransfer ==
    ASSUME WalletInv, NEW h \in Hands, hand[h].step = "record", hand'[h].step = "idle",
           \A g \in Hands : g # h => hand'[g] = hand[g], otp' = otp
    PROVE  /\ [p \in Otps |-> AsSlip(p)]' = [p \in Otps |-> AsSlip(p)]
           /\ "withdraw" \notin raced =>
                 /\ In({"record"}) = {h} /\ In({"record"})' = {}
                 /\ paidOut = debited + pending + lost + hand[h].amount
                 /\ debited <= credited /\ hand[h].amount > 0
<1>1. TypeOK /\ MoneyHolds  BY DEF WalletInv, WithdrawalInv
<1>2. hand[h].step \notin BeforeTransfer /\ hand'[h].step \notin BeforeTransfer
      BY DEF BeforeTransfer
<1>3. \A p \in Otps : AsSlip(p)' = AsSlip(p)  BY <1>2, SlipsStand
<1>4. ASSUME "withdraw" \notin raced
      PROVE  /\ In({"record"}) = {h} /\ In({"record"})' = {}
             /\ paidOut = debited + pending + lost + hand[h].amount
             /\ debited <= credited /\ hand[h].amount > 0
  <2>1. h \in In({"record"}) /\ In({"record"}) \subseteq In(Withdrawing)
        BY DEF In, Withdrawing
  <2>2. In({"record"}) = {h}  BY <1>1, <1>4, <2>1 DEF MoneyHolds, Alone
  <2>3. In({"record"})' = {}  BY <2>2 DEF In
  <2>4. paidOut = debited + pending + lost + hand[h].amount /\ debited <= credited
        BY <1>1, <1>4, <2>1 DEF MoneyHolds
  <2>5. h \in In({"payee", "balance"} \cup Withdrawing)  BY DEF In, Withdrawing
  <2>6. hand[h].amount > 0  BY <2>5 DEF WalletInv, Pursues
  <2>7. QED  BY <2>2, <2>3, <2>4, <2>6
<1>5. QED  BY <1>3, <1>4

\* Writing the debit changes nothing: the balance is lowered since the transfer.
LEMMA RecordBooks ==
    ASSUME WalletInv, NEW h \in Hands, RecordDebit(h)
    PROVE  [Books!WalletNext]_(Books!walletVars)
<1> DEFINE slips == [p \in Otps |-> AsSlip(p)]
           a == hand[h].amount
<1>1. TypeOK  BY DEF WalletInv, WithdrawalInv
<1>2. /\ hand[h].step = "record" /\ hand'[h].step = "idle" /\ otp' = otp
      /\ \A g \in Hands : g # h => hand'[g] = hand[g]
      BY <1>1, Leaves, IdleJob DEF RecordDebit
<1>3. /\ slips' = slips
      /\ "withdraw" \notin raced => In({"record"}) = {h} /\ In({"record"})' = {}
      BY <1>2, PastTransfer
<1>4. /\ credited' = credited /\ sent' = sent /\ paidOut' = paidOut /\ lost' = lost
      /\ twice' = twice /\ raced' = raced
      BY DEF RecordDebit, paystack, history
<1>5. /\ hand[h].flag => debited' = debited + a /\ pending' = pending
      /\ ~hand[h].flag => pending' = pending + a /\ debited' = debited
      BY DEF RecordDebit
<1>6. /\ a \in Nat /\ credited \in Nat /\ debited \in Nat /\ pending \in Nat /\ lost \in Nat
      /\ hand[h].flag \in BOOLEAN
      BY <1>1, Fields DEF TypeOK
<1> HIDE DEF slips
<1>7. CASE "withdraw" \in raced
  <2>1. Books!Disorder  BY <1>3, <1>4, <1>7 DEF Books!Disorder, slips
  <2>2. QED  BY <2>1 DEF Books!WalletNext
<1>8. CASE "withdraw" \notin raced
  <2>1. InFlight(Done)' = 0 /\ InFlight(Unfinished)' = 0
        BY <1>3, <1>8, NoneInFlight
  <2>2. /\ hand[h].flag => InFlight(Done) = a /\ InFlight(Unfinished) = 0
        /\ ~hand[h].flag => InFlight(Done) = 0 /\ InFlight(Unfinished) = a
        BY <1>1, <1>3, <1>8, OneInFlight
  <2> HIDE DEF a
  <2>3. (credited - debited - InFlight(Done))' = credited - debited - InFlight(Done)
    <3>1. CASE hand[h].flag
      <4>1. debited' = debited + a /\ InFlight(Done) = a  BY <1>5, <2>2, <3>1
      <4>2. QED  BY <1>4, <1>6, <2>1, <4>1
    <3>2. CASE ~hand[h].flag
      <4>1. debited' = debited /\ InFlight(Done) = 0  BY <1>5, <2>2, <3>2
      <4>2. QED  BY <1>4, <1>6, <2>1, <4>1
    <3>3. QED  BY <3>1, <3>2
  <2>4. (pending + lost + InFlight(Unfinished))' = pending + lost + InFlight(Unfinished)
    <3>1. CASE hand[h].flag
      <4>1. pending' = pending /\ InFlight(Unfinished) = 0  BY <1>5, <2>2, <3>1
      <4>2. QED  BY <1>4, <1>6, <2>1, <4>1
    <3>2. CASE ~hand[h].flag
      <4>1. pending' = pending + a /\ InFlight(Unfinished) = a  BY <1>5, <2>2, <3>2
      <4>2. QED  BY <1>4, <1>6, <2>1, <4>1
    <3>3. QED  BY <3>1, <3>2
  <2>5. UNCHANGED <<Books!sums, sent, twice>>
        BY <1>4, <2>3, <2>4 DEF Books!sums
  <2>6. ("withdraw" \in raced)' = ("withdraw" \in raced)  BY <1>4
  <2>7. UNCHANGED Books!walletVars  BY <1>3, <2>5, <2>6 DEF Books!walletVars, slips
  <2>8. QED  BY <2>7
<1>9. QED  BY <1>7, <1>8

\* A debit nobody writes leaves the transfer unrecorded, whatever Paystack said.
LEMMA DropBooks ==
    ASSUME WalletInv, NEW h \in Hands, DropHand(h)
    PROVE  [Books!WalletNext]_(Books!walletVars)
<1> DEFINE slips == [p \in Otps |-> AsSlip(p)]
           a == hand[h].amount
<1>1. TypeOK  BY DEF WalletInv, WithdrawalInv
<1>2. /\ hand'[h].step = "idle" /\ otp' = otp
      /\ \A g \in Hands : g # h => hand'[g] = hand[g]
      BY <1>1, Leaves, IdleJob DEF DropHand
<1>3. /\ credited' = credited /\ debited' = debited /\ pending' = pending
      /\ sent' = sent /\ paidOut' = paidOut /\ twice' = twice /\ raced' = raced
      BY DEF DropHand, ledger, paystack
<1>4. CASE hand[h].step # "record"
  <2>1. hand'[h].step # "record" /\ hand'[h].step \notin BeforeTransfer /\ lost' = lost
        BY <1>2, <1>4 DEF BeforeTransfer, DropHand
  <2>2. Books!WalletNext
        BY <1>2, <1>3, <1>4, <2>1, CloseByHand DEF ledger, paystack
  <2>3. QED  BY <2>2
<1>5. CASE hand[h].step = "record"
  <2>1. /\ slips' = slips
        /\ "withdraw" \notin raced =>
              /\ In({"record"}) = {h} /\ In({"record"})' = {}
              /\ paidOut = debited + pending + lost + a
              /\ debited <= credited /\ a > 0
        BY <1>2, <1>5, PastTransfer
  <2>2. lost' = lost + a  BY <1>5 DEF DropHand
  <2>3. /\ a \in Nat /\ credited \in Nat /\ debited \in Nat /\ pending \in Nat
        /\ lost \in Nat /\ paidOut \in Nat /\ hand[h].flag \in BOOLEAN
        BY <1>1, Fields DEF TypeOK
  <2> HIDE DEF slips
  <2>4. CASE "withdraw" \in raced
    <3>1. Books!Disorder  BY <1>3, <2>1, <2>4 DEF Books!Disorder, slips
    <3>2. QED  BY <3>1 DEF Books!WalletNext
  <2>5. CASE "withdraw" \notin raced
    <3>1. InFlight(Done)' = 0 /\ InFlight(Unfinished)' = 0
          BY <2>1, <2>5, NoneInFlight
    <3>2. /\ hand[h].flag => InFlight(Done) = a /\ InFlight(Unfinished) = 0
          /\ ~hand[h].flag => InFlight(Done) = 0 /\ InFlight(Unfinished) = a
          BY <1>1, <2>1, <2>5, OneInFlight
    <3>3. /\ paidOut = debited + pending + lost + a /\ debited <= credited /\ a > 0
          BY <2>1, <2>5
    <3>4. ("withdraw" \in raced)' = ("withdraw" \in raced)  BY <1>3
    <3> HIDE DEF a
    <3>5. CASE hand[h].flag
      <4>1. InFlight(Done) = a /\ InFlight(Unfinished) = 0  BY <3>2, <3>5
      <4> DEFINE b == credited - debited - InFlight(Done)
                 u == pending + lost + InFlight(Unfinished)
      <4>2. b' = credited - debited /\ b = credited - debited - a
            BY <1>3, <2>3, <3>1, <4>1
      <4>3. u' = pending + lost + a /\ u = pending + lost
            BY <1>3, <2>2, <2>3, <3>1, <4>1
      <4> HIDE DEF b, u
      <4>4. b' \in Nat /\ b' - b = a  BY <2>3, <3>3, <4>2
      <4>5. u' = u + a /\ paidOut - u = debited + a  BY <2>3, <3>3, <4>3
      <4>6. b' - b \in 1 .. paidOut - u /\ u' = u + (b' - b)
            BY <2>3, <3>3, <4>4, <4>5
      <4>7. Books!Forget
            BY <1>3, <2>1, <3>4, <4>4, <4>6 DEF Books!Forget, slips, b, u
      <4>8. QED  BY <4>7 DEF Books!WalletNext
    <3>6. CASE ~hand[h].flag
      <4>1. InFlight(Done) = 0 /\ InFlight(Unfinished) = a  BY <3>2, <3>6
      <4>2. (credited - debited - InFlight(Done))' = credited - debited - InFlight(Done)
            BY <1>3, <2>3, <3>1, <4>1
      <4>3. (pending + lost + InFlight(Unfinished))' = pending + lost + InFlight(Unfinished)
            BY <1>3, <2>2, <2>3, <3>1, <4>1
      <4>4. UNCHANGED <<Books!sums, sent, twice>>  BY <1>3, <4>2, <4>3 DEF Books!sums
      <4>5. UNCHANGED Books!walletVars
            BY <2>1, <3>4, <4>4 DEF Books!walletVars, slips
      <4>6. QED  BY <4>5
    <3>7. QED  BY <3>5, <3>6
  <2>6. QED  BY <2>4, <2>5
<1>6. QED  BY <1>4, <1>5

\* A credit is earned.
LEMMA CreditBooks ==
    ASSUME WalletInv, NEW a \in Amounts, Credit(a)
    PROVE  [Books!WalletNext]_(Books!walletVars)
<1>1. /\ TypeOK /\ a \in Nat
      BY WithdrawalAssumption DEF WalletInv, WithdrawalInv
<1>2. /\ credited' = credited + a /\ hand' = hand /\ otp' = otp
      /\ UNCHANGED <<debited, pending, sent, paidOut, lost, twice, raced>>
      BY DEF Credit, paystack, history
<1>3. InFlight(Done)' = InFlight(Done) /\ InFlight(Unfinished)' = InFlight(Unfinished)
      BY <1>2, FlightKept
<1>4. \A p \in Otps : AsSlip(p)' = AsSlip(p)
      BY <1>2 DEF AsSlip, Pursued, In
<1> DEFINE slips == [p \in Otps |-> AsSlip(p)]
           b == credited - debited - InFlight(Done)
           u == pending + lost + InFlight(Unfinished)
<1>5. slips' = slips /\ u' = u  BY <1>2, <1>3, <1>4
<1>6. ("withdraw" \in raced)' = ("withdraw" \in raced)  BY <1>2
<1>7. CASE "withdraw" \in raced
  <2>1. Books!Disorder  BY <1>2, <1>5, <1>7 DEF Books!Disorder
  <2>2. QED  BY <2>1 DEF Books!WalletNext
<1>8. CASE "withdraw" \notin raced
  <2>1. credited \in Nat /\ debited \in Nat  BY <1>1 DEF TypeOK
  <2>2. InFlight(Done) \in Nat
    <3>1. CASE In({"record"}) = {}  BY <3>1, NoneInFlight
    <3>2. CASE In({"record"}) # {}
      <4>1. PICK h : h \in In({"record"})  BY <3>2
      <4>2. h \in Hands /\ In({"record"}) \subseteq In(Withdrawing)
            BY <4>1 DEF In, Withdrawing
      <4>3. In({"record"}) = {h}
            BY <1>8, <4>1, <4>2 DEF WalletInv, WithdrawalInv, MoneyHolds, Alone
      <4>4. hand[h].amount \in Nat  BY <1>1, <4>2, Fields
      <4>5. QED  BY <1>1, <4>2, <4>3, <4>4, OneInFlight
    <3>3. QED  BY <3>1, <3>2
  <2>3. b' = b + (credited' - credited) /\ credited' \in Nat
        BY <1>1, <1>2, <1>3, <2>1, <2>2
  <2>4. CASE a > 0
    <3>1. credited' > credited  BY <1>1, <1>2, <2>1, <2>4
    <3>2. Books!Earn  BY <1>2, <1>5, <1>6, <2>3, <3>1 DEF Books!Earn
    <3>3. QED  BY <3>2 DEF Books!WalletNext
  <2>5. CASE a = 0
    <3>1. credited' = credited  BY <1>2, <2>1, <2>5
    <3>2. b' = b  BY <1>2, <1>3, <3>1
    <3>3. UNCHANGED Books!walletVars
          BY <1>2, <1>5, <1>6, <3>1, <3>2 DEF Books!walletVars, Books!sums
    <3>4. QED  BY <3>3
  <2>6. QED  BY <1>1, <2>4, <2>5
<1>9. QED  BY <1>7, <1>8

\* Finding the payee, marking the request and registering the recipient open nothing.
LEMMA ApproachBooks ==
    ASSUME WalletInv, NEW h \in Hands, FindPayee(h) \/ UseOtp(h) \/ CreateRecipient(h)
    PROVE  Books!WalletNext
<1>1. TypeOK /\ otp \in [Otps -> OtpRow]  BY DEF WalletInv, WithdrawalInv, TypeOK
<1>2. \A g \in Hands : g # h => hand'[g] = hand[g]
      BY <1>1, Moves DEF Handler, Verifications
<1>3. /\ hand[h].step # "record" /\ hand'[h].step # "record"
      /\ hand[h].step \in BeforeTransfer /\ hand'[h].otp = hand[h].otp
  <2>1. CASE FindPayee(h)  BY <1>1, <2>1, PayeeHand DEF BeforeTransfer
  <2>2. CASE UseOtp(h)  BY <1>1, <2>2, UseHand DEF BeforeTransfer
  <2>3. CASE CreateRecipient(h)  BY <1>1, <2>3, RecipientHand DEF BeforeTransfer
  <2>4. QED  BY <2>1, <2>2, <2>3
<1>4. UNCHANGED <<ledger, paystack, lost, twice, raced>>
      BY DEF FindPayee, UseOtp, CreateRecipient, history
<1>5. \A o \in Otps : /\ otp'[o].amount = otp[o].amount
                      /\ otp'[o].state = "NONE" <=> otp[o].state = "NONE"
                      /\ otp'[o].state = "LIVE" => otp[o].state = "LIVE"
  <2>1. CASE UNCHANGED otp  BY <2>1
  <2>2. CASE UseOtp(h)
    <3>1. Pursues(h)
          BY <1>1, <2>2, UseHand DEF WalletInv, In, Withdrawing
    <3>2. hand[h].otp \in Otps /\ otp[hand[h].otp].state # "NONE"
          BY <3>1 DEF Pursues
    <3>3. QED  BY <1>1, <2>2, <3>2 DEF UseOtp, OtpRow
  <2>3. QED  BY <2>1, <2>2 DEF FindPayee, CreateRecipient
<1>6. ("withdraw" \in raced)' <=> "withdraw" \in raced  BY <1>4
<1>7. QED  BY <1>2, <1>3, <1>4, <1>5, <1>6, CloseByHand

\* Requests that lose their account or expire were open or stay as they were.
LEMMA RowBooks ==
    ASSUME WalletInv,
           \/ \E b \in Banks : DeleteBankAccount(b)
           \/ \E o \in Otps : Expire(o)
    PROVE  Books!WalletNext
<1>1. otp \in [Otps -> OtpRow]  BY DEF WalletInv, WithdrawalInv, TypeOK
<1>2. /\ hand' = hand /\ raced' = raced
      /\ UNCHANGED <<ledger, paystack, lost, twice>>
      BY DEF DeleteBankAccount, Expire, history
<1>3. \A o \in Otps : /\ otp'[o].amount = otp[o].amount
                      /\ otp'[o].state = "NONE" <=> otp[o].state = "NONE"
                      /\ otp'[o].state = "LIVE" => otp[o].state = "LIVE"
  <2>1. ASSUME NEW b \in Banks, DeleteBankAccount(b)
        PROVE  \A o \in Otps : /\ otp'[o].amount = otp[o].amount
                               /\ otp'[o].state = otp[o].state
        BY <1>1, <2>1 DEF DeleteBankAccount, OtpRow
  <2>2. ASSUME NEW p \in Otps, Expire(p)
        PROVE  \A o \in Otps : /\ otp'[o].amount = otp[o].amount
                               /\ otp'[o].state = "NONE" <=> otp[o].state = "NONE"
                               /\ otp'[o].state = "LIVE" => otp[o].state = "LIVE"
        BY <1>1, <2>2 DEF Expire, OtpRow
  <2>3. QED  BY <2>1, <2>2
<1>4. \A o \in Otps : Pursued(o)' <=> Pursued(o)  BY <1>2 DEF Pursued, In
<1>5. ("withdraw" \in raced)' <=> "withdraw" \in raced  BY <1>2
<1>6. QED  BY <1>2, <1>3, <1>4, <1>5, CloseBooks

\* Nothing happens.
LEMMA StillBooks ==
    ASSUME UNCHANGED vars
    PROVE  UNCHANGED Books!walletVars
<1>1. /\ UNCHANGED <<otp, credited, debited, pending, hand, sent, paidOut, lost, twice, raced>>
      BY DEF vars, ledger, paystack, history
<1>2. InFlight(Done)' = InFlight(Done) /\ InFlight(Unfinished)' = InFlight(Unfinished)
      BY <1>1, FlightKept
<1>3. \A o \in Otps : AsSlip(o)' = AsSlip(o)  BY <1>1 DEF AsSlip, Pursued, In
<1> DEFINE slips == [o \in Otps |-> AsSlip(o)]
<1>4. slips' = slips  BY <1>3
<1>5. ("withdraw" \in raced)' = ("withdraw" \in raced)  BY <1>1
<1>6. QED  BY <1>1, <1>2, <1>4, <1>5 DEF Books!walletVars, Books!sums

\* Both parts, each by its lemma.
LEMMA WalletInvStep == WalletInv /\ [Next]_vars => WalletInv'
<1> SUFFICES ASSUME WalletInv, [Next]_vars PROVE WalletInv'
    OBVIOUS
<1>1. WithdrawalInv'  BY WithdrawalStep DEF WalletInv
<1>2. TypeOK /\ \A h \in In(Pursuing) : Pursues(h)
      BY DEF WalletInv, WithdrawalInv, Pursuing
<1>3. \A h \in In(Pursuing)' : Pursues(h)'  BY <1>2, PursuesStep
<1>4. QED  BY <1>1, <1>3 DEF WalletInv, Pursuing

\* One case per action.
LEMMA WalletStep == WalletInv /\ [Next]_vars => [Books!WalletNext]_(Books!walletVars)
<1> SUFFICES ASSUME WalletInv, [Next]_vars
             PROVE  [Books!WalletNext]_(Books!walletVars)
    OBVIOUS
<1>1. TypeOK'  BY Types DEF WalletInv, WithdrawalInv
<1>2. ASSUME NEW h \in Hands, Verifications(h)
      PROVE  [Books!WalletNext]_(Books!walletVars)
      BY <1>1, <1>2, VerifyBooks, CheckBooks, ApproachBooks, TransferBooks, RecordBooks
      DEF Verifications
<1>3. ASSUME NEW h \in Hands, Accounts(h) \/ Requests(h) \/ Verifications(h) \/ DropHand(h)
      PROVE  [Books!WalletNext]_(Books!walletVars)
      BY <1>2, <1>3, AccountBooks, RequestBooks, DropBooks
<1>4. CASE \/ \E b \in Banks : DeleteBankAccount(b)
           \/ \E o \in Otps : Expire(o)
      BY <1>4, RowBooks
<1>5. ASSUME NEW a \in Amounts, Credit(a)
      PROVE  [Books!WalletNext]_(Books!walletVars)
      BY <1>5, CreditBooks
<1>6. CASE UNCHANGED vars  BY <1>6, StillBooks
<1>7. QED  BY <1>3, <1>4, <1>5, <1>6 DEF Next

\* A wallet without requests, credits or handlers.
LEMMA WalletStart == Init => WalletInv /\ Books!WalletInit
<1> SUFFICES ASSUME Init PROVE WalletInv /\ Books!WalletInit
    OBVIOUS
<1>1. \A h \in Hands : hand[h].step = "idle"  BY IdleJob DEF Init
<1>2. WalletInv
  <2>1. In(Pursuing) = {}  BY <1>1 DEF In, Pursuing, Withdrawing
  <2>2. QED  BY <2>1, WithdrawalInit DEF WalletInv, Pursuing
<1>3. InFlight(Done) = 0 /\ InFlight(Unfinished) = 0
  <2>1. In({"record"}) = {}  BY <1>1 DEF In
  <2>2. QED  BY <2>1, NoneInFlight
<1>4. \A o \in Otps : AsSlip(o) = [amount |-> 0, state |-> "unmade"]
      BY DEF Init, AsSlip
<1>5. [o \in Otps |-> AsSlip(o)] = [o \in Otps |-> [state |-> "unmade", amount |-> 0]]
      BY <1>4
<1>6. /\ credited - debited - InFlight(Done) = 0
      /\ pending + lost + InFlight(Unfinished) = 0
      BY <1>3 DEF Init
<1>7. ("withdraw" \in raced) = FALSE  BY DEF Init
<1>8. Books!WalletInit
      BY <1>5, <1>6, <1>7 DEF Init, Books!WalletInit
<1>9. QED  BY <1>2, <1>8

\* Who verifies a request knows its amount, and what WithdrawalInvariant says.
THEOREM WalletInvariant == Spec => []WalletInv
BY WalletStart, WalletInvStep, PTL DEF Spec

\* The handlers of requestWithdrawalOtp and verifyWithdrawalOtp, with their bank
\* accounts, their expiries and whatever is lost between two statements, implement the
\* wallet of Wallet.tla: checking, paying and debiting are one step to its owner.
THEOREM WithdrawalIsAtomic == Spec => PaysAtomically
<1>1. Init => Books!WalletInit  BY WalletStart
<1>2. QED
      BY <1>1, WalletInvariant, WalletStep, PTL
      DEF Spec, PaysAtomically, Books!WalletSpec

-----------------------------------------------------------------------------
\* What the books promise of slips sl, their transfers pd and the doubled ones db,
\* and of the sums: earned e, balance b, out o, unrecorded u.
SlipsKept(sl, pd, db) ==
    /\ sl \in [Otps -> Books!Slip] /\ pd \in [Otps -> Nat] /\ db \subseteq Otps
    /\ \A r \in Otps \ db : pd[r] <= IF sl[r].state = "closed" THEN 1 ELSE 0

SumsKept(e, b, o, u) ==
    e \in Nat /\ b \in Nat /\ o \in Nat /\ u \in Nat /\ b + o = e + u

AsSlips == [r \in Otps |-> AsSlip(r)]
AsBalance == credited - debited - InFlight(Done)
AsUnrecorded == pending + lost + InFlight(Unfinished)

BooksInv ==
    /\ SlipsKept(AsSlips, sent, twice)
    /\ "withdraw" \notin raced => SumsKept(credited, AsBalance, paidOut, AsUnrecorded)

\* A slip that opens has paid nothing.
LEMMA AskKept ==
    ASSUME NEW sl, NEW sl1, NEW pd, NEW db, SlipsKept(sl, pd, db), NEW r \in Otps,
           sl[r].state = "unmade", sl1[r] \in [state : {"open"}, amount : Nat],
           sl1 = [sl EXCEPT ![r] = sl1[r]]
    PROVE  SlipsKept(sl1, pd, db)
<1>1. sl1[r] \in Books!Slip /\ sl1[r].state = "open"  BY DEF Books!Slip
<1>2. /\ sl1 \in [Otps -> Books!Slip]
      /\ \A q \in Otps : q # r => sl1[q] = sl[q]
      BY <1>1 DEF SlipsKept
<1>3. QED  BY <1>1, <1>2 DEF SlipsKept

\* Closing pays nothing.
LEMMA CloseKept ==
    ASSUME NEW sl, NEW sl1, NEW pd, NEW db, SlipsKept(sl, pd, db),
           \A r \in Otps : sl1[r] # sl[r] => /\ sl[r].state = "open"
                                             /\ sl1[r] = [sl[r] EXCEPT !.state = "closed"],
           sl1 = [r \in Otps |-> sl1[r]]
    PROVE  SlipsKept(sl1, pd, db)
<1>0. \A r \in Otps : sl[r] \in Books!Slip  BY DEF SlipsKept
<1>1. ASSUME NEW r \in Otps
      PROVE  /\ sl1[r] \in Books!Slip
             /\ sl1[r] # sl[r] => sl[r].state = "open" /\ sl1[r].state = "closed"
  <2>1. CASE sl1[r] = sl[r]  BY <1>0, <2>1
  <2>2. CASE sl1[r] # sl[r]
    <3>1. /\ sl[r] \in Books!Slip /\ sl[r].state = "open"
          /\ sl1[r] = [sl[r] EXCEPT !.state = "closed"]
          BY <1>0, <2>2
    <3>2. QED  BY <3>1 DEF Books!Slip
  <2>3. QED  BY <2>1, <2>2
<1>2. sl1 \in [Otps -> Books!Slip]  BY <1>1
<1>3. \A r \in Otps : pd[r] \in Nat  BY DEF SlipsKept
<1>4. ASSUME NEW r \in Otps \ db
      PROVE  pd[r] <= IF sl1[r].state = "closed" THEN 1 ELSE 0
  <2>1. pd[r] \in Nat /\ pd[r] <= IF sl[r].state = "closed" THEN 1 ELSE 0
        BY <1>3 DEF SlipsKept
  <2>2. CASE sl1[r] = sl[r]  BY <2>1, <2>2
  <2>3. CASE sl[r].state = "open" /\ sl1[r].state = "closed"  BY <2>1, <2>3
  <2>4. QED  BY <1>1, <2>2, <2>3
<1>5. QED  BY <1>2, <1>4 DEF SlipsKept

\* A slip pays and is closed, unless it is doubled.
LEMMA WithdrawKept ==
    ASSUME NEW sl, NEW sl1, NEW pd, NEW pd1, NEW db, SlipsKept(sl, pd, db), NEW r \in Otps,
           sl[r].state = "open", pd1 = [pd EXCEPT ![r] = @ + 1],
           \/ sl1 = [sl EXCEPT ![r].state = "closed"]
           \/ r \in db /\ sl1 = sl
    PROVE  SlipsKept(sl1, pd1, db)
<1>1. /\ pd1 \in [Otps -> Nat] /\ pd1[r] = pd[r] + 1 /\ pd[r] \in Nat
      /\ \A q \in Otps : q # r => pd1[q] = pd[q]
      BY DEF SlipsKept
<1>2. /\ sl1 \in [Otps -> Books!Slip]
      /\ r \in db \/ sl1[r].state = "closed"
      /\ \A q \in Otps : q # r => sl1[q] = sl[q]
      BY DEF SlipsKept, Books!Slip
<1>3. r \notin db => pd[r] <= 0  BY DEF SlipsKept
<1>4. ASSUME NEW q \in Otps \ db
      PROVE  pd1[q] <= IF sl1[q].state = "closed" THEN 1 ELSE 0
  <2>1. CASE q = r  BY <1>1, <1>2, <1>3, <2>1
  <2>2. CASE q # r  BY <1>1, <1>2, <2>2 DEF SlipsKept
  <2>3. QED  BY <2>1, <2>2
<1>5. QED  BY <1>1, <1>2, <1>4 DEF SlipsKept

\* What is paid leaves the balance or is noted as unrecorded.
LEMMA PayOutKept ==
    ASSUME NEW e, NEW b, NEW b1, NEW o, NEW o1, NEW u, NEW u1, SumsKept(e, b, o, u),
           NEW a \in 1 .. b, o1 = o + a,
           \/ b1 = b - a /\ u1 = u
           \/ u1 = u + a /\ b1 = b
    PROVE  SumsKept(e, b1, o1, u1)
BY DEF SumsKept

\* What comes back to the balance is noted as unrecorded.
LEMMA ForgetKept ==
    ASSUME NEW e, NEW b, NEW b1 \in Nat, NEW o, NEW u, NEW u1, SumsKept(e, b, o, u),
           b1 - b \in 1 .. o - u, u1 = u + (b1 - b)
    PROVE  SumsKept(e, b1, o, u1)
BY DEF SumsKept

\* What is earned is in the balance.
LEMMA EarnKept ==
    ASSUME NEW e, NEW e1 \in Nat, NEW b, NEW b1, NEW o, NEW u, SumsKept(e, b, o, u),
           e1 > e, b1 = b + (e1 - e)
    PROVE  SumsKept(e1, b1, o, u)
BY DEF SumsKept

\* One case per action of the wallet.
LEMMA BooksKept ==
    ASSUME BooksInv, [Books!WalletNext]_(Books!walletVars)
    PROVE  BooksInv'
<1> DEFINE astray == "withdraw" \in raced
<1>1. /\ SlipsKept(AsSlips, sent, twice)
      /\ ~astray => SumsKept(credited, AsBalance, paidOut, AsUnrecorded)
      BY DEF BooksInv
<1>2. CASE Books!Earn
  <2>1. /\ AsSlips' = AsSlips /\ sent' = sent /\ twice' = twice /\ astray' = astray
        /\ paidOut' = paidOut /\ AsUnrecorded' = AsUnrecorded
        /\ credited' \in Nat /\ credited' > credited
        /\ AsBalance' = AsBalance + (credited' - credited)
        BY <1>2 DEF Books!Earn, AsSlips, AsBalance, AsUnrecorded
  <2>2. QED  BY <1>1, <2>1, EarnKept DEF BooksInv
<1>3. CASE Books!Close
  <2>1. /\ sent' = sent /\ twice' = twice /\ astray' = astray /\ credited' = credited
        /\ paidOut' = paidOut /\ AsUnrecorded' = AsUnrecorded /\ AsBalance' = AsBalance
        /\ \A r \in Otps : AsSlips'[r] # AsSlips[r] =>
              /\ AsSlips[r].state = "open"
              /\ AsSlips'[r] = [AsSlips[r] EXCEPT !.state = "closed"]
        /\ AsSlips' = [r \in Otps |-> AsSlips'[r]]
        BY <1>3 DEF Books!Close, Books!sums, AsSlips, AsBalance, AsUnrecorded
  <2>2. SlipsKept(AsSlips', sent, twice)  BY <1>1, <2>1, CloseKept
  <2>3. QED  BY <1>1, <2>1, <2>2 DEF BooksInv
<1>4. CASE Books!Forget
  <2>1. /\ AsSlips' = AsSlips /\ sent' = sent /\ twice' = twice /\ astray' = astray
        /\ paidOut' = paidOut /\ credited' = credited
        /\ AsBalance' \in Nat /\ AsBalance' - AsBalance \in 1 .. paidOut - AsUnrecorded
        /\ AsUnrecorded' = AsUnrecorded + (AsBalance' - AsBalance)
        BY <1>4 DEF Books!Forget, AsSlips, AsBalance, AsUnrecorded
  <2>2. QED  BY <1>1, <2>1, ForgetKept DEF BooksInv
<1>5. CASE Books!Double
  <2>1. /\ AsSlips' = AsSlips /\ sent' = sent /\ astray' = astray
        /\ twice \subseteq twice' /\ twice' \subseteq Otps
        /\ credited' = credited /\ paidOut' = paidOut
        /\ AsUnrecorded' = AsUnrecorded /\ AsBalance' = AsBalance
        BY <1>5 DEF Books!Double, Books!sums, AsSlips, AsBalance, AsUnrecorded
  <2>2. SlipsKept(AsSlips, sent, twice')  BY <1>1, <2>1 DEF SlipsKept
  <2>3. QED  BY <1>1, <2>1, <2>2 DEF BooksInv
<1>6. CASE Books!Disorder
  <2>1. AsSlips' = AsSlips /\ sent' = sent /\ twice' = twice /\ astray'
        BY <1>6 DEF Books!Disorder, AsSlips
  <2>2. QED  BY <1>1, <2>1 DEF BooksInv
<1>7. ASSUME NEW r \in Otps, Books!Ask(r) PROVE BooksInv'
  <2>1. /\ sent' = sent /\ twice' = twice /\ astray' = astray /\ credited' = credited
        /\ paidOut' = paidOut /\ AsUnrecorded' = AsUnrecorded /\ AsBalance' = AsBalance
        /\ AsSlips[r].state = "unmade"
        /\ AsSlips'[r] \in [state : {"open"}, amount : Nat]
        /\ AsSlips' = [AsSlips EXCEPT ![r] = AsSlips'[r]]
        BY <1>7 DEF Books!Ask, Books!sums, AsSlips, AsBalance, AsUnrecorded
  <2>2. SlipsKept(AsSlips', sent, twice)  BY <1>1, <2>1, AskKept
  <2>3. QED  BY <1>1, <2>1, <2>2 DEF BooksInv
<1>8. ASSUME NEW r \in Otps, Books!Withdraw(r) PROVE BooksInv'
  <2>1. /\ twice' = twice /\ astray' = astray
        /\ AsSlips[r].state = "open" /\ sent' = [sent EXCEPT ![r] = @ + 1]
        /\ \/ AsSlips' = [AsSlips EXCEPT ![r].state = "closed"]
           \/ r \in twice /\ AsSlips' = AsSlips
        BY <1>8 DEF Books!Withdraw, AsSlips
  <2>2. SlipsKept(AsSlips', sent', twice)  BY <1>1, <2>1, WithdrawKept
  <2>3. ~astray => SumsKept(credited', AsBalance', paidOut', AsUnrecorded')
    <3>1. SUFFICES ASSUME ~astray
                   PROVE  SumsKept(credited', AsBalance', paidOut', AsUnrecorded')
          OBVIOUS
    <3>2. PICK a : Books!PayOut(a)  BY <1>8, <3>1 DEF Books!Withdraw
    <3>3. /\ a \in 1 .. AsBalance /\ paidOut' = paidOut + a /\ credited' = credited
          /\ \/ AsBalance' = AsBalance - a /\ AsUnrecorded' = AsUnrecorded
             \/ AsUnrecorded' = AsUnrecorded + a /\ AsBalance' = AsBalance
          BY <3>2 DEF Books!PayOut, AsBalance, AsUnrecorded
    <3>4. QED  BY <1>1, <3>1, <3>3, PayOutKept
  <2>4. QED  BY <2>1, <2>2, <2>3 DEF BooksInv
<1>9. CASE UNCHANGED Books!walletVars
  <2>1. /\ sent' = sent /\ twice' = twice /\ astray' = astray /\ credited' = credited
        /\ paidOut' = paidOut /\ AsUnrecorded' = AsUnrecorded /\ AsBalance' = AsBalance
        /\ AsSlips' = AsSlips
        BY <1>9 DEF Books!walletVars, Books!sums, AsSlips, AsBalance, AsUnrecorded
  <2>2. QED  BY <1>1, <2>1 DEF BooksInv
<1>10. QED
       BY <1>2, <1>3, <1>4, <1>5, <1>6, <1>7, <1>8, <1>9 DEF Books!WalletNext

\* An empty wallet is in order.
LEMMA BooksBegin == Books!WalletInit => BooksInv
<1> SUFFICES ASSUME Books!WalletInit PROVE BooksInv
    OBVIOUS
<1>1. /\ AsSlips = [r \in Otps |-> [state |-> "unmade", amount |-> 0]]
      /\ sent = [r \in Otps |-> 0] /\ twice = {}
      /\ credited = 0 /\ AsBalance = 0 /\ paidOut = 0 /\ AsUnrecorded = 0
      BY DEF Books!WalletInit, AsSlips, AsBalance, AsUnrecorded
<1>2. SlipsKept(AsSlips, sent, twice)  BY <1>1 DEF SlipsKept, Books!Slip
<1>3. SumsKept(credited, AsBalance, paidOut, AsUnrecorded)  BY <1>1 DEF SumsKept
<1>4. QED  BY <1>2, <1>3 DEF BooksInv

\* The balance never runs below zero, what was paid out is debited or known to be
\* missing, and a request that was not verified twice at once pays once and is then
\* closed: it holds of every wallet that pays atomically, hence of these handlers.
THEOREM BooksBalance == Spec => []Books!WalletKept
<1>1. BooksInv => Books!WalletKept
  <2>1. BooksInv => /\ "withdraw" \notin raced =>
                          AsBalance \in Nat /\ AsBalance + paidOut = credited + AsUnrecorded
                    /\ \A r \in Otps \ twice :
                          sent[r] <= IF AsSlips[r].state = "closed" THEN 1 ELSE 0
        BY DEF BooksInv, SlipsKept, SumsKept
  <2>2. QED  BY <2>1 DEF Books!WalletKept, AsSlips, AsBalance, AsUnrecorded
<1>2. BooksInv /\ [Books!WalletNext]_(Books!walletVars) => BooksInv'  BY BooksKept
<1>3. Books!WalletInit => BooksInv  BY BooksBegin
<1>4. QED
      BY <1>1, <1>2, <1>3, WithdrawalIsAtomic, PTL DEF PaysAtomically, Books!WalletSpec
=============================================================================
