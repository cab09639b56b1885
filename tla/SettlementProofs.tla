-------------------------- MODULE SettlementProofs --------------------------
(***************************************************************************)
(* Refunds, for any number of campaigns, requests and handlers in flight.   *)
(* The payment part of the invariant is PaymentProofs'; what is new is that *)
(* every handler and every request works for a charged campaign, and that a *)
(* request nobody disturbed is paid by exactly one handler.  On top of it     *)
(* stands the refinement: the handlers implement the atomic settlement of    *)
(* Escrow.tla.                                                               *)
(***************************************************************************)
EXTENDS EscrowedSettlement, PaymentProofs

-----------------------------------------------------------------------------
\* Payment's steps, seen from the settlement.

\* A successful charge stays one, whatever the payment component does.
LEMMA ChargesLast ==
    ASSUME PaymentInv, [Next]_vars
    PROVE  \A r \in Refs : tx[r].st = "success" => tx'[r].st = "success"
<1> SUFFICES ASSUME NEW r \in Refs, tx[r].st = "success"
             PROVE  tx'[r].st = "success"
  OBVIOUS
<1>1. tx \in [Refs -> Transaction]
  BY DEF PaymentInv, TypeOK
<1>2. ASSUME NEW q \in Slots, InitializeAtPaystack(q)
      PROVE  tx'[r] = tx[r]
  <2>1. req[q].ref # r
    BY <1>2 DEF InitializeAtPaystack
  <2> QED
    BY <1>1, <1>2, <2>1 DEF InitializeAtPaystack
<1>3. ASSUME NEW q \in Slots, StoreReference(q)
      PROVE  tx'[r].st = "success"
  BY <1>1, <1>3 DEF StoreReference, Transaction
<1>4. ASSUME NEW q \in Slots, Handler(q)
      PROVE  tx'[r].st = "success"
  BY <1>2, <1>3, <1>4
  DEF Handler, PaystackAnswers, FindTask, MarkPaid, MarkFailed, Activate, Rewrite
<1>5. ASSUME NEW q \in Slots, Creator(q) \/ Abandon(q)
      PROVE  tx'[r].st = "success"
  BY <1>5 DEF Creator, InitiatePayment, VerifyPayment, VerifyOverwritten, PublishTask,
     UpdateTask, Abandon
<1>6. CASE Paystack
  BY <1>1, <1>6 DEF Paystack, PayCheckout, DeclineCheckout, WebhookFailed, WebhookSuccess,
     Transaction
<1>7. CASE UNCHANGED vars
  BY <1>7 DEF vars
<1> QED
  BY <1>4, <1>5, <1>6, <1>7 DEF Next

\* Leaving the row of a charged campaign with another status than DRAFT, and its
\* payment status or REFUNDED, keeps the payment component's invariant.
LEMMA SettledRow ==
    ASSUME PaymentInv, NEW t \in Tasks, Charged(t), NEW m \in TaskRow,
           task' = [task EXCEPT ![t] = m],
           m.ref = task[t].ref, m.pay \in {task[t].pay, "REFUNDED"}, m.status # "DRAFT",
           UNCHANGED <<tx, req, excused>>
    PROVE  PaymentInv'
<1> USE DEF PaymentInv
<1>1. /\ task' \in [Tasks -> TaskRow]
      /\ task'[t] = m
      /\ \A u \in Tasks : u # t => task'[u] = task[u]
  BY DEF TypeOK
<1>2. TypeOK'
  BY <1>1 DEF TypeOK
<1>3. RequestsHold'
  BY DEF RequestsHold, RequestHolds, Charged
<1>4. RowsHold'
  BY <1>1 DEF RowsHold
<1>5. SingleCheckout'
  BY <1>1 DEF SingleCheckout, Offered
<1>6. PaidByItsCharge' /\ PublishedWasCharged'
  BY <1>1 DEF PaidByItsCharge, PublishedWasCharged, Charged
<1> QED
  BY <1>2, <1>3, <1>4, <1>5, <1>6

\* Nothing in the payment component's invariant speaks of the settlement.
LEMMA PaymentStutters ==
    ASSUME PaymentInv, UNCHANGED vars
    PROVE  PaymentInv'
  BY PaymentStep

\* With the transactions unchanged, or only growing in success, the campaigns
\* charged stay charged.
LEMMA ChargedLasts ==
    ASSUME PaymentInv, [Next]_vars, NEW t, Charged(t)
    PROVE  Charged(t)'
  BY ChargesLast DEF Charged

-----------------------------------------------------------------------------
\* The settlement's own steps.

\* Replacing the job of one handler leaves the others alone.
LEMMA DeskSlot ==
    ASSUME SettlementInv, NEW d \in Desks, NEW m \in Desk, desk' = [desk EXCEPT ![d] = m]
    PROVE  /\ desk' \in [Desks -> Desk]
           /\ desk'[d] = m
           /\ \A e \in Desks : e # d => desk'[e] = desk[e]
  BY DEF SettlementInv, SettlementTypeOK

\* A handler that has nothing to do holds nothing.
LEMMA VacantHolds == Vacant \in Desk /\ Vacant.step = "idle"
<1>1. "idle" \in DeskSteps /\ "none" \in Ops
  BY DEF DeskSteps, Ops
<1> QED
  BY <1>1 DEF Vacant, Desk

\* What a job and a request consist of.
LEMMA SettlementFields ==
    ASSUME SettlementInv
    PROVE  /\ \A d \in Desks : /\ desk[d] \in Desk /\ desk[d].step \in DeskSteps
                               /\ desk[d].op \in Ops
                               /\ desk[d].task \in Tasks \cup {NoTask}
                               /\ desk[d].amount \in Nat
                               /\ desk[d].term \in Terms \cup {NoTerm}
                               /\ desk[d].missed \in Nat
           /\ \A k \in Terms : /\ term[k].net \in Nat /\ term[k].task \in Tasks \cup {NoTask}
                               /\ credited[k] \in Nat
           /\ \A t \in Tasks : refunds[t] \in Nat /\ paid[t] \in Nat
  BY DEF SettlementInv, SettlementTypeOK, Desk, TermRow

\* The refund and what is left of it are amounts.
LEMMA AmountsAreNat ==
    ASSUME NEW a \in Nat, NEW b \in Int
    PROVE  Remaining(a, b) \in Nat /\ NetRefund(a) \in Nat
<1>1. 100 - FeePct \in Nat
  BY SettlementAssumption
<1>2. \A x, y \in Nat : x * y \in Nat
  OBVIOUS
<1>3. a * (100 - FeePct) + 50 \in Nat
  BY <1>1, <1>2
<1>4. \A x \in Nat : x \div 100 \in Nat
  OBVIOUS
<1>5. NetRefund(a) \in Nat
  BY <1>3, <1>4 DEF NetRefund
<1> QED
  BY <1>5 DEF Remaining

\* A step that only moves a handler that settles, for a charged campaign.
LEMMA DeskOnly ==
    ASSUME SettlementInv, NEW d \in Desks, NEW m \in Desk,
           desk' = [desk EXCEPT ![d] = m],
           desk[d].step \notin {"pay", "file"}, m.step \notin {"pay", "file"},
           m.step # "idle" => m.task \in Tasks /\ Charged(m.task),
           UNCHANGED <<vars, term, paid, refunds, credited, disturbed>>
    PROVE  SettlementInv'
<1> USE DEF SettlementInv
<1>1. /\ desk' \in [Desks -> Desk]
      /\ desk'[d] = m
      /\ \A e \in Desks : e # d => desk'[e] = desk[e]
  BY DeskSlot
<1>2. PaymentInv' /\ UNCHANGED <<task, tx, req, excused>>
  BY PaymentStutters DEF vars
<1>3. SettlementTypeOK'
  BY <1>1, <1>2 DEF SettlementTypeOK, PaymentInv
<1>4. DesksHold'
  BY <1>1, <1>2 DEF DesksHold, Charged
<1>5. TermsHold' /\ RefundsHold'
  BY <1>2 DEF TermsHold, RefundsHold, Charged
<1>6. FiledByOne'
  BY <1>1 DEF FiledByOne, Files
<1>7. RefundHeldUntilProcessed'
  BY <1>1 DEF RefundHeldUntilProcessed
<1> QED
  BY <1>2, <1>3, <1>4, <1>5, <1>6, <1>7

\* Pausing, ending and terminating are refused to campaigns that were not charged.
LEMMA RequestStep ==
    ASSUME SettlementInv, NEW d \in Desks, NEW t \in Tasks,
           PauseTask(d, t) \/ EndTask(d, t) \/ TerminateTask(d, t)
    PROVE  SettlementInv'
<1> DEFINE m(op) == [step |-> "list", op |-> op, task |-> t, amount |-> task[t].total,
                     term |-> NoTerm, missed |-> 0]
<1>1. Charged(t)
  BY DEF PauseTask, EndTask, TerminateTask, SettlementInv, PaymentInv, PublishedWasCharged
<1>2. task[t].total \in Nat
  BY Fields DEF SettlementInv, PaymentInv
<1>3. PICK op \in {"pause", "end", "terminate"} :
         /\ desk[d].step = "idle" /\ desk' = [desk EXCEPT ![d] = m(op)]
         /\ UNCHANGED <<vars, term, paid, refunds, credited, disturbed>>
  BY DEF PauseTask, EndTask, TerminateTask, Take
<1>4. m(op) \in Desk
  <2>1. "list" \in DeskSteps /\ op \in Ops
    BY DEF DeskSteps, Ops
  <2> QED
    BY <1>2, <2>1 DEF Desk
<1> QED
  BY <1>1, <1>3, <1>4, DeskOnly

\* A list of submissions is nothing the invariant speaks of.
LEMMA ListStep ==
    ASSUME SettlementInv, NEW d \in Desks, ListSubmissions(d)
    PROVE  SettlementInv'
<1> DEFINE m == [desk[d] EXCEPT !.step = "sum"]
<1>1. /\ desk[d].step = "list"
      /\ UNCHANGED <<vars, term, paid, refunds, credited, disturbed>>
  BY DEF ListSubmissions
<1>2. desk[d].task \in Tasks /\ Charged(desk[d].task)
  BY <1>1 DEF SettlementInv, DesksHold
<1>3. m \in Desk /\ m.task = desk[d].task /\ m.step = "sum"
  <2>1. "sum" \in DeskSteps
    BY DEF DeskSteps
  <2> QED
    BY <2>1, SettlementFields DEF Desk
<1>4. desk' = [desk EXCEPT ![d] = m]
  BY SettlementFields DEF ListSubmissions, Desk
<1> HIDE DEF m
<1> QED
  BY <1>1, <1>2, <1>3, <1>4, DeskOnly

\* The remainder of a budget is an amount.
LEMMA SumStep ==
    ASSUME SettlementInv, NEW d \in Desks, SumPayouts(d)
    PROVE  SettlementInv'
<1> DEFINE rest == Remaining(desk[d].amount, paid[desk[d].task] - desk[d].missed)
           step == IF desk[d].op = "terminate" THEN "hold"
                   ELSE IF rest > 0 THEN "credit" ELSE "close"
           m == [desk[d] EXCEPT !.amount = rest, !.missed = 0, !.step = step]
<1>1. desk[d].step = "sum"
  BY DEF SumPayouts
<1>2. desk[d].task \in Tasks /\ Charged(desk[d].task)
  BY <1>1 DEF SettlementInv, DesksHold
<1>3. rest \in Nat /\ step \in DeskSteps /\ step \notin {"pay", "file", "idle"}
  <2>1. paid[desk[d].task] - desk[d].missed \in Int /\ desk[d].amount \in Nat
    BY <1>2, SettlementFields
  <2>2. rest \in Nat
    BY <2>1, AmountsAreNat
  <2> QED
    BY <2>2 DEF DeskSteps
<1>4. m \in Desk /\ m.task = desk[d].task /\ m.step = step
  BY <1>3, SettlementFields DEF Desk
<1>5. /\ desk' = [desk EXCEPT ![d] = m]
      /\ UNCHANGED <<vars, term, paid, refunds, credited, disturbed>>
  BY SettlementFields DEF SumPayouts, Desk
<1> HIDE DEF m, step, rest
<1> QED
  BY <1>1, <1>2, <1>3, <1>4, <1>5, DeskOnly

\* A refund is credited to a campaign that was charged.
LEMMA CreditStep ==
    ASSUME SettlementInv, NEW d \in Desks, CreditRefund(d)
    PROVE  SettlementInv'
<1> USE DEF SettlementInv
<1> DEFINE m == [desk[d] EXCEPT !.step = "close"]
           t == desk[d].task
<1>1. /\ desk[d].step = "credit" /\ desk' = [desk EXCEPT ![d] = m]
      /\ refunds' = [refunds EXCEPT ![t] = @ + desk[d].amount]
      /\ UNCHANGED <<vars, term, paid, credited, disturbed>>
  BY DEF CreditRefund, Refund
<1>2. t \in Tasks /\ Charged(t)
  BY <1>1 DEF DesksHold
<1>3. m \in Desk /\ m.step = "close" /\ m.task = t
  <2>1. "close" \in DeskSteps
    BY DEF DeskSteps
  <2> QED
    BY <2>1, SettlementFields DEF Desk
<1> HIDE DEF m
<1>4. /\ desk' \in [Desks -> Desk]
      /\ desk'[d] = m
      /\ \A e \in Desks : e # d => desk'[e] = desk[e]
  BY <1>1, <1>3, DeskSlot
<1>5. PaymentInv' /\ UNCHANGED <<task, tx, req, excused>>
  BY <1>1, PaymentStutters DEF vars
<1>6. refunds' \in [Tasks -> Nat] /\ \A u \in Tasks : u # t => refunds'[u] = refunds[u]
  BY <1>1, <1>2, SettlementFields DEF SettlementTypeOK
<1>7. SettlementTypeOK'
  BY <1>1, <1>4, <1>5, <1>6 DEF SettlementTypeOK, PaymentInv
<1>8. DesksHold'
  BY <1>1, <1>2, <1>3, <1>4, <1>5 DEF DesksHold, Charged
<1>9. TermsHold' /\ RefundsHold'
  BY <1>1, <1>2, <1>5, <1>6 DEF TermsHold, RefundsHold, Charged
<1>10. FiledByOne' /\ RefundHeldUntilProcessed'
  BY <1>1, <1>3, <1>4 DEF FiledByOne, Files, RefundHeldUntilProcessed
<1> QED
  BY <1>5, <1>7, <1>8, <1>9, <1>10

\* The row of a settled or terminated campaign is written.
LEMMA CloseStep ==
    ASSUME SettlementInv, NEW d \in Desks, CloseCampaign(d) \/ MarkTerminated(d)
    PROVE  SettlementInv'
<1> USE DEF SettlementInv
<1> DEFINE t == desk[d].task
<1>1. /\ desk[d].step \in {"close", "terminate"} /\ desk' = [desk EXCEPT ![d] = Vacant]
      /\ UNCHANGED <<tx, req, excused, term, paid, refunds, credited, disturbed>>
  BY DEF CloseCampaign, MarkTerminated, Leave
<1>2. t \in Tasks /\ Charged(t)
  BY <1>1 DEF DesksHold
<1>3. /\ desk' \in [Desks -> Desk]
      /\ desk'[d] = Vacant
      /\ \A e \in Desks : e # d => desk'[e] = desk[e]
  BY <1>1, VacantHolds, DeskSlot
<1>4. PICK m \in TaskRow :
         /\ task' = [task EXCEPT ![t] = m]
         /\ m.ref = task[t].ref /\ m.pay \in {task[t].pay, "REFUNDED"} /\ m.status # "DRAFT"
  <2>1. task[t] \in TaskRow
    BY <1>2 DEF SettlementTypeOK, TypeOK
  <2>2. {"PAUSED", "COMPLETED", "TERMINATED"} \subseteq TaskStatus /\ "REFUNDED" \in PaymentStatus
    BY DEF TaskStatus, PaymentStatus
  <2>3. CASE CloseCampaign(d)
    <3> DEFINE status == IF desk[d].op = "pause" THEN "PAUSED" ELSE "COMPLETED"
               pay == IF desk[d].amount > 0 THEN "REFUNDED" ELSE task[t].pay
               m == [task[t] EXCEPT !.status = status, !.pay = pay]
    <3>1. task' = [task EXCEPT ![t].status = status,
                               ![t].pay = IF desk[d].amount > 0 THEN "REFUNDED" ELSE @]
      BY <2>3 DEF CloseCampaign
    <3>2. task' = [task EXCEPT ![t] = m]
      BY <1>2, <2>1, <3>1 DEF TaskRow, TypeOK, SettlementTypeOK
    <3>3. /\ m \in TaskRow /\ m.ref = task[t].ref
          /\ m.pay \in {task[t].pay, "REFUNDED"} /\ m.status # "DRAFT"
      BY <2>1, <2>2 DEF TaskRow
    <3> HIDE DEF m
    <3> QED
      BY <3>2, <3>3
  <2>4. CASE MarkTerminated(d)
    <3> DEFINE m == [task[t] EXCEPT !.status = "TERMINATED"]
    <3>1. task' = [task EXCEPT ![t] = m]
      BY <2>4 DEF MarkTerminated
    <3>2. /\ m \in TaskRow /\ m.ref = task[t].ref
          /\ m.pay \in {task[t].pay, "REFUNDED"} /\ m.status # "DRAFT"
      BY <2>1, <2>2 DEF TaskRow
    <3> HIDE DEF m
    <3> QED
      BY <3>1, <3>2
  <2> QED
    BY <2>3, <2>4
<1>5. PaymentInv'
  BY <1>1, <1>2, <1>4, SettledRow
<1>6. SettlementTypeOK'
  BY <1>1, <1>3, <1>5 DEF SettlementTypeOK, PaymentInv
<1>7. DesksHold' /\ TermsHold' /\ RefundsHold'
  BY <1>1, <1>3, VacantHolds DEF DesksHold, TermsHold, RefundsHold, Charged
<1>8. FiledByOne' /\ RefundHeldUntilProcessed'
  BY <1>1, <1>3, VacantHolds DEF FiledByOne, Files, RefundHeldUntilProcessed
<1> QED
  BY <1>5, <1>6, <1>7, <1>8

\* A new request promises the refund its handler computed, and nobody files it yet.
LEMMA HoldStep ==
    ASSUME SettlementInv, NEW d \in Desks, NEW k \in Terms, HoldRefund(d, k)
    PROVE  SettlementInv'
<1> USE DEF SettlementInv
<1> DEFINE m == [desk[d] EXCEPT !.step = "terminate"]
           row == [status |-> "PENDING", task |-> desk[d].task,
                   net |-> NetRefund(desk[d].amount)]
<1>1. /\ desk[d].step = "hold" /\ term[k].status = "NONE"
      /\ desk' = [desk EXCEPT ![d] = m] /\ term' = [term EXCEPT ![k] = row]
      /\ UNCHANGED <<vars, paid, refunds, credited, disturbed>>
  BY DEF HoldRefund
<1>2. desk[d].task \in Tasks /\ Charged(desk[d].task)
  BY <1>1 DEF DesksHold
<1>3. m \in Desk /\ m.step = "terminate" /\ m.task = desk[d].task
  <2>1. "terminate" \in DeskSteps
    BY DEF DeskSteps
  <2> QED
    BY <2>1, SettlementFields DEF Desk
<1>4. row \in TermRow
  <2>1. NetRefund(desk[d].amount) \in Nat
    BY SettlementFields, AmountsAreNat
  <2> QED
    BY <1>2, <2>1 DEF TermRow
<1> HIDE DEF m
<1>5. /\ desk' \in [Desks -> Desk]
      /\ desk'[d] = m
      /\ \A e \in Desks : e # d => desk'[e] = desk[e]
  BY <1>1, <1>3, DeskSlot
<1>6. /\ term' \in [Terms -> TermRow]
      /\ term'[k].status = "PENDING" /\ term'[k].task = desk[d].task
      /\ \A j \in Terms : j # k => term'[j] = term[j]
  BY <1>1, <1>4 DEF SettlementTypeOK
<1>7. PaymentInv' /\ UNCHANGED <<task, tx, req, excused>>
  BY <1>1, PaymentStutters DEF vars
<1>8. SettlementTypeOK'
  BY <1>1, <1>5, <1>6, <1>7 DEF SettlementTypeOK, PaymentInv
<1>9. \A e \in Desks : ~Files(e, k)
  BY <1>1 DEF DesksHold, Files
<1>10. DesksHold'
  BY <1>1, <1>2, <1>3, <1>5, <1>6, <1>7, <1>9 DEF DesksHold, Files, Charged
<1>11. TermsHold' /\ RefundsHold'
  BY <1>1, <1>2, <1>6, <1>7 DEF TermsHold, RefundsHold, Charged
<1>12. FiledByOne'
  BY <1>1, <1>3, <1>5, <1>6, <1>9 DEF FiledByOne, Files
<1>13. RefundHeldUntilProcessed'
  <2>1. credited[k] = 0
    BY <1>1 DEF TermsHold
  <2> QED
    BY <1>1, <1>3, <1>5, <1>6, <1>9, <2>1 DEF RefundHeldUntilProcessed, Files
<1> QED
  BY <1>7, <1>8, <1>10, <1>11, <1>12, <1>13

\* A second handler on a request disturbs it.
LEMMA ProcessStep ==
    ASSUME SettlementInv, NEW d \in Desks, NEW k \in Terms,
           NEW decision \in {"PROCESSED", "CANCELLED"}, ProcessTermination(d, k, decision)
    PROVE  SettlementInv'
<1> USE DEF SettlementInv
<1> DEFINE step == IF decision = "PROCESSED" /\ term[k].net > 0 THEN "pay" ELSE "file"
           m == [step |-> step, op |-> decision, task |-> term[k].task,
                 amount |-> term[k].net, term |-> k, missed |-> 0]
<1>1. /\ term[k].status = "PENDING"
      /\ desk[d].step = "idle" /\ desk' = [desk EXCEPT ![d] = m]
      /\ disturbed' = IF Filing(k) THEN disturbed \cup {k} ELSE disturbed
      /\ UNCHANGED <<vars, term, paid, refunds, credited>>
  BY DEF ProcessTermination, Take
<1>2. term[k].task \in Tasks /\ Charged(term[k].task)
  BY <1>1 DEF TermsHold
<1>3. /\ m \in Desk /\ m.step \in {"pay", "file"} /\ m.op = decision /\ m.term = k
      /\ m.task = term[k].task /\ m.amount = term[k].net
      /\ m.step = "pay" <=> decision = "PROCESSED" /\ term[k].net > 0
  <2>1. {"pay", "file"} \subseteq DeskSteps /\ {"PROCESSED", "CANCELLED"} \subseteq Ops
    BY DEF DeskSteps, Ops
  <2> QED
    BY <2>1, SettlementFields DEF Desk
<1> HIDE DEF m
<1>4. /\ desk' \in [Desks -> Desk]
      /\ desk'[d] = m
      /\ \A e \in Desks : e # d => desk'[e] = desk[e]
  BY <1>1, <1>3, DeskSlot
<1>5. PaymentInv' /\ UNCHANGED <<task, tx, req, excused>>
  BY <1>1, PaymentStutters DEF vars
<1>6. disturbed \subseteq disturbed' /\ disturbed' \subseteq Terms
  BY <1>1 DEF SettlementTypeOK
<1>7. SettlementTypeOK'
  BY <1>1, <1>4, <1>5, <1>6 DEF SettlementTypeOK, PaymentInv
<1>8. DesksHold'
  BY <1>1, <1>2, <1>3, <1>4, <1>5 DEF DesksHold, Charged
<1>9. TermsHold' /\ RefundsHold'
  BY <1>1, <1>5 DEF TermsHold, RefundsHold, Charged
<1>10. k \notin disturbed' => \A e \in Desks : ~Files(e, k)
  BY <1>1 DEF Filing
<1>11. FiledByOne'
  BY <1>1, <1>3, <1>4, <1>6, <1>10 DEF FiledByOne, Files
<1>12. RefundHeldUntilProcessed'
  <2>1. k \notin disturbed' => credited[k] = 0
    BY <1>1, <1>6, <1>10 DEF RefundHeldUntilProcessed, Files
  <2>2. m.step = "file" /\ m.op = "PROCESSED" => term[k].net = 0
    BY <1>3, SettlementFields
  <2> QED
    BY <1>1, <1>3, <1>4, <1>6, <1>10, <2>1, <2>2 DEF RefundHeldUntilProcessed, Files
<1> QED
  BY <1>5, <1>7, <1>8, <1>9, <1>11, <1>12

\* The held refund is paid: the only handler of an undisturbed request pays what
\* the request names.
LEMMA PayStep ==
    ASSUME SettlementInv, NEW d \in Desks, PayTermination(d)
    PROVE  SettlementInv'
<1> USE DEF SettlementInv
<1> DEFINE m == [desk[d] EXCEPT !.step = "file"]
           t == desk[d].task
           k == desk[d].term
<1>1. /\ desk[d].step = "pay" /\ desk' = [desk EXCEPT ![d] = m]
      /\ refunds' = [refunds EXCEPT ![t] = @ + desk[d].amount]
      /\ credited' = [credited EXCEPT ![k] = @ + desk[d].amount]
      /\ UNCHANGED <<vars, term, paid, disturbed>>
  BY DEF PayTermination, Refund
<1>2. /\ t \in Tasks /\ Charged(t) /\ k \in Terms
      /\ term[k].status # "NONE" /\ desk[d].op = "PROCESSED"
  BY <1>1 DEF DesksHold
<1>3. /\ m \in Desk /\ m.step = "file" /\ m.task = t /\ m.term = k
      /\ m.op = desk[d].op /\ m.amount = desk[d].amount
  <2>1. "file" \in DeskSteps
    BY DEF DeskSteps
  <2> QED
    BY <2>1, SettlementFields DEF Desk
<1> HIDE DEF m
<1>4. /\ desk' \in [Desks -> Desk]
      /\ desk'[d] = m
      /\ \A e \in Desks : e # d => desk'[e] = desk[e]
  BY <1>1, <1>3, DeskSlot
<1>5. PaymentInv' /\ UNCHANGED <<task, tx, req, excused>>
  BY <1>1, PaymentStutters DEF vars
<1>6. refunds' \in [Tasks -> Nat] /\ \A u \in Tasks : u # t => refunds'[u] = refunds[u]
  BY <1>1, <1>2, SettlementFields DEF SettlementTypeOK
<1>7. /\ credited' \in [Terms -> Nat] /\ credited'[k] = credited[k] + desk[d].amount
      /\ \A j \in Terms : j # k => credited'[j] = credited[j]
  BY <1>1, <1>2, SettlementFields DEF SettlementTypeOK
<1>8. SettlementTypeOK'
  BY <1>1, <1>4, <1>5, <1>6, <1>7 DEF SettlementTypeOK, PaymentInv
<1>9. DesksHold'
  BY <1>1, <1>2, <1>3, <1>4, <1>5 DEF DesksHold, Charged
<1>10. TermsHold' /\ RefundsHold'
  BY <1>1, <1>2, <1>5, <1>6, <1>7 DEF TermsHold, RefundsHold, Charged
<1>11. FiledByOne'
  BY <1>1, <1>3, <1>4 DEF FiledByOne, Files
<1>12. RefundHeldUntilProcessed'
  <2>1. ASSUME NEW j \in Terms \ disturbed, j # k
        PROVE  /\ credited'[j] = credited[j]
               /\ \A e \in Desks : desk'[e].term = j /\ desk'[e].step = "file" /\ desk'[e].op = "PROCESSED"
                     <=> desk[e].term = j /\ desk[e].step = "file" /\ desk[e].op = "PROCESSED"
    BY <1>3, <1>4, <1>7, <2>1
  <2>2. ASSUME k \notin disturbed
        PROVE  credited'[k] = term[k].net
    <3>1. /\ term[k].status = "PENDING" /\ desk[d].amount = term[k].net
          /\ \A e \in Desks : Files(e, k) => e = d
      BY <1>1, <1>2, <2>2 DEF FiledByOne, Files
    <3>2. \A e \in Desks : ~(desk[e].step = "file" /\ desk[e].term = k)
      BY <1>1, <3>1 DEF Files
    <3>3. credited[k] = 0
      BY <1>2, <2>2, <3>1, <3>2 DEF RefundHeldUntilProcessed
    <3> QED
      BY <1>2, <1>7, <3>1, <3>3, SettlementFields
  <2>3. \E e \in Desks : desk'[e].step = "file" /\ desk'[e].term = k /\ desk'[e].op = "PROCESSED"
    BY <1>2, <1>3, <1>4
  <2> QED
    BY <1>1, <2>1, <2>2, <2>3 DEF RefundHeldUntilProcessed
<1> QED
  BY <1>5, <1>8, <1>9, <1>10, <1>11, <1>12

\* The request is filed: nobody else holds it, or it was disturbed.
LEMMA FileStep ==
    ASSUME SettlementInv, NEW d \in Desks, FileTermination(d)
    PROVE  SettlementInv'
<1> USE DEF SettlementInv
<1> DEFINE k == desk[d].term
           row == [term[k] EXCEPT !.status = desk[d].op]
<1>1. /\ desk[d].step = "file" /\ desk' = [desk EXCEPT ![d] = Vacant]
      /\ term' = [term EXCEPT ![k] = row]
      /\ UNCHANGED <<vars, paid, refunds, credited, disturbed>>
  BY DEF FileTermination, Leave
<1>2. /\ k \in Terms /\ term[k].status # "NONE" /\ desk[d].op \in {"PROCESSED", "CANCELLED"}
  BY <1>1 DEF DesksHold
<1>3. /\ row \in TermRow /\ row.status = desk[d].op /\ row.task = term[k].task
      /\ row.net = term[k].net
  <2>1. term[k] \in TermRow
    BY <1>2 DEF SettlementTypeOK
  <2> QED
    BY <1>2, <2>1 DEF TermRow
<1> HIDE DEF row
<1>4. /\ desk' \in [Desks -> Desk]
      /\ desk'[d] = Vacant
      /\ \A e \in Desks : e # d => desk'[e] = desk[e]
  BY <1>1, VacantHolds, DeskSlot
<1>5. /\ term' \in [Terms -> TermRow] /\ term'[k] = row
      /\ \A j \in Terms : j # k => term'[j] = term[j]
  BY <1>1, <1>2, <1>3 DEF SettlementTypeOK
<1>6. PaymentInv' /\ UNCHANGED <<task, tx, req, excused>>
  BY <1>1, PaymentStutters DEF vars
<1>7. SettlementTypeOK'
  BY <1>1, <1>4, <1>5, <1>6 DEF SettlementTypeOK, PaymentInv
<1>8. DesksHold'
  BY <1>1, <1>2, <1>3, <1>4, <1>5, <1>6, VacantHolds DEF DesksHold, Charged
<1>9. TermsHold' /\ RefundsHold'
  BY <1>1, <1>2, <1>3, <1>5, <1>6 DEF TermsHold, RefundsHold, Charged
<1>10. k \notin disturbed => \A e \in Desks : Files(e, k) => e = d
  BY <1>1, <1>2 DEF FiledByOne, Files
<1>11. FiledByOne'
  BY <1>1, <1>4, <1>5, <1>10, VacantHolds DEF FiledByOne, Files
<1>12. RefundHeldUntilProcessed'
  <2>1. ASSUME k \notin disturbed
        PROVE  credited[k] = IF desk[d].op = "PROCESSED" THEN term[k].net ELSE 0
    <3>1. term[k].status = "PENDING" /\ \A e \in Desks : Files(e, k) => e = d
      BY <1>1, <1>2, <2>1 DEF FiledByOne, Files
    <3> QED
      BY <1>1, <1>2, <2>1, <3>1 DEF RefundHeldUntilProcessed, Files
  <2>2. ASSUME k \notin disturbed
        PROVE  \A e \in Desks : ~(desk'[e].step = "file" /\ desk'[e].term = k)
    BY <1>4, <1>10, <2>2, VacantHolds DEF Files
  <2>3. ASSUME NEW j \in Terms \ disturbed, j # k
        PROVE  /\ term'[j] = term[j]
               /\ \A e \in Desks : desk'[e].term = j /\ desk'[e].step = "file" /\ desk'[e].op = "PROCESSED"
                     <=> desk[e].term = j /\ desk[e].step = "file" /\ desk[e].op = "PROCESSED"
    BY <1>1, <1>4, <1>5, <2>3, VacantHolds
  <2> QED
    BY <1>1, <1>3, <1>5, <2>1, <2>2, <2>3 DEF RefundHeldUntilProcessed
<1> QED
  BY <1>6, <1>7, <1>8, <1>9, <1>11, <1>12

\* A handler that dies leaves its request to whoever processes it next, or
\* disturbed.
LEMMA DropStep ==
    ASSUME SettlementInv, NEW d \in Desks, DropDesk(d)
    PROVE  SettlementInv'
<1> USE DEF SettlementInv
<1>1. /\ desk[d].step # "idle" /\ desk' = [desk EXCEPT ![d] = Vacant]
      /\ disturbed' = IF desk[d].step = "file" /\ desk[d].op = "PROCESSED"
                      THEN disturbed \cup {desk[d].term} ELSE disturbed
      /\ UNCHANGED <<vars, term, paid, refunds, credited>>
  BY DEF DropDesk, Leave
<1>2. /\ desk' \in [Desks -> Desk]
      /\ desk'[d] = Vacant
      /\ \A e \in Desks : e # d => desk'[e] = desk[e]
  BY <1>1, VacantHolds, DeskSlot
<1>3. PaymentInv' /\ UNCHANGED <<task, tx, req, excused>>
  BY <1>1, PaymentStutters DEF vars
<1>4. disturbed \subseteq disturbed' /\ disturbed' \subseteq Terms
  BY <1>1 DEF SettlementTypeOK, DesksHold
<1>5. SettlementTypeOK'
  BY <1>1, <1>2, <1>3, <1>4 DEF SettlementTypeOK, PaymentInv
<1>6. DesksHold'
  BY <1>1, <1>2, <1>3, VacantHolds DEF DesksHold, Charged
<1>7. TermsHold' /\ RefundsHold'
  BY <1>1, <1>3 DEF TermsHold, RefundsHold, Charged
<1>8. FiledByOne'
  BY <1>1, <1>2, <1>4, VacantHolds DEF FiledByOne, Files
<1>9. RefundHeldUntilProcessed'
  <2>1. ASSUME NEW j \in Terms \ disturbed'
        PROVE  \A e \in Desks : desk'[e].term = j /\ desk'[e].step = "file" /\ desk'[e].op = "PROCESSED"
                  <=> desk[e].term = j /\ desk[e].step = "file" /\ desk[e].op = "PROCESSED"
    BY <1>1, <1>2, <2>1, VacantHolds
  <2> QED
    BY <1>1, <1>4, <2>1 DEF RefundHeldUntilProcessed
<1> QED
  BY <1>3, <1>5, <1>6, <1>7, <1>8, <1>9

\* A payout that handlers overlook leaves them what they hold otherwise.
LEMMA OverlookedFields ==
    ASSUME SettlementInv, NEW M \in SUBSET Desks, NEW n \in Shares, desk' = Overlooked(M, n)
    PROVE  /\ desk' \in [Desks -> Desk]
           /\ \A d \in Desks :
                 /\ desk'[d].step = desk[d].step /\ desk'[d].op = desk[d].op
                 /\ desk'[d].task = desk[d].task /\ desk'[d].amount = desk[d].amount
                 /\ desk'[d].term = desk[d].term
                 /\ desk'[d].missed = IF d \in M THEN desk[d].missed + n ELSE desk[d].missed
<1>1. n \in Nat
  BY SettlementAssumption
<1> SUFFICES ASSUME NEW d \in Desks
             PROVE  /\ desk'[d] \in Desk
                    /\ desk'[d].step = desk[d].step /\ desk'[d].op = desk[d].op
                    /\ desk'[d].task = desk[d].task /\ desk'[d].amount = desk[d].amount
                    /\ desk'[d].term = desk[d].term
                    /\ desk'[d].missed = IF d \in M THEN desk[d].missed + n ELSE desk[d].missed
  <2> DEFINE f(e) == IF e \in M THEN [desk[e] EXCEPT !.missed = @ + n] ELSE desk[e]
  <2>1. desk' = [e \in Desks |-> f(e)] /\ \A e \in Desks : desk'[e] = f(e)
    BY DEF Overlooked
  <2> HIDE DEF f
  <2> QED
    BY <2>1
<1>2. desk[d] \in Desk /\ desk[d].missed + n \in Nat
  BY <1>1, SettlementFields
<1>3. desk'[d] = IF d \in M THEN [desk[d] EXCEPT !.missed = @ + n] ELSE desk[d]
  BY DEF Overlooked
<1>4. CASE d \in M
  BY <1>2, <1>3, <1>4 DEF Desk
<1>5. CASE d \notin M
  BY <1>2, <1>3, <1>5
<1> QED
  BY <1>4, <1>5

\* A payout changes nothing that the invariant rests on.
LEMMA ContributorPaidStep ==
    ASSUME SettlementInv, NEW t \in Tasks, NEW n \in Shares, ContributorPaid(t, n)
    PROVE  SettlementInv'
<1> USE DEF SettlementInv
<1>1. UNCHANGED <<vars, term, refunds, credited, disturbed>>
  BY DEF ContributorPaid
<1>0. /\ desk' \in [Desks -> Desk]
      /\ \A d \in Desks :
            /\ desk'[d].step = desk[d].step /\ desk'[d].op = desk[d].op
            /\ desk'[d].task = desk[d].task /\ desk'[d].amount = desk[d].amount
            /\ desk'[d].term = desk[d].term
  BY OverlookedFields DEF ContributorPaid, Summing
<1>2. PaymentInv' /\ UNCHANGED <<task, tx, req, excused>>
  BY <1>1, PaymentStutters DEF vars
<1>3. paid' \in [Tasks -> Nat]
  <2>1. paid[t] + n \in Nat
    BY SettlementFields, SettlementAssumption
  <2> QED
    BY <2>1 DEF ContributorPaid, SettlementTypeOK
<1>4. SettlementTypeOK'
  BY <1>0, <1>1, <1>2, <1>3 DEF SettlementTypeOK, PaymentInv
<1>5. DesksHold' /\ TermsHold' /\ RefundsHold'
  BY <1>0, <1>1, <1>2 DEF DesksHold, TermsHold, RefundsHold, Charged
<1>6. FiledByOne' /\ RefundHeldUntilProcessed'
  BY <1>0, <1>1 DEF FiledByOne, Files, RefundHeldUntilProcessed
<1> QED
  BY <1>2, <1>4, <1>5, <1>6

\* While the payment component moves, the settlement's books stand still.
LEMMA PaymentMovesStep ==
    ASSUME SettlementInv, [Next]_vars, UNCHANGED settleVars
    PROVE  SettlementInv'
<1> USE DEF SettlementInv
<1>1. UNCHANGED <<term, paid, refunds, desk, credited, disturbed>>
  BY DEF settleVars
<1>2. PaymentInv'
  BY PaymentStep
<1>3. \A t : Charged(t) => Charged(t)'
  BY ChargedLasts
<1>4. SettlementTypeOK'
  BY <1>1, <1>2 DEF SettlementTypeOK, PaymentInv
<1>5. DesksHold'
  BY <1>1, <1>3 DEF DesksHold
<1>6. TermsHold' /\ RefundsHold'
  BY <1>1, <1>3 DEF TermsHold, RefundsHold
<1>7. FiledByOne' /\ RefundHeldUntilProcessed'
  BY <1>1 DEF FiledByOne, Files, RefundHeldUntilProcessed
<1> QED
  BY <1>2, <1>4, <1>5, <1>6, <1>7

-----------------------------------------------------------------------------
\* Nothing is refunded, promised or in flight at first.
LEMMA SettlementInvInit == SettlementInit => SettlementInv
<1> SUFFICES ASSUME SettlementInit PROVE SettlementInv
  OBVIOUS
<1> USE DEF SettlementInit
<1>1. PaymentInv
  BY PaymentInit
<1>2. [status |-> "NONE", task |-> NoTask, net |-> 0] \in TermRow
  BY DEF TermRow
<1>3. SettlementTypeOK
  BY <1>1, <1>2, VacantHolds DEF SettlementTypeOK, PaymentInv
<1>4. DesksHold /\ TermsHold /\ RefundsHold
  BY VacantHolds DEF DesksHold, TermsHold, RefundsHold, Vacant
<1>5. FiledByOne /\ RefundHeldUntilProcessed
  BY VacantHolds DEF FiledByOne, Files, RefundHeldUntilProcessed
<1> QED
  BY <1>1, <1>3, <1>4, <1>5 DEF SettlementInv

\* One case per action.
LEMMA SettlementStep == SettlementInv /\ [SettlementNext]_allVars => SettlementInv'
<1> SUFFICES ASSUME SettlementInv, [SettlementNext]_allVars
             PROVE  SettlementInv'
  OBVIOUS
<1>1. CASE Next /\ UNCHANGED settleVars
  BY <1>1, PaymentMovesStep
<1>2. CASE UNCHANGED allVars
  BY <1>2, PaymentMovesStep DEF allVars
<1>3. ASSUME NEW d \in Desks, SettlementRequest(d)
      PROVE  SettlementInv'
  BY <1>3, RequestStep, ProcessStep DEF SettlementRequest
<1>4. ASSUME NEW d \in Desks, SettlementHandler(d)
      PROVE  SettlementInv'
  BY <1>4, ListStep, SumStep, CreditStep, CloseStep, HoldStep, PayStep, FileStep DEF SettlementHandler
<1>5. ASSUME NEW d \in Desks, DropDesk(d)
      PROVE  SettlementInv'
  BY <1>5, DropStep
<1>6. ASSUME NEW t \in Tasks, NEW n \in Shares, ContributorPaid(t, n)
      PROVE  SettlementInv'
  BY <1>6, ContributorPaidStep
<1> QED
  BY <1>1, <1>2, <1>3, <1>4, <1>5, <1>6 DEF SettlementNext, Settle

\* The invariant of the settlement: every handler in flight and every request works
\* for a charged campaign, and an undisturbed request is in one pair of hands.
THEOREM SettlementInvariant == SettlementSpec => []SettlementInv
<1>1. SettlementInit => SettlementInv
  BY SettlementInvInit
<1>2. SettlementInv /\ [SettlementNext]_allVars => SettlementInv'
  BY SettlementStep
<1> QED
  BY <1>1, <1>2, PTL DEF SettlementSpec

\* Every row, request and handler in flight has the shape the code gives it: in
\* particular no statement writes a status the schema does not name.
THEOREM SettlementTypes == SettlementSpec => []SettlementTypeOK
<1>1. SettlementInv => SettlementTypeOK
  BY DEF SettlementInv
<1> QED
  BY <1>1, SettlementInvariant, PTL

\* No wallet is credited with the refund of a campaign, and no request promises
\* one, unless a charge for the campaign succeeded at Paystack.
THEOREM RefundsCharged == SettlementSpec => []RefundsWereCharged
<1>1. SettlementInv => RefundsWereCharged
  <2> SUFFICES ASSUME SettlementInv, NEW t \in Tasks,
                      refunds[t] > 0 \/ \E k \in Terms : term[k].task = t
               PROVE  Charged(t)
    BY DEF RefundsWereCharged
  <2>1. CASE refunds[t] > 0
    BY <2>1 DEF SettlementInv, RefundsHold
  <2>2. CASE \E k \in Terms : term[k].task = t
    BY <2>2, PaymentAssumption DEF SettlementInv, TermsHold
  <2> QED
    BY <2>1, <2>2
<1> QED
  BY <1>1, SettlementInvariant, PTL

\* The held refund of a terminated campaign is paid exactly once, when its request
\* is processed with PROCESSED and no second administrator or crash interferes.
THEOREM RefundPaidOnce == SettlementSpec => []RefundHeldUntilProcessed
<1>1. SettlementInv => RefundHeldUntilProcessed
  BY DEF SettlementInv
<1> QED
  BY <1>1, SettlementInvariant, PTL
-----------------------------------------------------------------------------
(* What a step changes                                                      *)

\* A step of the payment component reprices one campaign at most.
LEMMA OneRepriced ==
    ASSUME PaymentInv, [Next]_vars
    PROVE  \/ \A t \in Tasks : task'[t].total = task[t].total
           \/ \E t \in Tasks : \A u \in Tasks \ {t} : task'[u].total = task[u].total
<1>1. task \in [Tasks -> TaskRow]
  BY DEF PaymentInv, TypeOK
<1>2. ASSUME NEW t \in Tasks, NEW m \in TaskRow, task' = [task EXCEPT ![t] = m]
      PROVE  \A u \in Tasks \ {t} : task'[u].total = task[u].total
  BY <1>1, <1>2
<1>3. CASE \E q \in Slots : Rewrite(q)
  <2> PICK q \in Slots : Rewrite(q)
    BY <1>3
  <2>1. req[q].task \in Tasks
    BY DEF PaymentInv, RequestsHold, RequestHolds, Rewrite
  <2> QED
    BY <1>1, <2>1 DEF Rewrite
<1>4. ASSUME NEW q \in Slots, Creator(q) \/ Handler(q) \/ Abandon(q), ~Rewrite(q)
      PROVE  \A t \in Tasks : task'[t].total = task[t].total
  <2>1. CASE Creator(q) \/ Abandon(q)
    BY <2>1 DEF Creator, Abandon, InitiatePayment, VerifyPayment, VerifyOverwritten,
       PublishTask, UpdateTask
  <2>2. CASE InitializeAtPaystack(q) \/ PaystackAnswers(q) \/ FindTask(q)
    BY <2>2 DEF InitializeAtPaystack, PaystackAnswers, FindTask
  <2>3. CASE StoreReference(q)
    BY <1>1, <2>3 DEF StoreReference, TaskRow
  <2>4. CASE MarkPaid(q)
    BY <1>1, <2>4 DEF MarkPaid, TaskRow
  <2>5. CASE MarkFailed(q) \/ Activate(q)
    BY <1>1, <2>5 DEF MarkFailed, Activate, TaskRow
  <2> QED
    BY <1>4, <2>1, <2>2, <2>3, <2>4, <2>5 DEF Handler
<1>5. CASE Paystack
  BY <1>1, <1>5 DEF Paystack, PayCheckout, DeclineCheckout, WebhookFailed, WebhookSuccess, TaskRow
<1>6. CASE UNCHANGED vars
  BY <1>6 DEF vars
<1> QED
  BY <1>3, <1>4, <1>5, <1>6 DEF Next

\* A fee takes nothing away but from the refund.
LEMMA NetIsPart ==
    ASSUME NEW g \in Nat
    PROVE  NetRefund(g) \in 0 .. g
<1>1. FeePct \in 0 .. 100
  BY SettlementAssumption
<1>2. \A f \in 0 .. 100 : g * (100 - f) \in 0 .. 100 * g
  <2> SUFFICES ASSUME NEW f \in 0 .. 100 PROVE g * (100 - f) \in 0 .. 100 * g
    OBVIOUS
  <2>1. /\ g * (100 - f) = 100 * g - g * f
        /\ g * f \in Nat /\ g * (100 - f) \in Nat
    OBVIOUS
  <2> QED
    BY <2>1
<1>3. \A x \in 0 .. 100 * g : (x + 50) \div 100 \in 0 .. g
  OBVIOUS
<1> QED
  BY <1>1, <1>2, <1>3 DEF NetRefund

\* The history records what MoneyNext names.
Recorded == strained' = strained \cup {t \in Tasks : Strains(t)}

\* What was settled stays settled.
LEMMA SettledLasts ==
    ASSUME SettlementInv, NEW t \in Tasks, WasSettled(t),
           \A u \in Tasks : refunds[u] # 0 => refunds'[u] # 0,
           \A k \in Terms : term[k].status # "NONE" => term'[k].task = term[k].task
    PROVE  WasSettled(t)'
<1>1. ASSUME NEW k \in Terms, term[k].task = t
      PROVE  term[k].status # "NONE"
  BY <1>1, PaymentAssumption DEF SettlementInv, TermsHold
<1> QED
  BY <1>1 DEF WasSettled

-----------------------------------------------------------------------------
(* The books, seen from the handlers                                        *)

\* No amount moves: nothing is strained and the books stand.
LEMMA NothingStrained ==
    ASSUME SettlementInv, Recorded, \A t \in Tasks : task'[t].total = task[t].total,
           UNCHANGED <<term, paid, refunds>>
    PROVE  strained' = strained
<1>1. ASSUME NEW t \in Tasks, NEW k \in Terms, term[k].status = "NONE"
      PROVE  term'[k].task # t
  BY <1>1, PaymentAssumption DEF SettlementInv, TermsHold
<1> QED
  BY <1>1 DEF Recorded, Strains, Repriced, PaidLate, SettledAgain

LEMMA BooksStand ==
    ASSUME \A t \in Tasks : task'[t].total = task[t].total,
           UNCHANGED <<term, paid, refunds, credited, disturbed, strained>>
    PROVE  UNCHANGED Books!escrowVars
  BY DEF Books!escrowVars, AsTicket

\* The books have their types.
LEMMA BooksTyped ==
    ASSUME SettlementInv'
    PROVE  Books!EscrowTypeOK'
<1>1. [t \in Tasks |-> task'[t].total] \in [Tasks -> Nat]
  BY PaymentAssumption DEF SettlementInv, PaymentInv, TypeOK, TaskRow
<1>2. paid' \in [Tasks -> Nat] /\ refunds' \in [Tasks -> Nat]
  BY DEF SettlementInv, SettlementTypeOK
<1>3. ASSUME NEW k \in Terms
      PROVE  AsTicket(k)' \in Books!Ticket
  <2>1. term'[k].net \in Nat /\ AsTicket(k)'.state \in {"open", "closed"}
    BY DEF SettlementInv, SettlementTypeOK, TermRow, AsTicket
  <2>2. CASE term'[k].status = "NONE"
    BY <2>2 DEF SettlementInv, TermsHold, AsTicket, Books!Ticket, Books!Unwritten
  <2>3. CASE term'[k].status # "NONE"
    BY <2>1, <2>3 DEF SettlementInv, TermsHold, AsTicket, Books!Ticket
  <2> QED
    BY <2>2, <2>3
<1> QED
  BY <1>1, <1>2, <1>3 DEF Books!EscrowTypeOK

\* Only the books of a campaign that is, or goes, astray change.
LEMMA StrayBooks ==
    ASSUME SettlementInv', NEW t \in Tasks,
           t \in strained' \cup {term'[k].task : k \in disturbed'},
           \A u \in Tasks \ {t} :
              /\ task'[u].total = task[u].total /\ paid'[u] = paid[u] /\ refunds'[u] = refunds[u]
              /\ u \in strained <=> u \in strained'
              /\ u \in {term[k].task : k \in disturbed} <=> u \in {term'[k].task : k \in disturbed'},
           \A k \in Terms :
              \/ AsTicket(k)' = AsTicket(k)
              \/ term[k].task \in {t, NoTask} /\ term'[k].task = t
    PROVE  Books!EscrowNext
<1>1. Books!Stray(t)
  BY BooksTyped DEF Books!Stray, AsTicket
<1> QED
  BY <1>1 DEF Books!EscrowNext

-----------------------------------------------------------------------------
(* The handlers' steps                                                      *)

\* A handler that a step leaves alone still holds what it has to return, or the
\* step is recorded.
LEMMA HandKeptOrMissed ==
    ASSUME MoneyInv, Recorded, NEW e \in Desks,
           desk'[e].step = desk[e].step, desk'[e].task = desk[e].task,
           desk'[e].amount = desk[e].amount, desk'[e].term = desk[e].term,
           desk'[e].missed # desk[e].missed =>
              /\ desk'[e].missed > desk[e].missed
              /\ paid'[desk[e].task] # paid[desk[e].task],
           \A u \in Tasks : refunds[u] # 0 => refunds'[u] # 0,
           \A k \in Terms : term[k].status # "NONE" => term'[k].task = term[k].task
    PROVE  HandHolds(e)'
<1> DEFINE t == desk[e].task
<1>1. HandHolds(e) /\ SettlementInv
  BY DEF MoneyInv
<1>2. ASSUME desk[e].step \in {"pay", "file"}
      PROVE  t = term'[desk[e].term].task
  BY <1>1, <1>2 DEF HandHolds, SettlementInv, DesksHold
<1>3. ASSUME t \in Tasks \ strained', ~WasSettled(t)'
      PROVE  HoldsRest(e)'
  <2>1. t \notin strained /\ ~Strains(t)
    BY <1>3 DEF Recorded
  <2>2. ~WasSettled(t)
    BY <1>1, <1>3, SettledLasts
  <2>3. HoldsRest(e)
    BY <1>1, <1>3, <2>1, <2>2 DEF HandHolds
  <2>4. desk[e].step \in {"list", "sum", "credit", "hold"} => task'[t].total = task[t].total
    BY <2>1 DEF Strains, Repriced, Settling
  <2>5. desk[e].step \in {"credit", "hold"} => paid'[t] = paid[t]
    BY <2>1 DEF Strains, PaidLate, Settling
  <2>6. desk'[e].missed = desk[e].missed
    BY <2>1 DEF Strains, PaidLate, Overlooks
  <2> QED
    BY <2>3, <2>4, <2>5, <2>6 DEF HoldsRest
<1> QED
  BY <1>1, <1>2, <1>3 DEF HandHolds

\* The same, of a handler that a step does not touch at all.
LEMMA HandKept ==
    ASSUME MoneyInv, Recorded, NEW e \in Desks, desk'[e] = desk[e],
           \A u \in Tasks : refunds[u] # 0 => refunds'[u] # 0,
           \A k \in Terms : term[k].status # "NONE" => term'[k].task = term[k].task
    PROVE  HandHolds(e)'
  BY HandKeptOrMissed

\* A desk that is empty holds nothing.
LEMMA EmptyHand ==
    ASSUME NEW d \in Desks, desk'[d] = Vacant
    PROVE  HandHolds(d)'
  BY PaymentAssumption DEF HandHolds, Vacant

\* pauseTask, endTask and terminateTask read the budget.
LEMMA ReadBudget ==
    ASSUME MoneyInv, SettlementInv', Recorded, NEW d \in Desks, NEW t \in Tasks,
           PauseTask(d, t) \/ EndTask(d, t) \/ TerminateTask(d, t)
    PROVE  /\ \A e \in Desks : HandHolds(e)'
           /\ UNCHANGED Books!escrowVars
<1>1. UNCHANGED <<vars, term, paid, refunds, credited, disturbed>>
  BY DEF PauseTask, EndTask, TerminateTask
<1>2. PICK op \in Ops : Take(d, op, "list", t, task[t].total, NoTerm)
  BY DEF PauseTask, EndTask, TerminateTask, Ops
<1>3. SettlementInv /\ strained' = strained /\ UNCHANGED task
  BY <1>1, NothingStrained DEF MoneyInv, vars
<1>4. HandHolds(d)'
  BY <1>2, <1>3 DEF Take, HandHolds, HoldsRest, SettlementInv, SettlementTypeOK
<1>5. ASSUME NEW e \in Desks, e # d PROVE HandHolds(e)'
  <2>1. desk'[e] = desk[e]
    BY <1>2, <1>3, <1>5 DEF Take, SettlementInv, SettlementTypeOK
  <2> QED
    BY <1>1, <2>1, HandKept
<1> QED
  BY <1>1, <1>3, <1>4, <1>5, BooksStand

\* The submissions are listed: nothing was paid for another one yet.
LEMMA ListBooks ==
    ASSUME MoneyInv, SettlementInv', Recorded, NEW d \in Desks, ListSubmissions(d)
    PROVE  /\ \A e \in Desks : HandHolds(e)'
           /\ UNCHANGED Books!escrowVars
<1> DEFINE m == [desk[d] EXCEPT !.step = "sum"]
<1>1. /\ UNCHANGED <<vars, term, paid, refunds, credited, disturbed>>
      /\ desk[d].step = "list" /\ desk' = [desk EXCEPT ![d] = m]
  BY DEF ListSubmissions, MoneyInv, SettlementInv, SettlementTypeOK
<1>2. SettlementInv /\ strained' = strained /\ UNCHANGED task /\ HandHolds(d)
  BY <1>1, NothingStrained DEF MoneyInv, vars
<1>3. /\ m.amount = desk[d].amount /\ m.missed = desk[d].missed /\ m.task = desk[d].task
      /\ m.step = "sum" /\ desk'[d] = m
  BY <1>1, <1>2, SettlementFields DEF Desk, SettlementInv, SettlementTypeOK
<1>4. HandHolds(d)'
  <2>1. WasSettled(desk[d].task)' <=> WasSettled(desk[d].task)
    BY <1>1 DEF WasSettled
  <2> HIDE DEF m
  <2> QED
    BY <1>1, <1>2, <1>3, <2>1 DEF HandHolds, HoldsRest
<1>5. ASSUME NEW e \in Desks, e # d PROVE HandHolds(e)'
  <2>1. desk'[e] = desk[e]
    BY <1>1, <1>5, <1>2 DEF SettlementInv, SettlementTypeOK
  <2> QED
    BY <1>1, <2>1, HandKept
<1> QED
  BY <1>1, <1>2, <1>4, <1>5, BooksStand

\* What is left is computed from the budget that was read, and from the payouts.
LEMMA SumBooks ==
    ASSUME MoneyInv, SettlementInv', Recorded, NEW d \in Desks, SumPayouts(d)
    PROVE  /\ \A e \in Desks : HandHolds(e)'
           /\ UNCHANGED Books!escrowVars
<1> DEFINE t == desk[d].task
           rest == Remaining(desk[d].amount, paid[t] - desk[d].missed)
           step == IF desk[d].op = "terminate" THEN "hold"
                   ELSE IF rest > 0 THEN "credit" ELSE "close"
           m == [desk[d] EXCEPT !.amount = rest, !.missed = 0, !.step = step]
<1>1. /\ UNCHANGED <<vars, term, paid, refunds, credited, disturbed>>
      /\ desk[d].step = "sum" /\ desk' = [desk EXCEPT ![d] = m]
  BY DEF SumPayouts
<1>2. SettlementInv /\ strained' = strained /\ UNCHANGED task /\ HandHolds(d)
  BY <1>1, NothingStrained DEF MoneyInv, vars
<1>3. m.amount = rest /\ m.step = step /\ m.task = t /\ desk'[d] = m
  BY <1>1, <1>2, SettlementFields DEF Desk, SettlementInv, SettlementTypeOK
<1>4. HandHolds(d)'
  <2>1. ASSUME t \in Tasks \ strained, ~WasSettled(t)
        PROVE  rest = Remaining(task[t].total, paid[t])
    <3>1. desk[d].amount = task[t].total /\ desk[d].missed = 0
      BY <1>1, <1>2, <2>1 DEF HandHolds, HoldsRest
    <3>2. paid[t] - desk[d].missed = paid[t]
      BY <1>2, <2>1, <3>1, SettlementFields
    <3> QED
      BY <3>1, <3>2
  <2>2. WasSettled(t)' <=> WasSettled(t)
    BY <1>1 DEF WasSettled
  <2> HIDE DEF rest, m
  <2> QED
    BY <1>1, <1>2, <1>3, <2>1, <2>2 DEF HandHolds, HoldsRest
<1>5. ASSUME NEW e \in Desks, e # d PROVE HandHolds(e)'
  <2>1. desk'[e] = desk[e]
    BY <1>1, <1>5, <1>2 DEF SettlementInv, SettlementTypeOK
  <2> QED
    BY <1>1, <2>1, HandKept
<1> QED
  BY <1>1, <1>2, <1>4, <1>5, BooksStand

\* Closing a campaign moves no money.
LEMMA CloseBooks ==
    ASSUME MoneyInv, SettlementInv', Recorded, NEW d \in Desks, CloseCampaign(d) \/ MarkTerminated(d)
    PROVE  /\ \A e \in Desks : HandHolds(e)'
           /\ UNCHANGED Books!escrowVars
<1>1. /\ UNCHANGED <<term, paid, refunds, credited, disturbed>>
      /\ desk' = [desk EXCEPT ![d] = Vacant]
  BY DEF CloseCampaign, MarkTerminated, Leave
<1>2. SettlementInv
  BY DEF MoneyInv
<1>3. \A t \in Tasks : task'[t].total = task[t].total
  <2>1. task \in [Tasks -> TaskRow]
    BY <1>2 DEF SettlementInv, PaymentInv, TypeOK
  <2>2. CASE CloseCampaign(d)
    BY <2>1, <2>2 DEF CloseCampaign, TaskRow
  <2>3. CASE MarkTerminated(d)
    BY <2>1, <2>3 DEF MarkTerminated, TaskRow
  <2> QED
    BY <2>2, <2>3
<1>4. strained' = strained
  BY <1>1, <1>2, <1>3, NothingStrained
<1>5. \A e \in Desks : desk'[e] = IF e = d THEN Vacant ELSE desk[e]
  BY <1>1, <1>2 DEF SettlementInv, SettlementTypeOK
<1>6. \A e \in Desks : HandHolds(e)'
  BY <1>1, <1>5, EmptyHand, HandKept
<1> QED
  BY <1>1, <1>3, <1>4, <1>6, BooksStand

\* The refund of a campaign that is not strained is what is left, and the first.
LEMMA CreditBooks ==
    ASSUME MoneyInv, SettlementInv', Recorded, NEW d \in Desks, CreditRefund(d)
    PROVE  /\ \A e \in Desks : HandHolds(e)'
           /\ Books!EscrowNext
<1> DEFINE t == desk[d].task
           a == desk[d].amount
           m == [desk[d] EXCEPT !.step = "close"]
<1>1. /\ desk[d].step = "credit" /\ desk' = [desk EXCEPT ![d] = m]
      /\ refunds' = [refunds EXCEPT ![t] = @ + a]
      /\ UNCHANGED <<vars, term, paid, credited, disturbed>>
  BY DEF CreditRefund, Refund
<1>2. SettlementInv /\ HandHolds(d) /\ UNCHANGED task
  BY <1>1 DEF MoneyInv, vars
<1>3. t \in Tasks /\ a \in Nat /\ a > 0
  BY <1>1, <1>2, SettlementFields DEF SettlementInv, DesksHold, HandHolds
<1>4. /\ refunds'[t] = refunds[t] + a /\ refunds[t] \in Nat
      /\ \A u \in Tasks \ {t} : refunds'[u] = refunds[u]
  BY <1>1, <1>2, <1>3, SettlementFields DEF SettlementInv, SettlementTypeOK
<1>5. \A u \in Tasks : refunds[u] # 0 => refunds'[u] # 0
  BY <1>3, <1>4
<1>6. \A e \in Desks : desk'[e] = IF e = d THEN m ELSE desk[e]
  BY <1>1, <1>2 DEF SettlementInv, SettlementTypeOK
<1>7. m.step = "close"
  BY <1>2, SettlementFields DEF Desk
<1>8. HandHolds(d)'
  BY <1>6, <1>7 DEF HandHolds, HoldsRest
<1>9. \A e \in Desks : HandHolds(e)'
  BY <1>1, <1>5, <1>6, <1>8, HandKept
<1>10. \A u \in Tasks \ {t} : ~Strains(u)
  <2>1. ASSUME NEW u \in Tasks, NEW k \in Terms, term[k].status = "NONE"
        PROVE  term'[k].task # u
    BY <1>1, <1>2, <2>1, PaymentAssumption DEF SettlementInv, TermsHold
  <2> QED
    BY <1>1, <1>2, <1>4, <2>1 DEF Strains, Repriced, PaidLate, SettledAgain
<1>11. CASE t \in strained'
  <2> HIDE DEF t, m
  <2>1. \A u \in Tasks \ {t} : u \in strained <=> u \in strained'
    BY <1>10 DEF Recorded
  <2>2. \A k \in Terms : AsTicket(k)' = AsTicket(k)
    BY <1>1 DEF AsTicket
  <2> QED
    BY <1>1, <1>2, <1>3, <1>4, <1>9, <1>11, <2>1, <2>2, StrayBooks
<1>12. CASE t \notin strained'
  <2>1. t \notin strained /\ ~WasSettled(t) /\ strained' = strained
    BY <1>1, <1>3, <1>4, <1>10, <1>12 DEF Recorded, Strains, SettledAgain
  <2>2. refunds[t] = 0 /\ a = Remaining(task[t].total, paid[t]) /\ \A k \in Terms : term[k].task # t
    BY <1>1, <1>2, <1>3, <2>1 DEF HandHolds, HoldsRest, WasSettled
  <2>3. refunds' = [refunds EXCEPT ![t] = Remaining(task[t].total, paid[t])]
    <3>1. refunds[t] + a = Remaining(task[t].total, paid[t])
      BY <1>3, <2>2
    <3> QED
      BY <1>1, <3>1
  <2>4. ~Books!Settled(t) /\ Books!Rest(t) = Remaining(task[t].total, paid[t])
    BY <1>3, <2>2 DEF Books!Settled, Books!Rest, Remaining, AsTicket
  <2>5. UNCHANGED <<[u \in Tasks |-> task[u].total], paid, [k \in Terms |-> AsTicket(k)],
                    strained \cup {term[k].task : k \in disturbed}>>
    BY <1>1, <1>2, <2>1 DEF AsTicket
  <2> HIDE DEF t
  <2>6. Books!GiveBack(t)
    BY <2>3, <2>4, <2>5 DEF Books!GiveBack
  <2> QED
    BY <1>3, <1>9, <2>6 DEF Books!EscrowNext
<1> QED
  BY <1>11, <1>12

\* A campaign that is not strained gets one ticket, for no more than what is left.
LEMMA HoldBooks ==
    ASSUME MoneyInv, SettlementInv', Recorded, NEW d \in Desks, NEW k \in Terms, HoldRefund(d, k)
    PROVE  /\ \A e \in Desks : HandHolds(e)'
           /\ Books!EscrowNext
<1> DEFINE t == desk[d].task
           net == NetRefund(desk[d].amount)
           m == [desk[d] EXCEPT !.step = "terminate"]
           ticket == [status |-> "PENDING", task |-> t, net |-> net]
<1>1. /\ desk[d].step = "hold" /\ desk' = [desk EXCEPT ![d] = m]
      /\ term[k].status = "NONE" /\ term' = [term EXCEPT ![k] = ticket]
      /\ UNCHANGED <<vars, paid, refunds, credited, disturbed>>
  BY DEF HoldRefund
<1>2. SettlementInv /\ HandHolds(d) /\ UNCHANGED task
  BY <1>1 DEF MoneyInv, vars
<1>3. /\ t \in Tasks /\ t # NoTask /\ desk[d].amount \in Nat
      /\ term[k].task = NoTask /\ term[k].net = 0 /\ credited[k] = 0
  BY <1>1, <1>2, SettlementFields, PaymentAssumption DEF SettlementInv, DesksHold, TermsHold
<1>4. /\ term'[k] = ticket
      /\ \A j \in Terms \ {k} : term'[j] = term[j]
  BY <1>1, <1>2 DEF SettlementInv, SettlementTypeOK
<1>5. \A j \in Terms : term[j].status # "NONE" => term'[j].task = term[j].task
  BY <1>1, <1>4
<1>6. \A e \in Desks : desk'[e] = IF e = d THEN m ELSE desk[e]
  BY <1>1, <1>2 DEF SettlementInv, SettlementTypeOK
<1>7. m.step = "terminate"
  BY <1>2, SettlementFields DEF Desk
<1>8. HandHolds(d)'
  BY <1>6, <1>7 DEF HandHolds, HoldsRest
<1>9. \A e \in Desks : HandHolds(e)'
  BY <1>1, <1>5, <1>6, <1>8, HandKept
<1>10. \A u \in Tasks \ {t} : ~Strains(u)
  <2>1. ASSUME NEW u \in Tasks \ {t}, NEW j \in Terms, term[j].status = "NONE"
        PROVE  term'[j].task # u
    BY <1>2, <1>4, <2>1, PaymentAssumption DEF SettlementInv, TermsHold
  <2> QED
    BY <1>1, <1>2, <2>1 DEF Strains, Repriced, PaidLate, SettledAgain
<1>11. \A j \in Terms \ {k} : AsTicket(j)' = AsTicket(j)
  BY <1>1, <1>4 DEF AsTicket
<1>12. term'[k].task = t
  BY <1>4
<1>13. k \in disturbed => t \in {term'[j].task : j \in disturbed'}
  BY <1>1, <1>12
<1>14. disturbed \subseteq Terms
  BY <1>2 DEF SettlementInv, SettlementTypeOK
<1>15. \A u \in Tasks \ {t} :
          u \in {term[j].task : j \in disturbed} <=> u \in {term'[j].task : j \in disturbed'}
  <2> HIDE DEF t, m, ticket
  <2> QED
    BY <1>1, <1>3, <1>4, <1>12, <1>14, PaymentAssumption
<1>16. CASE t \in strained' \/ k \in disturbed
  <2> HIDE DEF t, m, ticket
  <2>1. \A u \in Tasks \ {t} : u \in strained <=> u \in strained'
    BY <1>10 DEF Recorded
  <2> QED
    BY <1>1, <1>2, <1>3, <1>9, <1>11, <1>12, <1>13, <1>15, <1>16, <2>1, StrayBooks
<1>17. CASE t \notin strained' /\ k \notin disturbed
  <2>1. t \notin strained /\ ~WasSettled(t) /\ strained' = strained
    BY <1>1, <1>3, <1>10, <1>12, <1>17 DEF Recorded, Strains, SettledAgain
  <2>2. desk[d].amount = Remaining(task[t].total, paid[t])
    BY <1>1, <1>2, <1>3, <2>1 DEF HandHolds, HoldsRest
  <2>3. net \in 0 .. Remaining(task[t].total, paid[t])
    BY <1>3, <2>2, NetIsPart
  <2>4. ~Books!Settled(t) /\ Books!Rest(t) = Remaining(task[t].total, paid[t])
    BY <1>3, <2>1 DEF Books!Settled, Books!Rest, Remaining, AsTicket, WasSettled
  <2>5. UNCHANGED <<[u \in Tasks |-> task[u].total], paid, refunds>>
    BY <1>1, <1>2
  <2>6. {term'[j].task : j \in disturbed'} = {term[j].task : j \in disturbed}
    BY <1>1, <1>4, <1>14, <1>17
  <2>7. AsTicket(k) = Books!Unwritten
    BY <1>1, <1>3 DEF AsTicket, Books!Unwritten
  <2>8. AsTicket(k)' = [of |-> t, net |-> net, state |-> "open"]
    BY <1>1, <1>3, <1>4 DEF AsTicket
  <2>9. AsTicket(k)' \in [of : {t}, net : 0 .. Books!Rest(t), state : {"open"}]
    BY <2>3, <2>4, <2>8
  <2>10. [j \in Terms |-> AsTicket(j)]' = [[j \in Terms |-> AsTicket(j)] EXCEPT ![k] = AsTicket(k)']
    <3> DEFINE F == [j \in Terms |-> AsTicket(j)]
    <3> HIDE DEF t, m, ticket, net
    <3>1. F' = [j \in Terms |-> AsTicket(j)']
      OBVIOUS
    <3> QED
      BY <1>11, <3>1
  <2> HIDE DEF t, m, ticket, net
  <2>11. Books!Hold(t, k)
    BY <2>1, <2>4, <2>5, <2>6, <2>7, <2>9, <2>10 DEF Books!Hold
  <2> QED
    BY <1>3, <1>9, <2>11 DEF Books!EscrowNext
<1> QED
  BY <1>16, <1>17

\* A request that is disturbed takes its campaign astray.
LEMMA DisturbBooks ==
    ASSUME MoneyInv, SettlementInv', Recorded, NEW k \in Terms, term[k].status # "NONE",
           UNCHANGED <<vars, term, paid, refunds, credited>>,
           disturbed' \in {disturbed, disturbed \cup {k}}
    PROVE  Books!EscrowNext \/ UNCHANGED Books!escrowVars
<1> DEFINE t == term[k].task
<1>1. SettlementInv /\ UNCHANGED task
  BY DEF MoneyInv, vars
<1>2. strained' = strained
  BY <1>1, NothingStrained
<1>3. CASE disturbed' = disturbed
  BY <1>1, <1>2, <1>3, BooksStand
<1>4. CASE disturbed' = disturbed \cup {k}
  <2>1. t \in Tasks
    BY <1>1 DEF SettlementInv, TermsHold
  <2>2. t \in {term'[j].task : j \in disturbed'}
    BY <1>4
  <2>3. \A u \in Tasks \ {t} :
           u \in {term[j].task : j \in disturbed} <=> u \in {term'[j].task : j \in disturbed'}
    BY <1>4
  <2>4. \A j \in Terms : AsTicket(j)' = AsTicket(j)
    BY DEF AsTicket
  <2> HIDE DEF t
  <2> QED
    BY <1>1, <1>2, <2>1, <2>2, <2>3, <2>4, StrayBooks
<1> QED
  BY <1>3, <1>4

\* An administrator takes a request, alone or not.
LEMMA ProcessBooks ==
    ASSUME MoneyInv, SettlementInv', Recorded, NEW d \in Desks, NEW k \in Terms,
           NEW decision \in {"PROCESSED", "CANCELLED"}, ProcessTermination(d, k, decision)
    PROVE  /\ \A e \in Desks : HandHolds(e)'
           /\ Books!EscrowNext \/ UNCHANGED Books!escrowVars
<1> DEFINE step == IF decision = "PROCESSED" /\ term[k].net > 0 THEN "pay" ELSE "file"
           m == [step |-> step, op |-> decision, task |-> term[k].task,
                 amount |-> term[k].net, term |-> k, missed |-> 0]
<1>1. /\ term[k].status = "PENDING" /\ desk' = [desk EXCEPT ![d] = m]
      /\ disturbed' = IF Filing(k) THEN disturbed \cup {k} ELSE disturbed
      /\ UNCHANGED <<vars, term, paid, refunds, credited>>
  BY DEF ProcessTermination, Take
<1>2. SettlementInv
  BY DEF MoneyInv
<1>3. \A e \in Desks : desk'[e] = IF e = d THEN m ELSE desk[e]
  BY <1>1, <1>2 DEF SettlementInv, SettlementTypeOK
<1>4. HandHolds(d)'
  BY <1>1, <1>3 DEF HandHolds, HoldsRest
<1>5. \A e \in Desks : HandHolds(e)'
  BY <1>1, <1>3, <1>4, HandKept
<1> QED
  BY <1>1, <1>5, DisturbBooks

\* A handler dies.
LEMMA DropBooks ==
    ASSUME MoneyInv, SettlementInv', Recorded, NEW d \in Desks, DropDesk(d)
    PROVE  /\ \A e \in Desks : HandHolds(e)'
           /\ Books!EscrowNext \/ UNCHANGED Books!escrowVars
<1>1. /\ desk' = [desk EXCEPT ![d] = Vacant]
      /\ disturbed' = IF desk[d].step = "file" /\ desk[d].op = "PROCESSED"
                      THEN disturbed \cup {desk[d].term} ELSE disturbed
      /\ UNCHANGED <<vars, term, paid, refunds, credited>>
  BY DEF DropDesk, Leave
<1>2. SettlementInv /\ UNCHANGED task
  BY <1>1 DEF MoneyInv, vars
<1>3. \A e \in Desks : desk'[e] = IF e = d THEN Vacant ELSE desk[e]
  BY <1>1, <1>2 DEF SettlementInv, SettlementTypeOK
<1>4. \A e \in Desks : HandHolds(e)'
  BY <1>1, <1>3, EmptyHand, HandKept
<1>5. CASE desk[d].step = "file"
  <2>1. desk[d].term \in Terms /\ term[desk[d].term].status # "NONE"
    BY <1>2, <1>5 DEF SettlementInv, DesksHold
  <2> QED
    BY <1>1, <1>4, <2>1, DisturbBooks
<1>6. CASE desk[d].step # "file"
  BY <1>1, <1>2, <1>4, <1>6, NothingStrained, BooksStand
<1> QED
  BY <1>5, <1>6

\* The refund that was held is released: its ticket is open, and closes.
LEMMA PayBooks ==
    ASSUME MoneyInv, SettlementInv', Recorded, NEW d \in Desks, PayTermination(d)
    PROVE  /\ \A e \in Desks : HandHolds(e)'
           /\ Books!EscrowNext
<1> PICK k \in Terms : k = desk[d].term
  BY DEF PayTermination, MoneyInv, SettlementInv, DesksHold
<1> DEFINE t == desk[d].task
           a == desk[d].amount
           m == [desk[d] EXCEPT !.step = "file"]
<1>1. /\ desk[d].step = "pay" /\ desk' = [desk EXCEPT ![d] = m]
      /\ refunds' = [refunds EXCEPT ![t] = @ + a]
      /\ credited' = [credited EXCEPT ![k] = @ + a]
      /\ UNCHANGED <<vars, term, paid, disturbed>>
  BY DEF PayTermination, Refund
<1>2. SettlementInv /\ HandHolds(d) /\ UNCHANGED task
  BY <1>1 DEF MoneyInv, vars
<1>3. /\ k \in Terms /\ t \in Tasks /\ t = term[k].task
      /\ a \in Nat /\ a > 0 /\ term[k].status # "NONE"
  BY <1>1, <1>2, SettlementFields DEF SettlementInv, DesksHold, HandHolds
<1>4. /\ refunds'[t] = refunds[t] + a /\ refunds[t] \in Nat
      /\ \A u \in Tasks \ {t} : refunds'[u] = refunds[u]
  BY <1>1, <1>2, <1>3, SettlementFields DEF SettlementInv, SettlementTypeOK
<1>5. /\ credited'[k] = credited[k] + a /\ credited[k] \in Nat
      /\ \A j \in Terms \ {k} : credited'[j] = credited[j]
  BY <1>1, <1>2, <1>3, SettlementFields DEF SettlementInv, SettlementTypeOK
<1>6. \A u \in Tasks : refunds[u] # 0 => refunds'[u] # 0
  BY <1>3, <1>4
<1>7. \A e \in Desks : desk'[e] = IF e = d THEN m ELSE desk[e]
  BY <1>1, <1>2 DEF SettlementInv, SettlementTypeOK
<1>8. m.step = "file" /\ m.task = t /\ m.term = k
  BY <1>2, SettlementFields DEF Desk
<1>9. HandHolds(d)'
  BY <1>1, <1>3, <1>7, <1>8 DEF HandHolds, HoldsRest
<1>10. \A e \in Desks : HandHolds(e)'
  BY <1>1, <1>6, <1>7, <1>9, HandKept
<1>11. strained' = strained
  <2>1. credited' # credited
    BY <1>3, <1>5
  <2>2. ASSUME NEW u \in Tasks, NEW j \in Terms, term[j].status = "NONE"
        PROVE  term'[j].task # u
    BY <1>1, <1>2, <2>2, PaymentAssumption DEF SettlementInv, TermsHold
  <2> QED
    BY <1>1, <1>2, <2>1, <2>2 DEF Recorded, Strains, Repriced, PaidLate, SettledAgain
<1>12. \A j \in Terms \ {k} : AsTicket(j)' = AsTicket(j)
  BY <1>1, <1>5 DEF AsTicket
<1>13. CASE k \in disturbed
  <2>1. t \in {term'[j].task : j \in disturbed'}
    BY <1>1, <1>3, <1>13
  <2>2. term[k].task = t /\ term'[k].task = t
    BY <1>1, <1>3
  <2> HIDE DEF t, m
  <2> QED
    BY <1>1, <1>2, <1>3, <1>4, <1>10, <1>11, <1>12, <2>1, <2>2, StrayBooks
<1>14. CASE k \notin disturbed
  <2>1. /\ term[k].status = "PENDING" /\ a = term[k].net
        /\ \A e \in Desks : Files(e, k) => e = d
    BY <1>1, <1>2, <1>3, <1>14 DEF SettlementInv, FiledByOne, Files
  <2>2. credited[k] = 0
    BY <1>1, <1>2, <1>3, <1>14, <2>1 DEF SettlementInv, RefundHeldUntilProcessed, Files
  <2>3. AsTicket(k) = [of |-> t, net |-> a, state |-> "open"]
    BY <1>3, <2>1, <2>2 DEF AsTicket
  <2>4. AsTicket(k)' = [of |-> t, net |-> a, state |-> "closed"]
    BY <1>1, <1>3, <1>5, <2>1 DEF AsTicket
  <2>5. UNCHANGED <<[u \in Tasks |-> task[u].total], paid,
                    strained \cup {term[j].task : j \in disturbed}>>
    BY <1>1, <1>2, <1>11
  <2>6. AsTicket(k)' = [AsTicket(k) EXCEPT !.state = "closed"]
    BY <2>3, <2>4
  <2>7. AsTicket(k).state = "open" /\ AsTicket(k).of = t /\ AsTicket(k).net = a
    BY <2>3
  <2> HIDE DEF t, m, a
  <2>8. [j \in Terms |-> AsTicket(j)]' = [[j \in Terms |-> AsTicket(j)] EXCEPT ![k].state = "closed"]
    <3>1. [j \in Terms |-> AsTicket(j)]' = [j \in Terms |-> AsTicket(j)']
      OBVIOUS
    <3> QED
      BY <1>3, <1>12, <2>6, <3>1
  <2>9. Books!Release(k)
    BY <1>1, <1>3, <2>5, <2>7, <2>8 DEF Books!Release
  <2> QED
    BY <1>3, <1>10, <2>9 DEF Books!EscrowNext
<1> QED
  BY <1>13, <1>14

\* A request that is filed has been paid, or is forgone.
LEMMA FileBooks ==
    ASSUME MoneyInv, SettlementInv', Recorded, NEW d \in Desks, FileTermination(d)
    PROVE  /\ \A e \in Desks : HandHolds(e)'
           /\ Books!EscrowNext \/ UNCHANGED Books!escrowVars
<1> PICK k \in Terms : k = desk[d].term
  BY DEF FileTermination, MoneyInv, SettlementInv, DesksHold
<1> DEFINE row == [term[k] EXCEPT !.status = desk[d].op]
<1>1. /\ desk[d].step = "file" /\ desk' = [desk EXCEPT ![d] = Vacant]
      /\ term' = [term EXCEPT ![k] = row]
      /\ UNCHANGED <<vars, paid, refunds, credited, disturbed>>
  BY DEF FileTermination, Leave
<1>2. SettlementInv /\ UNCHANGED task
  BY <1>1 DEF MoneyInv, vars
<1>3. /\ term[k].status # "NONE" /\ desk[d].op \in {"PROCESSED", "CANCELLED"}
      /\ term[k].task \in Tasks /\ term[k].net \in Nat
  BY <1>1, <1>2, SettlementFields DEF SettlementInv, DesksHold, TermsHold
<1>4. /\ term'[k].status = desk[d].op /\ term'[k].task = term[k].task
      /\ term'[k].net = term[k].net
      /\ \A j \in Terms \ {k} : term'[j] = term[j]
  BY <1>1, <1>2 DEF SettlementInv, SettlementTypeOK, TermRow
<1>5. \A e \in Desks : desk'[e] = IF e = d THEN Vacant ELSE desk[e]
  BY <1>1, <1>2 DEF SettlementInv, SettlementTypeOK
<1>6. \A j \in Terms : term'[j].task = term[j].task
  BY <1>4
<1>7. \A e \in Desks : HandHolds(e)'
  BY <1>1, <1>5, <1>6, EmptyHand, HandKept
<1>8. strained' = strained
  <2>1. ASSUME NEW u \in Tasks, NEW j \in Terms, term[j].status = "NONE"
        PROVE  term'[j].task # u
    BY <1>2, <1>6, <2>1, PaymentAssumption DEF SettlementInv, TermsHold
  <2> QED
    BY <1>1, <1>2, <2>1 DEF Recorded, Strains, Repriced, PaidLate, SettledAgain
<1>9. \A j \in Terms \ {k} : AsTicket(j)' = AsTicket(j)
  BY <1>1, <1>4 DEF AsTicket
<1>10. disturbed \subseteq Terms
  BY <1>2 DEF SettlementInv, SettlementTypeOK
<1>11. {term'[j].task : j \in disturbed'} = {term[j].task : j \in disturbed}
  BY <1>1, <1>6, <1>10
<1>12. AsTicket(k)' = [AsTicket(k) EXCEPT !.state = "closed"]
  BY <1>1, <1>3, <1>4 DEF AsTicket
<1>13. CASE k \in disturbed
  <2> PICK t \in Tasks : t = term[k].task
    BY <1>3
  <2>1. t \in {term'[j].task : j \in disturbed'}
    BY <1>1, <1>4, <1>13
  <2>2. term[k].task = t /\ term'[k].task = t
    BY <1>4
  <2> QED
    BY <1>1, <1>2, <1>7, <1>8, <1>9, <1>11, <2>1, <2>2, StrayBooks
<1>14. CASE k \notin disturbed /\ AsTicket(k).state = "open"
  <2>1. UNCHANGED <<[u \in Tasks |-> task[u].total], paid, refunds,
                    strained \cup {term[j].task : j \in disturbed}>>
    BY <1>1, <1>2, <1>8, <1>11
  <2>2. [j \in Terms |-> AsTicket(j)]' = [[j \in Terms |-> AsTicket(j)] EXCEPT ![k].state = "closed"]
    <3>1. [j \in Terms |-> AsTicket(j)]' = [j \in Terms |-> AsTicket(j)']
      OBVIOUS
    <3> QED
      BY <1>9, <1>12, <3>1
  <2>3. Books!Forgo(k)
    BY <1>14, <2>1, <2>2 DEF Books!Forgo
  <2> QED
    BY <1>7, <2>3 DEF Books!EscrowNext
<1>15. CASE AsTicket(k).state # "open"
  <2>1. AsTicket(k)' = AsTicket(k)
    BY <1>12, <1>15 DEF AsTicket
  <2>2. \A j \in Terms : AsTicket(j)' = AsTicket(j)
    BY <1>9, <2>1
  <2> QED
    BY <1>1, <1>2, <1>7, <1>8, <1>11, <2>2 DEF Books!escrowVars
<1> QED
  BY <1>13, <1>14, <1>15

\* Only the payouts, or only the budget, of campaign t changes: it was not settled, or
\* it is strained.
LEMMA SpendBooks ==
    ASSUME MoneyInv, SettlementInv', Recorded, NEW t \in Tasks, NEW n \in Shares,
           ContributorPaid(t, n)
    PROVE  /\ \A e \in Desks : HandHolds(e)'
           /\ Books!EscrowNext \/ UNCHANGED Books!escrowVars
<1>1. /\ paid' = [paid EXCEPT ![t] = @ + n]
      /\ UNCHANGED <<vars, term, refunds, credited, disturbed>>
  BY DEF ContributorPaid
<1>2. SettlementInv /\ UNCHANGED task
  BY <1>1 DEF MoneyInv, vars
<1>3. /\ paid[t] \in Nat /\ paid'[t] = paid[t] + n /\ n \in Nat /\ n # 0
      /\ \A u \in Tasks \ {t} : paid'[u] = paid[u]
  BY <1>1, <1>2, SettlementFields, SettlementAssumption DEF SettlementInv, SettlementTypeOK
<1>4. ASSUME NEW e \in Desks PROVE HandHolds(e)'
  <2>1. PICK M \in SUBSET Summing(t) : desk' = Overlooked(M, n)
    BY DEF ContributorPaid
  <2>2. M \in SUBSET Desks /\ \A d \in M : desk[d].task = t
    BY DEF Summing
  <2>3. /\ desk'[e].step = desk[e].step /\ desk'[e].task = desk[e].task
        /\ desk'[e].amount = desk[e].amount /\ desk'[e].term = desk[e].term
        /\ desk'[e].missed = IF e \in M THEN desk[e].missed + n ELSE desk[e].missed
    BY <1>2, <2>1, <2>2, OverlookedFields
  <2>4. desk'[e].missed # desk[e].missed =>
           desk'[e].missed > desk[e].missed /\ paid'[desk[e].task] # paid[desk[e].task]
    BY <1>2, <1>3, <2>2, <2>3, SettlementFields
  <2> QED
    BY <1>1, <2>3, <2>4, HandKeptOrMissed
<1>5. \A u \in Tasks \ {t} : ~Strains(u)
  <2>1. ASSUME NEW u \in Tasks, NEW j \in Terms, term[j].status = "NONE"
        PROVE  term'[j].task # u
    BY <1>1, <1>2, <2>1, PaymentAssumption DEF SettlementInv, TermsHold
  <2> QED
    BY <1>1, <1>2, <1>3, <2>1 DEF Strains, Repriced, PaidLate, SettledAgain
<1>6. \A j \in Terms : AsTicket(j)' = AsTicket(j)
  BY <1>1 DEF AsTicket
<1>7. CASE t \in strained'
  <2>1. \A u \in Tasks \ {t} : u \in strained <=> u \in strained'
    BY <1>5 DEF Recorded
  <2> QED
    BY <1>1, <1>2, <1>3, <1>4, <1>6, <1>7, <2>1, StrayBooks
<1>8. CASE t \notin strained'
  <2>1. ~WasSettled(t) /\ strained' = strained
    BY <1>3, <1>5, <1>8 DEF Recorded, Strains, PaidLate
  <2>2. ~Books!Settled(t)
    BY <2>1 DEF Books!Settled, AsTicket, WasSettled
  <2>3. UNCHANGED <<[u \in Tasks |-> task[u].total], refunds, [j \in Terms |-> AsTicket(j)],
                    strained \cup {term[j].task : j \in disturbed}>>
    BY <1>1, <1>2, <2>1 DEF AsTicket
  <2>4. paid'[t] \in Nat /\ paid'[t] > paid[t]
    BY <1>3, <1>8
  <2>5. paid' = [paid EXCEPT ![t] = paid'[t]]
    BY <1>1, <1>3
  <2>6. Books!Spend(t)
    BY <2>2, <2>3, <2>4, <2>5 DEF Books!Spend
  <2> QED
    BY <1>4, <2>6 DEF Books!EscrowNext
<1> QED
  BY <1>7, <1>8

\* Checkouts, webhooks, publications and edits: at most one campaign is repriced.
LEMMA PaymentBooks ==
    ASSUME MoneyInv, SettlementInv', Recorded, [Next]_vars, UNCHANGED settleVars
    PROVE  /\ \A e \in Desks : HandHolds(e)'
           /\ Books!EscrowNext \/ UNCHANGED Books!escrowVars
<1>1. UNCHANGED <<term, paid, refunds, desk, credited, disturbed>>
  BY DEF settleVars
<1>2. SettlementInv /\ PaymentInv /\ PaymentInv'
  BY PaymentStep DEF MoneyInv, SettlementInv
<1>3. \A e \in Desks : HandHolds(e)'
  BY <1>1, HandKept
<1>4. \A j \in Terms : AsTicket(j)' = AsTicket(j)
  BY <1>1 DEF AsTicket
<1>5. CASE \A t \in Tasks : task'[t].total = task[t].total
  BY <1>1, <1>2, <1>3, <1>5, NothingStrained, BooksStand
<1>6. ASSUME NEW t \in Tasks, \A u \in Tasks \ {t} : task'[u].total = task[u].total,
             task'[t].total # task[t].total
      PROVE  Books!EscrowNext
  <2>1. \A u \in Tasks \ {t} : ~Strains(u)
    <3>1. ASSUME NEW u \in Tasks, NEW j \in Terms, term[j].status = "NONE"
          PROVE  term'[j].task # u
      BY <1>1, <1>2, <3>1, PaymentAssumption DEF SettlementInv, TermsHold
    <3> QED
      BY <1>1, <1>6, <3>1 DEF Strains, Repriced, PaidLate, SettledAgain
  <2>2. CASE t \in strained'
    <3>1. \A u \in Tasks \ {t} : u \in strained <=> u \in strained'
      BY <2>1 DEF Recorded
    <3> QED
      BY <1>1, <1>4, <1>6, <2>2, <3>1, StrayBooks
  <2>3. CASE t \notin strained'
    <3>1. ~WasSettled(t) /\ strained' = strained
      BY <1>6, <2>1, <2>3 DEF Recorded, Strains, Repriced
    <3>2. ~Books!Settled(t)
      BY <3>1 DEF Books!Settled, AsTicket, WasSettled
    <3>3. UNCHANGED <<paid, refunds, [j \in Terms |-> AsTicket(j)],
                      strained \cup {term[j].task : j \in disturbed}>>
      BY <1>1, <3>1 DEF AsTicket
    <3>4. task'[t].total \in Nat
      BY <1>2, PaymentAssumption DEF PaymentInv, TypeOK, TaskRow
    <3>5. Books!Price(t)
      BY <1>6, <3>2, <3>3, <3>4 DEF Books!Price
    <3> QED
      BY <3>5 DEF Books!EscrowNext
  <2> QED
    BY <2>2, <2>3
<1> QED
  BY <1>2, <1>3, <1>5, <1>6, OneRepriced

-----------------------------------------------------------------------------
(* The theorems                                                             *)

\* One case per action: the invariant is kept, and the books take a step or stand.
LEMMA MoneyStep ==
    ASSUME MoneyInv, [MoneyNext]_moneyVars
    PROVE  MoneyInv' /\ (Books!EscrowNext \/ UNCHANGED Books!escrowVars)
<1>1. CASE UNCHANGED moneyVars
  <2>1. SettlementInv' /\ UNCHANGED <<vars, settleVars, strained>>
    BY <1>1, SettlementStep DEF MoneyInv, moneyVars, allVars
  <2>2. UNCHANGED <<task, term, paid, refunds, desk, credited, disturbed, strained>>
    BY <2>1 DEF vars, settleVars
  <2>3. ASSUME NEW d \in Desks
        PROVE  HandHolds(d)'
    BY <2>2 DEF MoneyInv, HandHolds, HoldsRest, WasSettled
  <2> QED
    BY <2>1, <2>2, <2>3, BooksStand DEF MoneyInv
<1>2. CASE MoneyNext
  <2>1. SettlementInv' /\ SettlementNext /\ Recorded
    BY <1>2, SettlementStep DEF MoneyInv, MoneyNext, Recorded
  <2>2. strained' \subseteq Tasks
    BY <2>1 DEF MoneyInv, Recorded
  <2>3. CASE Next /\ UNCHANGED settleVars
    BY <2>1, <2>2, <2>3, PaymentBooks DEF MoneyInv
  <2>4. CASE \E d \in Desks : SettlementRequest(d)
    BY <2>1, <2>2, <2>4, ReadBudget, ProcessBooks DEF MoneyInv, SettlementRequest
  <2>5. CASE \E d \in Desks : SettlementHandler(d)
    BY <2>1, <2>2, <2>5, ListBooks, SumBooks, CreditBooks, CloseBooks, HoldBooks, PayBooks, FileBooks
    DEF MoneyInv, SettlementHandler
  <2>6. CASE \E d \in Desks : DropDesk(d)
    BY <2>1, <2>2, <2>6, DropBooks DEF MoneyInv
  <2>7. CASE \E t \in Tasks, n \in Shares : ContributorPaid(t, n)
    BY <2>1, <2>2, <2>7, SpendBooks DEF MoneyInv
  <2> QED
    BY <2>1, <2>3, <2>4, <2>5, <2>6, <2>7 DEF SettlementNext, Settle
<1> QED
  BY <1>1, <1>2

\* Nothing is in flight, spent or returned at first.
LEMMA MoneyStart == MoneyInit => MoneyInv /\ Books!EscrowInit
<1> SUFFICES ASSUME MoneyInit PROVE MoneyInv /\ Books!EscrowInit
  OBVIOUS
<1>1. SettlementInit /\ strained = {}
  BY DEF MoneyInit
<1>2. SettlementInv
  BY <1>1, SettlementInvInit
<1>3. ASSUME NEW d \in Desks
      PROVE  HandHolds(d)
  BY <1>1, PaymentAssumption DEF SettlementInit, HandHolds, Vacant
<1>4. [t \in Tasks |-> task[t].total] \in [Tasks -> Nat]
  BY <1>2, PaymentAssumption DEF SettlementInv, PaymentInv, TypeOK, TaskRow
<1>5. ASSUME NEW k \in Terms
      PROVE  AsTicket(k) = Books!Unwritten
  BY <1>1, <1>5 DEF SettlementInit, AsTicket, Books!Unwritten
<1>6. strained \cup {term[k].task : k \in disturbed} = {}
  BY <1>1 DEF SettlementInit
<1>7. Books!EscrowInit
  BY <1>1, <1>4, <1>5, <1>6 DEF SettlementInit, Books!EscrowInit
<1> QED
  BY <1>1, <1>2, <1>3, <1>7 DEF MoneyInv

\* Until the first settlement of a campaign that is not strained takes effect, every
\* handler in flight holds what it has to return.
THEOREM MoneyInvariant == MoneySpec => []MoneyInv
<1>1. MoneyInit => MoneyInv
  BY MoneyStart
<1>2. MoneyInv /\ [MoneyNext]_moneyVars => MoneyInv'
  BY MoneyStep
<1> QED
  BY <1>1, <1>2, PTL DEF MoneySpec

\* The handlers of pauseTask, endTask, terminateTask and of the administrators, with
\* everything that goes on between their statements, implement the settlement in one
\* step that Escrow.tla describes.
THEOREM SettlementIsAtomic == MoneySpec => SettlesAtomically
<1>1. MoneyInit => Books!EscrowInit
  BY MoneyStart
<1>2. MoneyInv /\ [MoneyNext]_moneyVars => [Books!EscrowNext]_(Books!escrowVars)
  BY MoneyStep
<1> QED
  BY <1>1, <1>2, MoneyInvariant, PTL DEF MoneySpec, SettlesAtomically, Books!EscrowSpec

-----------------------------------------------------------------------------
(* What the creator may rely on                                             *)

BooksInv == Books!EscrowTypeOK /\ Books!NoMoreThanLeft

\* A step of the books that concerns campaign c alone leaves the other ones alone.
LEMMA OthersKept ==
    ASSUME Books!NoMoreThanLeft, Books!EscrowTypeOK', NEW c \in Tasks,
           \A b \in Tasks \ {c} :
              /\ task'[b].total = task[b].total /\ paid'[b] = paid[b] /\ refunds'[b] = refunds[b]
              /\ b \in strained \cup {term[k].task : k \in disturbed}
                 <=> b \in strained' \cup {term'[k].task : k \in disturbed'},
           \A k \in Terms :
              \/ AsTicket(k)' = AsTicket(k)
              \/ AsTicket(k).of \in {c, NoTask} /\ AsTicket(k)'.of = c,
           \/ c \in strained' \cup {term'[k].task : k \in disturbed'}
           \/ /\ refunds'[c] <= Books!Rest(c)'
              /\ \A k \in Terms : AsTicket(k)'.of = c =>
                    /\ \A j \in Terms : AsTicket(j)'.of = c => j = k
                    /\ AsTicket(k)'.state = "open" => refunds'[c] = 0 /\ AsTicket(k)'.net <= Books!Rest(c)'
    PROVE  Books!NoMoreThanLeft'
<1> SUFFICES ASSUME NEW b \in Tasks, b # c,
                    b \notin strained' \cup {term'[k].task : k \in disturbed'}
             PROVE  /\ refunds'[b] <= Books!Rest(b)'
                    /\ \A k \in Terms : AsTicket(k)'.of = b =>
                          /\ \A j \in Terms : AsTicket(j)'.of = b => j = k
                          /\ AsTicket(k)'.state = "open" => refunds'[b] = 0 /\ AsTicket(k)'.net <= Books!Rest(b)'
  BY DEF Books!NoMoreThanLeft
<1>1. Books!Rest(b)' = Books!Rest(b)
  BY DEF Books!Rest
<1>2. \A k \in Terms : AsTicket(k)'.of = b => AsTicket(k)' = AsTicket(k)
  OBVIOUS
<1>3. /\ refunds[b] <= Books!Rest(b)
      /\ \A k \in Terms : AsTicket(k).of = b =>
            /\ \A j \in Terms : AsTicket(j).of = b => j = k
            /\ AsTicket(k).state = "open" => refunds[b] = 0 /\ AsTicket(k).net <= Books!Rest(b)
  BY DEF Books!NoMoreThanLeft
<1> QED
  BY <1>1, <1>2, <1>3

\* One case per action of the books.
LEMMA BooksStep ==
    ASSUME BooksInv, [Books!EscrowNext]_(Books!escrowVars)
    PROVE  BooksInv'
<1> DEFINE Astray == strained \cup {term[k].task : k \in disturbed}
           Total == [t \in Tasks |-> task[t].total]
           Tickets == [k \in Terms |-> AsTicket(k)]
<1>1. /\ Total \in [Tasks -> Nat] /\ paid \in [Tasks -> Nat] /\ refunds \in [Tasks -> Nat]
      /\ Tickets \in [Terms -> Books!Ticket]
  BY DEF BooksInv, Books!EscrowTypeOK
<1>2. \A t \in Tasks : Books!Rest(t) \in Nat
  BY <1>1 DEF Books!Rest
<1>3. ASSUME NEW t \in Tasks, Books!Price(t)
      PROVE  BooksInv'
  <2>1. Books!EscrowTypeOK'
    BY <1>1, <1>3 DEF Books!Price, Books!EscrowTypeOK
  <2>2. refunds[t] = 0 /\ \A k \in Terms : AsTicket(k).of # t
    BY <1>3 DEF Books!Price, Books!Settled
  <2>3. /\ Astray' = Astray /\ refunds' = refunds /\ paid' = paid
        /\ \A k \in Terms : AsTicket(k)' = AsTicket(k)
        /\ \A b \in Tasks \ {t} : task'[b].total = task[b].total
    <3>1. Tickets' = Tickets /\ Total' = [Total EXCEPT ![t] = Total'[t]]
      BY <1>3 DEF Books!Price
    <3>2. \A k \in Terms : Tickets[k] = AsTicket(k) /\ Tickets'[k] = AsTicket(k)'
      OBVIOUS
    <3>3. \A b \in Tasks : Total[b] = task[b].total /\ Total'[b] = task'[b].total
      OBVIOUS
    <3> HIDE DEF Total, Tickets
    <3>4. \A b \in Tasks \ {t} : Total'[b] = Total[b]
      BY <1>1, <3>1
    <3> QED
      BY <1>3, <3>1, <3>2, <3>3, <3>4 DEF Books!Price
  <2>4. Books!Rest(t)' \in Nat
    BY <2>1 DEF Books!Rest, Books!EscrowTypeOK
  <2> HIDE DEF Astray, Total, Tickets
  <2>5. Books!NoMoreThanLeft'
    BY <2>1, <2>2, <2>3, <2>4, OthersKept DEF BooksInv, Astray
  <2> QED
    BY <2>1, <2>5 DEF BooksInv
<1>4. ASSUME NEW t \in Tasks, Books!Spend(t)
      PROVE  BooksInv'
  <2>1. Books!EscrowTypeOK'
    BY <1>1, <1>4 DEF Books!Spend, Books!EscrowTypeOK
  <2>2. refunds[t] = 0 /\ \A k \in Terms : AsTicket(k).of # t
    BY <1>4 DEF Books!Spend, Books!Settled
  <2>3. Astray' = Astray /\ refunds' = refunds /\ Total' = Total /\ Tickets' = Tickets
    BY <1>4 DEF Books!Spend
  <2>4. \A k \in Terms : AsTicket(k)' = AsTicket(k)
    <3>1. \A k \in Terms : Tickets[k] = AsTicket(k) /\ Tickets'[k] = AsTicket(k)'
      OBVIOUS
    <3> HIDE DEF Tickets
    <3> QED
      BY <2>3, <3>1
  <2>5. \A b \in Tasks : task'[b].total = task[b].total
    <3>1. \A b \in Tasks : Total[b] = task[b].total /\ Total'[b] = task'[b].total
      OBVIOUS
    <3> HIDE DEF Total
    <3> QED
      BY <2>3, <3>1
  <2>6. \A b \in Tasks \ {t} : paid'[b] = paid[b]
    BY <1>1, <1>4 DEF Books!Spend
  <2>7. Books!Rest(t)' \in Nat
    BY <2>1 DEF Books!Rest, Books!EscrowTypeOK
  <2> HIDE DEF Astray, Total, Tickets
  <2>8. Books!NoMoreThanLeft'
    BY <2>1, <2>2, <2>3, <2>4, <2>5, <2>6, <2>7, OthersKept DEF BooksInv, Astray
  <2> QED
    BY <2>1, <2>8 DEF BooksInv
<1>5. ASSUME NEW t \in Tasks, Books!GiveBack(t)
      PROVE  BooksInv'
  <2>1. Books!EscrowTypeOK'
    BY <1>1, <1>2, <1>5 DEF Books!GiveBack, Books!EscrowTypeOK
  <2>2. \A k \in Terms : AsTicket(k).of # t
    BY <1>5 DEF Books!GiveBack, Books!Settled
  <2>3. Astray' = Astray /\ paid' = paid /\ Total' = Total /\ Tickets' = Tickets
    BY <1>5 DEF Books!GiveBack
  <2>4. \A k \in Terms : AsTicket(k)' = AsTicket(k)
    <3>1. \A k \in Terms : Tickets[k] = AsTicket(k) /\ Tickets'[k] = AsTicket(k)'
      OBVIOUS
    <3> HIDE DEF Tickets
    <3> QED
      BY <2>3, <3>1
  <2>5. \A b \in Tasks : task'[b].total = task[b].total
    <3>1. \A b \in Tasks : Total[b] = task[b].total /\ Total'[b] = task'[b].total
      OBVIOUS
    <3> HIDE DEF Total
    <3> QED
      BY <2>3, <3>1
  <2>6. refunds'[t] = Books!Rest(t) /\ \A b \in Tasks \ {t} : refunds'[b] = refunds[b]
    BY <1>1, <1>5 DEF Books!GiveBack
  <2>7. Books!Rest(t)' = Books!Rest(t)
    BY <2>3, <2>5 DEF Books!Rest
  <2> HIDE DEF Astray, Total, Tickets
  <2>8. Books!NoMoreThanLeft'
    BY <1>2, <2>1, <2>2, <2>3, <2>4, <2>5, <2>6, <2>7, OthersKept DEF BooksInv, Astray
  <2> QED
    BY <2>1, <2>8 DEF BooksInv
<1>6. ASSUME NEW t \in Tasks, NEW k \in Terms, Books!Hold(t, k)
      PROVE  BooksInv'
  <2>1. /\ Tickets'[k] \in [of : {t}, net : 0 .. Books!Rest(t), state : {"open"}]
        /\ Tickets' = [Tickets EXCEPT ![k] = Tickets'[k]]
        /\ Tickets[k] = Books!Unwritten
        /\ Astray' = Astray /\ paid' = paid /\ Total' = Total /\ refunds' = refunds
    BY <1>6 DEF Books!Hold
  <2>2. Tickets'[k] \in Books!Ticket
    BY <1>2, <2>1 DEF Books!Ticket
  <2>3. Books!EscrowTypeOK'
    <3>1. Tickets' \in [Terms -> Books!Ticket]
      <4> HIDE DEF Tickets
      <4> QED
        BY <1>1, <2>1, <2>2
    <3> QED
      BY <1>1, <2>1, <3>1 DEF Books!EscrowTypeOK
  <2>4. refunds[t] = 0 /\ \A j \in Terms : AsTicket(j).of # t
    BY <1>6 DEF Books!Hold, Books!Settled
  <2>5. \A j \in Terms : Tickets[j] = AsTicket(j) /\ Tickets'[j] = AsTicket(j)'
    OBVIOUS
  <2>6. \A b \in Tasks : task'[b].total = task[b].total
    <3>1. \A b \in Tasks : Total[b] = task[b].total /\ Total'[b] = task'[b].total
      OBVIOUS
    <3> HIDE DEF Total
    <3> QED
      BY <2>1, <3>1
  <2>7. Books!Rest(t)' = Books!Rest(t)
    BY <2>1, <2>6 DEF Books!Rest
  <2>8. \A j \in Terms \ {k} : AsTicket(j)' = AsTicket(j)
    <3> HIDE DEF Tickets
    <3> QED
      BY <1>1, <2>1, <2>5
  <2>9. AsTicket(k).of = NoTask /\ AsTicket(k)'.of = t /\ AsTicket(k)'.net <= Books!Rest(t)
    <3> HIDE DEF Tickets
    <3> QED
      BY <1>2, <2>1, <2>5 DEF Books!Unwritten
  <2> HIDE DEF Astray, Total, Tickets
  <2>10. /\ refunds'[t] <= Books!Rest(t)'
         /\ \A j \in Terms : AsTicket(j)'.of = t =>
               /\ \A i \in Terms : AsTicket(i)'.of = t => i = j
               /\ AsTicket(j)'.state = "open" => refunds'[t] = 0 /\ AsTicket(j)'.net <= Books!Rest(t)'
    BY <1>2, <2>1, <2>4, <2>7, <2>8, <2>9
  <2>11. Books!NoMoreThanLeft'
    BY <2>1, <2>3, <2>6, <2>8, <2>9, <2>10, OthersKept DEF BooksInv, Astray
  <2> QED
    BY <2>3, <2>11 DEF BooksInv
<1>7. ASSUME NEW k \in Terms, Books!Release(k)
      PROVE  BooksInv'
  <2>1. \A j \in Terms : Tickets[j] = AsTicket(j) /\ Tickets'[j] = AsTicket(j)'
    OBVIOUS
  <2>2. PICK t \in Tasks : /\ AsTicket(k).of = t /\ AsTicket(k).state = "open"
                           /\ AsTicket(k).net \in Nat
    <3>1. Tickets[k] \in Books!Ticket /\ Tickets[k].state = "open"
      <4>1. Tickets[k].state = "open"
        BY <1>7 DEF Books!Release
      <4> QED
        BY <1>1, <4>1
    <3> HIDE DEF Tickets
    <3> QED
      BY <2>1, <3>1 DEF Books!Ticket, Books!Unwritten
  <2>3. /\ Tickets' = [Tickets EXCEPT ![k].state = "closed"]
        /\ refunds' = [refunds EXCEPT ![Tickets[k].of] = @ + Tickets[k].net]
        /\ Astray' = Astray /\ paid' = paid /\ Total' = Total
    BY <1>7 DEF Books!Release
  <2>4. /\ AsTicket(k)' = [AsTicket(k) EXCEPT !.state = "closed"]
        /\ \A j \in Terms \ {k} : AsTicket(j)' = AsTicket(j)
        /\ Tickets' \in [Terms -> Books!Ticket]
    <3> HIDE DEF Tickets
    <3>1. AsTicket(k) \in [of : Tasks, net : Nat, state : {"open", "closed"}]
      BY <1>1, <2>1, <2>2 DEF Books!Ticket, Books!Unwritten
    <3>2. [AsTicket(k) EXCEPT !.state = "closed"] \in Books!Ticket
      BY <3>1 DEF Books!Ticket
    <3> QED
      BY <1>1, <2>1, <2>3, <3>2
  <2>5. /\ AsTicket(k)'.of = t /\ AsTicket(k)'.state = "closed"
        /\ AsTicket(k)'.net = AsTicket(k).net
    BY <2>2, <2>4 DEF AsTicket
  <2>6. /\ refunds'[t] = refunds[t] + AsTicket(k).net /\ refunds' \in [Tasks -> Nat]
        /\ \A b \in Tasks \ {t} : refunds'[b] = refunds[b]
    <3>1. refunds' = [refunds EXCEPT ![t] = refunds[t] + AsTicket(k).net]
      <4> HIDE DEF Tickets
      <4> QED
        BY <2>1, <2>2, <2>3
    <3>2. refunds[t] + AsTicket(k).net \in Nat
      BY <1>1, <2>2
    <3> HIDE DEF Tickets, Total
    <3> QED
      BY <1>1, <3>1, <3>2
  <2>7. Books!EscrowTypeOK'
    BY <1>1, <2>3, <2>4, <2>6 DEF Books!EscrowTypeOK
  <2>8. \A b \in Tasks : task'[b].total = task[b].total
    <3>1. \A b \in Tasks : Total[b] = task[b].total /\ Total'[b] = task'[b].total
      OBVIOUS
    <3> HIDE DEF Total
    <3> QED
      BY <2>3, <3>1
  <2>9. Books!Rest(t)' = Books!Rest(t)
    BY <2>3, <2>8 DEF Books!Rest
  <2> HIDE DEF Astray, Total, Tickets
  <2>10. CASE t \in Astray
    BY <2>2, <2>3, <2>4, <2>5, <2>6, <2>7, <2>8, <2>10, OthersKept DEF BooksInv, Astray
  <2>11. CASE t \notin Astray
    <3>1. /\ refunds[t] = 0 /\ AsTicket(k).net <= Books!Rest(t)
          /\ \A j \in Terms : AsTicket(j).of = t => j = k
      BY <2>2, <2>11 DEF BooksInv, Books!NoMoreThanLeft, Astray
    <3>2. \A j \in Terms : AsTicket(j)'.of = t => j = k
      BY <2>4, <3>1
    <3>3. refunds'[t] <= Books!Rest(t)'
      BY <2>2, <2>6, <2>9, <3>1
    <3> QED
      BY <2>2, <2>3, <2>4, <2>5, <2>6, <2>7, <2>8, <3>2, <3>3, OthersKept DEF BooksInv, Astray
  <2> QED
    BY <2>7, <2>10, <2>11 DEF BooksInv
<1>8. ASSUME NEW k \in Terms, Books!Forgo(k)
      PROVE  BooksInv'
  <2>1. \A j \in Terms : Tickets[j] = AsTicket(j) /\ Tickets'[j] = AsTicket(j)'
    OBVIOUS
  <2>2. PICK t \in Tasks : /\ AsTicket(k).of = t /\ AsTicket(k).state = "open"
                           /\ AsTicket(k).net \in Nat
    <3>1. Tickets[k] \in Books!Ticket /\ Tickets[k].state = "open"
      <4>1. Tickets[k].state = "open"
        BY <1>8 DEF Books!Forgo
      <4> QED
        BY <1>1, <4>1
    <3> HIDE DEF Tickets
    <3> QED
      BY <2>1, <3>1 DEF Books!Ticket, Books!Unwritten
  <2>3. /\ Tickets' = [Tickets EXCEPT ![k].state = "closed"]
        /\ Astray' = Astray /\ paid' = paid /\ Total' = Total /\ refunds' = refunds
    BY <1>8 DEF Books!Forgo
  <2>4. /\ AsTicket(k)' = [AsTicket(k) EXCEPT !.state = "closed"]
        /\ \A j \in Terms \ {k} : AsTicket(j)' = AsTicket(j)
        /\ Tickets' \in [Terms -> Books!Ticket]
    <3> HIDE DEF Tickets
    <3>1. AsTicket(k) \in [of : Tasks, net : Nat, state : {"open", "closed"}]
      BY <1>1, <2>1, <2>2 DEF Books!Ticket, Books!Unwritten
    <3>2. [AsTicket(k) EXCEPT !.state = "closed"] \in Books!Ticket
      BY <3>1 DEF Books!Ticket
    <3> QED
      BY <1>1, <2>1, <2>3, <3>2
  <2>5. AsTicket(k)'.of = t /\ AsTicket(k)'.state = "closed"
    BY <2>2, <2>4 DEF AsTicket
  <2>6. Books!EscrowTypeOK'
    BY <1>1, <2>3, <2>4 DEF Books!EscrowTypeOK
  <2>7. \A b \in Tasks : task'[b].total = task[b].total
    <3>1. \A b \in Tasks : Total[b] = task[b].total /\ Total'[b] = task'[b].total
      OBVIOUS
    <3> HIDE DEF Total
    <3> QED
      BY <2>3, <3>1
  <2>8. Books!Rest(t)' = Books!Rest(t)
    BY <2>3, <2>7 DEF Books!Rest
  <2> HIDE DEF Astray, Total, Tickets
  <2>9. CASE t \in Astray
    BY <2>2, <2>3, <2>4, <2>5, <2>6, <2>7, <2>9, OthersKept DEF BooksInv, Astray
  <2>10. CASE t \notin Astray
    <3>1. /\ refunds[t] <= Books!Rest(t)
          /\ \A j \in Terms : AsTicket(j).of = t => j = k
      BY <2>2, <2>10 DEF BooksInv, Books!NoMoreThanLeft, Astray
    <3>2. \A j \in Terms : AsTicket(j)'.of = t => j = k
      BY <2>4, <3>1
    <3>3. refunds'[t] <= Books!Rest(t)'
      BY <2>3, <2>8, <3>1
    <3> QED
      BY <2>2, <2>3, <2>4, <2>5, <2>6, <2>7, <3>2, <3>3, OthersKept DEF BooksInv, Astray
  <2> QED
    BY <2>6, <2>9, <2>10 DEF BooksInv
<1>9. ASSUME NEW t \in Tasks, Books!Stray(t)
      PROVE  BooksInv'
  <2>1. /\ t \in Astray' /\ Books!EscrowTypeOK'
        /\ \A b \in Tasks \ {t} :
              /\ Total'[b] = Total[b] /\ paid'[b] = paid[b] /\ refunds'[b] = refunds[b]
              /\ b \in Astray <=> b \in Astray'
        /\ \A k \in Terms :
              \/ Tickets'[k] = Tickets[k]
              \/ Tickets[k].of \in {t, NoTask} /\ Tickets'[k].of = t
    BY <1>9 DEF Books!Stray
  <2>2. \A j \in Terms : Tickets[j] = AsTicket(j) /\ Tickets'[j] = AsTicket(j)'
    OBVIOUS
  <2>3. \A b \in Tasks : Total[b] = task[b].total /\ Total'[b] = task'[b].total
    OBVIOUS
  <2> HIDE DEF Astray, Total, Tickets
  <2>4. /\ \A b \in Tasks \ {t} : task'[b].total = task[b].total
        /\ \A k \in Terms :
              \/ AsTicket(k)' = AsTicket(k)
              \/ AsTicket(k).of \in {t, NoTask} /\ AsTicket(k)'.of = t
    BY <2>1, <2>2, <2>3
  <2>5. Books!NoMoreThanLeft'
    BY <2>1, <2>4, OthersKept DEF BooksInv, Astray
  <2> QED
    BY <2>1, <2>5 DEF BooksInv
<1>10. CASE UNCHANGED Books!escrowVars
  <2>1. /\ Total' = Total /\ paid' = paid /\ refunds' = refunds /\ Tickets' = Tickets
        /\ Astray' = Astray
    BY <1>10 DEF Books!escrowVars
  <2>2. \A j \in Terms : Tickets[j] = AsTicket(j) /\ Tickets'[j] = AsTicket(j)'
    OBVIOUS
  <2>3. \A b \in Tasks : Total[b] = task[b].total /\ Total'[b] = task'[b].total
    OBVIOUS
  <2>4. Books!EscrowTypeOK'
    BY <1>1, <2>1 DEF Books!EscrowTypeOK
  <2> HIDE DEF Total, Tickets
  <2>5. /\ \A b \in Tasks : task'[b].total = task[b].total
        /\ \A k \in Terms : AsTicket(k)' = AsTicket(k)
    BY <2>1, <2>2, <2>3
  <2>6. \A b \in Tasks : Books!Rest(b)' = Books!Rest(b)
    BY <2>1, <2>5 DEF Books!Rest
  <2>7. Books!NoMoreThanLeft'
    BY <2>1, <2>5, <2>6 DEF BooksInv, Books!NoMoreThanLeft
  <2> QED
    BY <2>4, <2>7 DEF BooksInv
<1> QED
  BY <1>3, <1>4, <1>5, <1>6, <1>7, <1>8, <1>9, <1>10 DEF Books!EscrowNext

\* The books are in order at first.
LEMMA BooksStart == Books!EscrowInit => BooksInv
<1> SUFFICES ASSUME Books!EscrowInit PROVE BooksInv
  OBVIOUS
<1>1. /\ [t \in Tasks |-> task[t].total] \in [Tasks -> Nat]
      /\ paid = [t \in Tasks |-> 0] /\ refunds = [t \in Tasks |-> 0]
      /\ [k \in Terms |-> AsTicket(k)] = [k \in Terms |-> Books!Unwritten]
  BY DEF Books!EscrowInit
<1>2. Books!EscrowTypeOK
  BY <1>1 DEF Books!EscrowTypeOK, Books!Ticket
<1>3. \A k \in Terms : AsTicket(k) = Books!Unwritten
  <2> DEFINE F == [k \in Terms |-> AsTicket(k)]
  <2>1. \A k \in Terms : F[k] = AsTicket(k)
    OBVIOUS
  <2>2. \A k \in Terms : F[k] = Books!Unwritten
    BY <1>1
  <2> QED
    BY <2>1, <2>2
<1>4. \A t \in Tasks : Books!Rest(t) \in Nat
  BY <1>2 DEF Books!EscrowTypeOK, Books!Rest
<1>5. Books!NoMoreThanLeft
  BY <1>1, <1>3, <1>4, PaymentAssumption DEF Books!NoMoreThanLeft, Books!Unwritten
<1> QED
  BY <1>2, <1>5 DEF BooksInv

\* The creator of a campaign that did not go astray - it was settled once, no payout and
\* no new price came under the settlement or after it, no payout was of a submission the
\* settlement had not listed, and its request was not processed twice - gets back no more
\* than the contributors left of the budget, in one refund or through one ticket: so it
\* is in the books, and the handlers implement them.  Of other campaigns nothing is
\* said; the run settlement_unspent shows one that is paused and then terminated.
THEOREM CreatorGetsNoMore == MoneySpec => []Books!NoMoreThanLeft
<1>1. Books!EscrowInit => BooksInv
  BY BooksStart
<1>2. BooksInv /\ [Books!EscrowNext]_(Books!escrowVars) => BooksInv'
  BY BooksStep
<1>3. BooksInv => Books!NoMoreThanLeft
  BY DEF BooksInv
<1> QED
  BY <1>1, <1>2, <1>3, SettlementIsAtomic, PTL DEF SettlesAtomically, Books!EscrowSpec
=============================================================================
