--------------------------- MODULE PaymentProofs ---------------------------
(***************************************************************************)
(* The payment component's invariants, for any number of campaigns,         *)
(* references and handlers in flight.  The lemmas go by what an action      *)
(* writes: only a request (RequestOnly), or the tables too.                 *)
(***************************************************************************)
EXTENDS Payment, TLAPS

\* The request records the handlers build are well typed.
LEMMA AtIsRequest ==
    ASSUME NEW step \in Steps, NEW t \in Tasks \cup {NoTask}, NEW r \in Refs \cup {NoRef},
           NEW a \in Nat, NEW p \in BOOLEAN
    PROVE  /\ At(step, t, r, a, p) \in Request
           /\ At(step, t, r, a, p).step = step
           /\ At(step, t, r, a, p).task = t
           /\ At(step, t, r, a, p).ref = r
           /\ At(step, t, r, a, p).amount = a
           /\ At(step, t, r, a, p).paid = p
  BY DEF At, Request

\* An idle request is well typed and holds nothing.
LEMMA IdleHolds == Idle \in Request /\ Idle.step = "idle" /\ RequestHolds(Idle)
<1>1. "idle" \in Steps
  BY DEF Steps
<1>2. Idle \in Request /\ Idle.step = "idle"
  BY <1>1 DEF Idle, At, Request
<1> QED
  BY <1>2 DEF RequestHolds

\* Replacing the request of one slot leaves the others alone.
LEMMA ContinueSlot ==
    ASSUME TypeOK, NEW q \in Slots, NEW m \in Request, Continue(q, m)
    PROVE  /\ req' \in [Slots -> Request]
           /\ req'[q] = m
           /\ \A p \in Slots : p # q => req'[p] = req[p]
  BY DEF TypeOK, Continue

\* What a row, a transaction and a request consist of.
LEMMA Fields ==
    ASSUME TypeOK
    PROVE  /\ \A t \in Tasks : /\ task[t].status \in TaskStatus
                               /\ task[t].pay \in PaymentStatus
                               /\ task[t].ref \in Refs \cup {NoRef}
                               /\ task[t].total \in Amounts /\ task[t].total \in Nat
           /\ \A r \in Refs : /\ tx[r].st \in {"none", "issued", "open", "failed", "success"}
                              /\ tx[r].amount \in Nat /\ tx[r].declined \in BOOLEAN
                              /\ r.task \in Tasks
           /\ \A q \in Slots : /\ req[q] \in Request
                               /\ req[q].step \in Steps
                               /\ req[q].task \in Tasks \cup {NoTask}
                               /\ req[q].ref \in Refs \cup {NoRef}
                               /\ req[q].amount \in Nat /\ req[q].paid \in BOOLEAN
  BY PaymentAssumption DEF TypeOK, TaskRow, Transaction, Request, Refs

-----------------------------------------------------------------------------
\* A step that only moves the request of q, to a record that holds and is not an
\* initiation that began here, preserves the invariant.
LEMMA RequestOnly ==
    ASSUME PaymentInv, NEW q \in Slots, NEW m \in Request, Continue(q, m),
           RequestHolds(m), m.step \notin {"charge", "store"},
           UNCHANGED <<task, tx, excused>>
    PROVE  PaymentInv'
<1> USE DEF PaymentInv
<1>1. /\ req' \in [Slots -> Request]
      /\ req'[q] = m
      /\ \A p \in Slots : p # q => req'[p] = req[p]
  BY ContinueSlot
<1>2. TypeOK'
  BY <1>1 DEF TypeOK
<1>3. RequestsHold'
  BY <1>1 DEF RequestsHold, RequestHolds, Charged
<1>4. SingleCheckout'
  BY <1>1 DEF SingleCheckout, Offered
<1> QED
  BY <1>2, <1>3, <1>4 DEF RowsHold, PaidByItsCharge, PublishedWasCharged, Charged

\* An initiation knows the row it has read, its reference and its amount.
LEMMA InitiateStep ==
    ASSUME PaymentInv, NEW q \in Slots, NEW t \in Tasks, NEW r \in Refs,
           InitiatePayment(q, t, r)
    PROVE  PaymentInv'
<1> DEFINE m == At("charge", t, r, task[t].total, FALSE)
<1> USE DEF PaymentInv
<1>1. m \in Request /\ m.step = "charge" /\ m.task = t /\ m.ref = r
  <2>1. "charge" \in Steps /\ task[t].total \in Nat
    BY Fields DEF Steps
  <2> QED
    BY <2>1 DEF At, Request
<1>2. /\ Continue(q, m) /\ req[q].step = "idle"
      /\ task[t].pay # "PAID" /\ task[t].status = "DRAFT"
      /\ r \in CheckoutRefs(t)
      /\ UNCHANGED <<task, tx>>
      /\ excused' = IF Initiating(t) THEN excused \cup {t} ELSE excused
  BY DEF InitiatePayment, Begin
<1> HIDE DEF m
<1>3. /\ req' \in [Slots -> Request]
      /\ req'[q] = m
      /\ \A p \in Slots : p # q => req'[p] = req[p]
  BY <1>1, <1>2, ContinueSlot
<1>4. TypeOK'
  BY <1>2, <1>3 DEF TypeOK
<1>5. r.task = t
  BY <1>2 DEF CheckoutRefs, RowsHold
<1>6. RequestsHold'
  BY <1>1, <1>2, <1>3, <1>5 DEF RequestsHold, RequestHolds, Charged
<1>7. excused \subseteq excused'
  BY <1>2
<1>8. RowsHold'
  BY <1>2, <1>7 DEF RowsHold
<1>9. SingleCheckout'
  <2> SUFFICES ASSUME NEW u \in Tasks, u \notin excused'
               PROVE  /\ \A s \in Offered : s.task = u => s = task[u].ref
                      /\ \A p \in Slots :
                            req'[p].step \in {"charge", "store"} /\ req'[p].task = u =>
                              /\ task[u].ref \in {NoRef, req'[p].ref}
                              /\ \A o \in Slots :
                                    req'[o].step \in {"charge", "store"} /\ req'[o].task = u => o = p
    BY <1>2 DEF SingleCheckout, Offered
  <2>1. u \notin excused
    BY <1>7
  <2>2. CASE u # t
    BY <1>1, <1>2, <1>3, <2>1, <2>2 DEF SingleCheckout
  <2>3. CASE u = t
    <3>1. \A p \in Slots : ~(req[p].step \in {"charge", "store"} /\ req[p].task = t)
      BY <1>2, <2>3 DEF Initiating
    <3>2. task[t].ref \in {NoRef, r}
      <4>1. task[t].pay = "PENDING"
        BY <1>2, <2>1, <2>3, Fields DEF RowsHold, PaymentStatus
      <4> QED
        BY <1>2, <4>1 DEF CheckoutRefs
    <3> QED
      BY <1>1, <1>3, <2>1, <2>3, <3>1, <3>2 DEF SingleCheckout
  <2> QED
    BY <2>2, <2>3
<1> QED
  BY <1>2, <1>4, <1>6, <1>8, <1>9 DEF PaidByItsCharge, PublishedWasCharged, Charged

-----------------------------------------------------------------------------
\* Statements that move a request only.

\* What a handler does on Paystack's answer is covered by the charge it saw.
LEMMA VerdictHolds ==
    ASSUME NEW t \in Tasks, NEW r \in Refs, NEW total, NEW amount, NEW paid \in BOOLEAN,
           paid => tx[r].st = "success"
    PROVE  /\ Verdict(t, total, r, amount, paid) \in Request
           /\ RequestHolds(Verdict(t, total, r, amount, paid))
           /\ Verdict(t, total, r, amount, paid).step \notin {"charge", "store"}
<1>1. {"fail", "mark"} \subseteq Steps
  BY DEF Steps
<1>2. CASE ~paid
  BY <1>1, <1>2 DEF Verdict, At, Request, RequestHolds
<1>3. CASE paid /\ Matches(t, total, r, amount)
  <2>1. r.task = t
    BY <1>3 DEF Matches
  <2> QED
    BY <1>1, <1>3, <2>1 DEF Verdict, At, Request, RequestHolds
<1>4. CASE paid /\ ~Matches(t, total, r, amount)
  BY <1>4, IdleHolds DEF Verdict
<1> QED
  BY <1>2, <1>3, <1>4

\* A handler that ends, or never wrote anything, takes nothing with it.
LEMMA ReturnStep ==
    ASSUME PaymentInv, NEW q \in Slots, Return(q), UNCHANGED <<task, tx, excused>>
    PROVE  PaymentInv'
  BY IdleHolds, RequestOnly DEF Return

\* A verification that begins knows only its reference.
LEMMA VerifyStep ==
    ASSUME PaymentInv, NEW q \in Slots, NEW r \in Refs,
           \/ \E t \in Tasks : VerifyPayment(q, t, r)
           \/ VerifyOverwritten(q, r)
    PROVE  PaymentInv'
<1>1. "ask" \in Steps
  BY DEF Steps
<1>2. CASE \E t \in Tasks : VerifyPayment(q, t, r)
  <2>1. PICK t \in Tasks : VerifyPayment(q, t, r)
    BY <1>2
  <2> DEFINE m == At("ask", t, r, task[t].total, FALSE)
  <2>2. task[t].total \in Nat
    BY Fields DEF PaymentInv
  <2>3. r.task = t
    BY <2>1, PaymentAssumption DEF VerifyPayment, PaymentInv, RowsHold
  <2>4. m \in Request /\ RequestHolds(m) /\ m.step \notin {"charge", "store"}
    BY <1>1, <2>2, <2>3 DEF At, Request, RequestHolds
  <2> QED
    BY <2>1, <2>4, RequestOnly DEF VerifyPayment, Begin
<1>3. CASE VerifyOverwritten(q, r)
  <2> DEFINE m == At("ask", NoTask, r, 0, FALSE)
  <2>1. m \in Request /\ RequestHolds(m) /\ m.step \notin {"charge", "store"}
    BY <1>1, PaymentAssumption DEF At, Request, RequestHolds
  <2> QED
    BY <1>3, <2>1, RequestOnly DEF VerifyOverwritten, Begin
<1> QED
  BY <1>2, <1>3

\* What Paystack answers of a reference is what it holds of it.
LEMMA AnswerStep ==
    ASSUME PaymentInv, NEW q \in Slots, PaystackAnswers(q)
    PROVE  PaymentInv'
<1> DEFINE r == req[q].ref
           paid == tx[r].st = "success"
           m == IF req[q].task = NoTask
                THEN At("find", NoTask, r, tx[r].amount, paid)
                ELSE Verdict(req[q].task, req[q].amount, r, tx[r].amount, paid)
<1>1. /\ req[q].step = "ask" /\ Continue(q, m)
      /\ UNCHANGED <<task, tx, excused>>
  BY DEF PaystackAnswers
<1>2. r \in Refs /\ tx[r].amount \in Nat
  BY <1>1, Fields DEF PaymentInv, RequestsHold, RequestHolds
<1>3. CASE req[q].task = NoTask
  <2>1. "find" \in Steps
    BY DEF Steps
  <2>2. m \in Request /\ RequestHolds(m) /\ m.step \notin {"charge", "store"}
    BY <1>2, <1>3, <2>1 DEF At, Request, RequestHolds
  <2> QED
    BY <1>1, <2>2, RequestOnly
<1>4. CASE req[q].task # NoTask
  <2>1. req[q].task \in Tasks
    BY <1>4, Fields DEF PaymentInv
  <2>2. m \in Request /\ RequestHolds(m) /\ m.step \notin {"charge", "store"}
    BY <1>2, <1>4, <2>1, VerdictHolds
  <2> QED
    BY <1>1, <2>2, RequestOnly
<1> QED
  BY <1>3, <1>4

\* A success is delivered only of a successful charge.
LEMMA WebhookStep ==
    ASSUME PaymentInv, NEW q \in Slots, NEW r \in Refs, WebhookSuccess(q, r)
    PROVE  PaymentInv'
<1> DEFINE m == At("find", NoTask, r, tx[r].amount, TRUE)
<1>1. "find" \in Steps /\ tx[r].amount \in Nat /\ tx[r].st = "success"
  BY Fields DEF Steps, PaymentInv, WebhookSuccess
<1>2. m \in Request /\ RequestHolds(m) /\ m.step \notin {"charge", "store"}
  BY <1>1 DEF At, Request, RequestHolds
<1> QED
  BY <1>2, RequestOnly DEF WebhookSuccess, Begin

\* The row found for a reference is that of its campaign, or there is none.
LEMMA FindStep ==
    ASSUME PaymentInv, NEW q \in Slots, FindTask(q)
    PROVE  PaymentInv'
<1> DEFINE r == req[q].ref
           t == r.task
           m == IF task[t].pay = "PAID" THEN Idle
                ELSE Verdict(t, task[t].total, r, req[q].amount, req[q].paid)
<1>1. /\ req[q].step = "find" /\ Continue(q, m)
      /\ UNCHANGED <<task, tx, excused>>
  BY DEF FindTask
<1>2. /\ r \in Refs /\ t \in Tasks /\ req[q].paid \in BOOLEAN
      /\ req[q].paid => tx[r].st = "success"
  BY <1>1, Fields DEF PaymentInv, RequestsHold, RequestHolds
<1>3. m \in Request /\ RequestHolds(m) /\ m.step \notin {"charge", "store"}
  BY <1>2, VerdictHolds, IdleHolds
<1> QED
  BY <1>1, <1>3, RequestOnly

\* A publication that passed its guards is of a campaign that was charged.
LEMMA PublishStep ==
    ASSUME PaymentInv, NEW q \in Slots, NEW t \in Tasks, PublishTask(q, t)
    PROVE  PaymentInv'
<1> DEFINE m == At("activate", t, NoRef, 0, FALSE)
<1>1. "activate" \in Steps
  BY DEF Steps
<1>2. Charged(t)
  BY DEF PublishTask, PaymentInv, PaidByItsCharge, Charged
<1>3. m \in Request /\ RequestHolds(m) /\ m.step \notin {"charge", "store"}
  BY <1>1, <1>2 DEF At, Request, RequestHolds
<1> QED
  BY <1>3, RequestOnly DEF PublishTask, Begin

\* An update prices a campaign with an amount.
LEMMA UpdateStep ==
    ASSUME PaymentInv, NEW q \in Slots, NEW t \in Tasks, NEW a \in Amounts,
           UpdateTask(q, t, a)
    PROVE  PaymentInv'
<1> DEFINE m == At("rewrite", t, NoRef, a, FALSE)
<1>1. "rewrite" \in Steps /\ a \in Nat
  BY PaymentAssumption DEF Steps
<1>2. m \in Request /\ RequestHolds(m) /\ m.step \notin {"charge", "store"}
  BY <1>1 DEF At, Request, RequestHolds
<1> QED
  BY <1>2, RequestOnly DEF UpdateTask, Begin

-----------------------------------------------------------------------------
\* Statements that write the tables.

\* Paystack's side: a transaction that is not successful changes, and neither
\* loses nor gains an offer of its checkout page.
LEMMA TransactionStep ==
    ASSUME PaymentInv, NEW r \in Refs, NEW m \in Transaction,
           tx' = [tx EXCEPT ![r] = m],
           tx[r].st = "success" => m.st = "success",
           r \in Offered <=> m.st \in {"open", "failed", "success"},
           UNCHANGED <<task, req, excused>>
    PROVE  PaymentInv'
<1> USE DEF PaymentInv
<1>1. /\ tx' \in [Refs -> Transaction]
      /\ tx'[r] = m
      /\ \A s \in Refs : s # r => tx'[s] = tx[s]
  BY DEF TypeOK
<1>2. \A s \in Refs : tx[s].st = "success" => tx'[s].st = "success"
  BY <1>1
<1>3. Offered' = Offered
  BY <1>1 DEF Offered
<1>4. TypeOK'
  BY <1>1 DEF TypeOK
<1>5. RequestsHold'
  BY <1>2 DEF RequestsHold, RequestHolds, Charged
<1> QED
  BY <1>2, <1>3, <1>4, <1>5
  DEF RowsHold, SingleCheckout, PaidByItsCharge, PublishedWasCharged, Charged

\* Paying and declining disturb no handler: a success is never taken back.
LEMMA CheckoutStep ==
    ASSUME PaymentInv, NEW r \in Refs, PayCheckout(r) \/ DeclineCheckout(r)
    PROVE  PaymentInv'
<1>1. tx[r] \in Transaction
  BY DEF PaymentInv, TypeOK
<1>2. CASE PayCheckout(r)
  <2> DEFINE m == [tx[r] EXCEPT !.st = "success"]
  <2>1. m \in Transaction /\ m.st = "success"
    BY <1>1 DEF Transaction
  <2>2. r \in Offered /\ tx' = [tx EXCEPT ![r] = m]
    BY <1>2 DEF PayCheckout, Offered
  <2> QED
    BY <1>2, <2>1, <2>2, TransactionStep DEF PayCheckout
<1>3. CASE DeclineCheckout(r)
  <2> DEFINE m == [tx[r] EXCEPT !.st = "failed", !.declined = TRUE]
  <2>1. m \in Transaction /\ m.st = "failed"
    BY <1>1 DEF Transaction
  <2>2. r \in Offered /\ tx[r].st # "success"
    BY <1>3 DEF DeclineCheckout, Offered
  <2>3. tx' = [tx EXCEPT ![r] = m]
    BY <1>3 DEF DeclineCheckout
  <2> QED
    BY <1>3, <2>1, <2>2, <2>3, TransactionStep DEF DeclineCheckout
<1> QED
  BY <1>2, <1>3

\* Paystack is given the one reference of a campaign that is not excused.
LEMMA InitializeStep ==
    ASSUME PaymentInv, NEW q \in Slots, InitializeAtPaystack(q)
    PROVE  PaymentInv'
<1> USE DEF PaymentInv
<1> DEFINE r == req[q].ref
           m == [req[q] EXCEPT !.step = "store"]
<1>1. /\ req[q].step = "charge" /\ tx[r].st # "success"
      /\ Continue(q, m)
      /\ UNCHANGED <<task, excused>>
  BY DEF InitializeAtPaystack
<1>2. r \in Refs /\ r.task = req[q].task
  BY <1>1 DEF RequestsHold, RequestHolds
<1>3. m \in Request /\ m.step = "store" /\ m.task = req[q].task /\ m.ref = r
  BY Fields DEF Request, Steps
<1>4. PICK a \in Nat :
         tx' = [tx EXCEPT ![r] = [st |-> IF tx[r].st = "none" THEN "issued" ELSE tx[r].st,
                                  amount |-> a, declined |-> tx[r].declined]]
  BY <1>2, Fields DEF InitializeAtPaystack
<1> HIDE DEF m
<1>5. /\ tx' \in [Refs -> Transaction]
      /\ \A s \in Refs : s # r => tx'[s] = tx[s]
      /\ tx'[r].st = IF tx[r].st = "none" THEN "issued" ELSE tx[r].st
  <2>1. [st |-> IF tx[r].st = "none" THEN "issued" ELSE tx[r].st,
         amount |-> a, declined |-> tx[r].declined] \in Transaction
    BY <1>2, Fields DEF Transaction
  <2> QED
    BY <1>2, <1>4, <2>1 DEF TypeOK
<1>6. /\ req' \in [Slots -> Request]
      /\ req'[q] = m
      /\ \A p \in Slots : p # q => req'[p] = req[p]
  BY <1>1, <1>3, ContinueSlot
<1>7. TypeOK'
  BY <1>1, <1>5, <1>6 DEF TypeOK
<1>8. \A s \in Refs : tx[s].st = "success" <=> tx'[s].st = "success"
  BY <1>1, <1>5
<1>9. RequestsHold'
  BY <1>1, <1>2, <1>3, <1>6, <1>8 DEF RequestsHold, RequestHolds, Charged
<1>10. Offered' = Offered
  BY <1>5 DEF Offered
<1>11. SingleCheckout'
  BY <1>1, <1>3, <1>6, <1>10 DEF SingleCheckout
<1> QED
  BY <1>1, <1>7, <1>8, <1>9, <1>11
  DEF RowsHold, PaidByItsCharge, PublishedWasCharged, Charged

\* The reference stored is the one offered to the creator.
LEMMA StoreStep ==
    ASSUME PaymentInv, NEW q \in Slots, StoreReference(q)
    PROVE  PaymentInv'
<1> USE DEF PaymentInv
<1> DEFINE t == req[q].task
           r == req[q].ref
<1>1. /\ req[q].step = "store"
      /\ task' = [task EXCEPT ![t].ref = r, ![t].pay = "PENDING"]
      /\ tx' = [tx EXCEPT ![r].st = IF @ = "issued" THEN "open" ELSE @]
      /\ Continue(q, Idle) /\ excused' = excused
  BY DEF StoreReference, Return
<1>2. t \in Tasks /\ r \in Refs /\ r.task = t
  BY <1>1 DEF RequestsHold, RequestHolds
<1>3. /\ task' \in [Tasks -> TaskRow]
      /\ task'[t].ref = r /\ task'[t].pay = "PENDING" /\ task'[t].status = task[t].status
      /\ \A u \in Tasks : u # t => task'[u] = task[u]
  BY <1>1, <1>2 DEF TypeOK, TaskRow, PaymentStatus
<1>4. /\ tx' \in [Refs -> Transaction]
      /\ \A s \in Refs : s # r => tx'[s] = tx[s]
      /\ tx'[r].st = IF tx[r].st = "issued" THEN "open" ELSE tx[r].st
  BY <1>1, <1>2 DEF TypeOK, Transaction
<1>5. /\ req' \in [Slots -> Request]
      /\ req'[q] = Idle
      /\ \A p \in Slots : p # q => req'[p] = req[p]
  BY <1>1, IdleHolds, ContinueSlot
<1>6. TypeOK'
  BY <1>1, <1>3, <1>4, <1>5 DEF TypeOK
<1>7. \A s \in Refs : tx[s].st = "success" => tx'[s].st = "success"
  BY <1>4
<1>8. RequestsHold'
  BY <1>5, <1>7, IdleHolds DEF RequestsHold, RequestHolds, Charged
<1>9. RowsHold'
  BY <1>1, <1>2, <1>3 DEF RowsHold
<1>10. Offered' \subseteq Offered \cup {r}
  BY <1>4 DEF Offered
<1>11. SingleCheckout'
  <2>1. r # NoRef
    BY <1>2, PaymentAssumption
  <2>2. t \notin excused => \A s \in Offered : s.task = t => s = r
    BY <1>1, <1>2, <2>1, PaymentAssumption DEF SingleCheckout, Offered
  <2>3. t \notin excused =>
           \A p \in Slots : ~(req'[p].step \in {"charge", "store"} /\ req'[p].task = t)
    BY <1>1, <1>2, <1>5, IdleHolds DEF SingleCheckout
  <2> QED
    BY <1>1, <1>2, <1>3, <1>5, <1>10, <2>2, <2>3, IdleHolds DEF SingleCheckout
<1>12. PaidByItsCharge'
  BY <1>3, <1>7 DEF PaidByItsCharge
<1>13. PublishedWasCharged'
  BY <1>3, <1>7 DEF PublishedWasCharged, Charged
<1> QED
  BY <1>6, <1>8, <1>9, <1>11, <1>12, <1>13

\* A row is marked PAID by a handler that holds its successful reference.
LEMMA MarkPaidStep ==
    ASSUME PaymentInv, NEW q \in Slots, MarkPaid(q)
    PROVE  PaymentInv'
<1> USE DEF PaymentInv
<1> DEFINE t == req[q].task
           r == req[q].ref
<1>1. /\ req[q].step = "mark"
      /\ task' = [task EXCEPT ![t].pay = "PAID", ![t].ref = r]
      /\ Continue(q, Idle) /\ UNCHANGED <<tx, excused>>
  BY DEF MarkPaid, Return
<1>2. t \in Tasks /\ r \in Refs /\ r.task = t /\ tx[r].st = "success"
  BY <1>1 DEF RequestsHold, RequestHolds
<1>3. /\ task' \in [Tasks -> TaskRow]
      /\ task'[t].ref = r /\ task'[t].pay = "PAID" /\ task'[t].status = task[t].status
      /\ \A u \in Tasks : u # t => task'[u] = task[u]
  BY <1>1, <1>2 DEF TypeOK, TaskRow, PaymentStatus
<1>4. /\ req' \in [Slots -> Request]
      /\ req'[q] = Idle
      /\ \A p \in Slots : p # q => req'[p] = req[p]
  BY <1>1, IdleHolds, ContinueSlot
<1>5. TypeOK'
  BY <1>1, <1>3, <1>4 DEF TypeOK
<1>6. RequestsHold'
  BY <1>1, <1>4, IdleHolds DEF RequestsHold, RequestHolds, Charged
<1>7. RowsHold'
  BY <1>1, <1>2, <1>3 DEF RowsHold
<1>8. SingleCheckout'
  <2>1. t \notin excused => task'[t].ref = task[t].ref
    BY <1>2, <1>3 DEF SingleCheckout, Offered
  <2> QED
    BY <1>1, <1>3, <1>4, <2>1, IdleHolds DEF SingleCheckout, Offered
<1>9. PaidByItsCharge'
  <2> SUFFICES ASSUME NEW u \in Tasks, task'[u].pay = "PAID"
               PROVE  /\ task'[u].ref \in Refs
                      /\ task'[u].ref.task = u
                      /\ tx[task'[u].ref].st = "success"
    BY <1>1 DEF PaidByItsCharge
  <2> QED
    BY <1>2, <1>3 DEF PaidByItsCharge
<1>10. PublishedWasCharged'
  BY <1>1, <1>3 DEF PublishedWasCharged, Charged
<1> QED
  BY <1>5, <1>6, <1>7, <1>8, <1>9, <1>10

\* A recorded failure, by verification or by webhook.
LEMMA FailStep ==
    ASSUME PaymentInv, NEW t \in Tasks,
           task' = [task EXCEPT ![t].pay = "FAILED"],
           excused' = excused \cup {t}, UNCHANGED tx,
           req' = req \/ \E q \in Slots : Return(q)
    PROVE  PaymentInv'
<1> USE DEF PaymentInv
<1>1. /\ task' \in [Tasks -> TaskRow]
      /\ task'[t].pay = "FAILED"
      /\ \A u \in Tasks : /\ task'[u].status = task[u].status
                          /\ task'[u].ref = task[u].ref
                          /\ u # t => task'[u].pay = task[u].pay
  BY DEF TypeOK, TaskRow, PaymentStatus
<1>2. /\ req' \in [Slots -> Request]
      /\ \A p \in Slots : req'[p] \in {req[p], Idle}
  BY IdleHolds, ContinueSlot DEF Return, TypeOK
<1>3. TypeOK'
  BY <1>1, <1>2 DEF TypeOK
<1>4. RequestsHold'
  <2> SUFFICES ASSUME NEW p \in Slots
               PROVE  RequestHolds(req[p])'
    BY DEF RequestsHold
  <2>1. CASE req'[p] = Idle
    BY <2>1, IdleHolds DEF RequestHolds
  <2>2. CASE req'[p] = req[p]
    BY <2>2 DEF RequestsHold, RequestHolds, Charged
  <2> QED
    BY <1>2, <2>1, <2>2
<1>5. RowsHold'
  BY <1>1 DEF RowsHold
<1>6. SingleCheckout'
  BY <1>1, <1>2, IdleHolds DEF SingleCheckout, Offered
<1>7. PaidByItsCharge' /\ PublishedWasCharged'
  BY <1>1 DEF PaidByItsCharge, PublishedWasCharged, Charged
<1> QED
  BY <1>3, <1>4, <1>5, <1>6, <1>7

\* A row that is marked FAILED excuses its campaign.
LEMMA MarkFailedStep ==
    ASSUME PaymentInv,
           \/ \E q \in Slots : MarkFailed(q)
           \/ \E r \in Refs : WebhookFailed(r)
    PROVE  PaymentInv'
<1>1. CASE \E q \in Slots : MarkFailed(q)
  <2>1. PICK q \in Slots : MarkFailed(q)
    BY <1>1
  <2>2. req[q].task \in Tasks
    BY <2>1 DEF MarkFailed, PaymentInv, RequestsHold, RequestHolds
  <2> QED
    BY <2>1, <2>2, FailStep DEF MarkFailed
<1>2. CASE \E r \in Refs : WebhookFailed(r)
  <2>1. PICK r \in Refs : WebhookFailed(r)
    BY <1>2
  <2>2. r.task \in Tasks
    BY DEF Refs
  <2> QED
    BY <2>1, <2>2, FailStep DEF WebhookFailed
<1> QED
  BY <1>1, <1>2

\* Activation and repricing touch neither the payment nor the reference.
LEMMA RowStep ==
    ASSUME PaymentInv, NEW q \in Slots, Activate(q) \/ Rewrite(q)
    PROVE  PaymentInv'
<1> USE DEF PaymentInv
<1> DEFINE t == req[q].task
<1>1. /\ t \in Tasks
      /\ Continue(q, Idle) /\ UNCHANGED <<tx, excused>>
  BY DEF Activate, Rewrite, Return, RequestsHold, RequestHolds
<1>2. /\ task' \in [Tasks -> TaskRow]
      /\ \A u \in Tasks : task'[u].ref = task[u].ref /\ task'[u].pay = task[u].pay
      /\ \A u \in Tasks : \/ task'[u].status = task[u].status
                          \/ task'[u].status = "ACTIVE" /\ Charged(u)
  <2>1. CASE Activate(q)
    <3>1. task' = [task EXCEPT ![t].status = "ACTIVE"] /\ Charged(t)
      BY <2>1 DEF Activate, RequestsHold, RequestHolds
    <3>2. "ACTIVE" \in TaskStatus
      BY DEF TaskStatus
    <3> QED
      BY <1>1, <3>1, <3>2 DEF TypeOK, TaskRow
  <2>2. CASE Rewrite(q)
    <3>1. task' = [task EXCEPT ![t].total = req[q].amount] /\ req[q].amount \in Amounts
      BY <2>2 DEF Rewrite, RequestsHold, RequestHolds
    <3> QED
      BY <1>1, <3>1 DEF TypeOK, TaskRow
  <2> QED
    BY <2>1, <2>2
<1>3. /\ req' \in [Slots -> Request]
      /\ req'[q] = Idle
      /\ \A p \in Slots : p # q => req'[p] = req[p]
  BY <1>1, IdleHolds, ContinueSlot
<1>4. TypeOK'
  BY <1>1, <1>2, <1>3 DEF TypeOK
<1>5. RequestsHold'
  BY <1>1, <1>3, IdleHolds DEF RequestsHold, RequestHolds, Charged
<1>6. RowsHold'
  BY <1>1, <1>2 DEF RowsHold
<1>7. SingleCheckout'
  BY <1>1, <1>2, <1>3, IdleHolds DEF SingleCheckout, Offered
<1>8. PaidByItsCharge' /\ PublishedWasCharged'
  BY <1>1, <1>2 DEF PaidByItsCharge, PublishedWasCharged, Charged
<1> QED
  BY <1>4, <1>5, <1>6, <1>7, <1>8

-----------------------------------------------------------------------------
\* The invariant is established, kept by every step, and implies the properties.

\* A table of unpaid drafts satisfies the invariant.
LEMMA PaymentInit == Init => PaymentInv
<1> SUFFICES ASSUME Init PROVE PaymentInv
  OBVIOUS
<1>1. TypeOK
  <2>1. Drafts \subseteq TaskRow
    BY DEF Drafts, TaskRow, TaskStatus, PaymentStatus
  <2>2. tx \in [Refs -> Transaction]
    BY DEF Init, Transaction
  <2> QED
    BY <2>1, <2>2, IdleHolds DEF Init, TypeOK
<1>2. \A t \in Tasks : task[t].status = "DRAFT" /\ task[t].pay = "PENDING" /\ task[t].ref = NoRef
  BY DEF Init, Drafts
<1>3. /\ \A q \in Slots : req[q].step = "idle" /\ RequestHolds(req[q])
      /\ \A r \in Refs : tx[r].st = "none"
  BY IdleHolds DEF Init
<1> QED
  BY <1>1, <1>2, <1>3
  DEF PaymentInv, RequestsHold, RowsHold, SingleCheckout, Offered, PaidByItsCharge,
      PublishedWasCharged

\* One case per action.
LEMMA PaymentStep == PaymentInv /\ [Next]_vars => PaymentInv'
<1> SUFFICES ASSUME PaymentInv, [Next]_vars
             PROVE  PaymentInv'
  OBVIOUS
<1>1. CASE Paystack
  BY <1>1, CheckoutStep, MarkFailedStep, WebhookStep DEF Paystack
<1>2. ASSUME NEW q \in Slots, Creator(q)
      PROVE  PaymentInv'
  BY <1>2, InitiateStep, VerifyStep, PublishStep, UpdateStep DEF Creator
<1>3. ASSUME NEW q \in Slots, Handler(q)
      PROVE  PaymentInv'
  BY <1>3, InitializeStep, StoreStep, AnswerStep, FindStep, MarkPaidStep, MarkFailedStep,
     RowStep DEF Handler
<1>4. ASSUME NEW q \in Slots, Abandon(q)
      PROVE  PaymentInv'
  BY <1>4, ReturnStep DEF Abandon
<1>5. CASE UNCHANGED vars
  BY <1>5 DEF vars, PaymentInv, TypeOK, RequestsHold, RequestHolds, RowsHold,
     SingleCheckout, Offered, PaidByItsCharge, PublishedWasCharged, Charged
<1> QED
  BY <1>1, <1>2, <1>3, <1>4, <1>5 DEF Next

\* What the handlers in flight hold stays true of the tables they will write, in
\* every interleaving of checkouts, verifications, webhooks and edits.
THEOREM PaymentInvariant == Spec => []PaymentInv
  BY PaymentInit, PaymentStep, PTL DEF Spec

\* The tables and the handlers' records stay well formed.
THEOREM PaymentTypes == Spec => []TypeOK
<1>1. PaymentInv => TypeOK
  BY DEF PaymentInv
<1> QED
  BY <1>1, PaymentInvariant, PTL

\* A PAID campaign carries the reference of its own successful charge.
THEOREM PaidIsCharged == Spec => []PaidByItsCharge
<1>1. PaymentInv => PaidByItsCharge
  BY DEF PaymentInv
<1> QED
  BY <1>1, PaymentInvariant, PTL

\* No campaign leaves DRAFT without a successful charge of its creator.
THEOREM PublishedIsCharged == Spec => []PublishedWasCharged
<1>1. PaymentInv => PublishedWasCharged
  BY DEF PaymentInv
<1> QED
  BY <1>1, PaymentInvariant, PTL

\* A creator is charged at most once for a campaign unless a failure was recorded
\* or two initiations of its payment were in flight at once.
THEOREM NoDoubleCharge == Spec => []ChargedOnce
<1>1. PaymentInv => ChargedOnce
  BY Fields DEF PaymentInv, SingleCheckout, Offered, ChargedOnce
<1> QED
  BY <1>1, PaymentInvariant, PTL
=============================================================================
