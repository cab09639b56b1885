------------------------------ MODULE Payment ------------------------------
(***************************************************************************)
(* Paying for a campaign and publishing it (tasks.service.ts).  A campaign  *)
(* is a row of the tasks table; its creator opens a checkout at Paystack,   *)
(* pays it outside the system, and the row is marked PAID when the creator  *)
(* asks for verification or when Paystack delivers a webhook.  Only a PAID  *)
(* row may be published.                                                    *)
(*                                                                          *)
(* No handler holds a lock or a transaction: between the statement that     *)
(* reads the row and the one that writes it, every other handler may run.   *)
(* A handler in flight is a slot of req, which keeps what the handler read. *)
(***************************************************************************)
EXTENDS Integers, FiniteSets

CONSTANTS
    Tasks,      \* campaigns
    Stamps,     \* readings of Date.now() used in payment references
    Amounts,    \* what a campaign may cost its creator, in kobo
    Slots,      \* handlers in flight at the same time
    NoTask, NoRef

\* TASK_<Date.now()>_<task id>: a reference names its task.
Refs == [task : Tasks, at : Stamps]

ASSUME PaymentAssumption ==
    /\ Amounts \subseteq Nat
    /\ NoTask \notin Tasks
    /\ NoRef \notin Refs

VARIABLES
    task,       \* the tasks table
    tx,         \* Paystack's transactions, by reference
    req,        \* the handlers in flight
    excused     \* history: tasks marked FAILED at some time, or with two
                \* initiations in flight at once

vars == <<task, tx, req, excused>>

TaskStatus == {"DRAFT", "ACTIVE", "PAUSED", "COMPLETED", "EXPIRED", "TERMINATED"}
PaymentStatus == {"PENDING", "PAID", "FAILED", "REFUNDED"}

TaskRow == [status : TaskStatus, pay : PaymentStatus,
            ref : Refs \cup {NoRef}, total : Amounts]

\* "issued": known to Paystack, its checkout page not yet handed to the creator.
Transaction == [st : {"none", "issued", "open", "failed", "success"},
                amount : Nat, declined : BOOLEAN]

Steps == {"idle", "charge", "store", "ask", "find", "mark", "fail",
          "activate", "rewrite"}

Request == [step : Steps, task : Tasks \cup {NoTask}, ref : Refs \cup {NoRef},
            amount : Nat, paid : BOOLEAN]

At(step, t, r, a, paid) ==
    [step |-> step, task |-> t, ref |-> r, amount |-> a, paid |-> paid]

Idle == At("idle", NoTask, NoRef, 0, FALSE)

TypeOK ==
    /\ task \in [Tasks -> TaskRow]
    /\ tx \in [Refs -> Transaction]
    /\ req \in [Slots -> Request]
    /\ excused \subseteq Tasks

\* A created campaign: DRAFT, payment PENDING, priced.
Drafts == {[status |-> "DRAFT", pay |-> "PENDING", ref |-> NoRef, total |-> a] :
              a \in Amounts}

Init ==
    /\ task \in [Tasks -> Drafts]
    /\ tx = [r \in Refs |-> [st |-> "none", amount |-> 0, declined |-> FALSE]]
    /\ req = [q \in Slots |-> Idle]
    /\ excused = {}

\* The handler of q goes on to the request record m.
Continue(q, m) == req' = [req EXCEPT ![q] = m]

Begin(q, m) == req[q].step = "idle" /\ Continue(q, m)

Return(q) == Continue(q, Idle)

-----------------------------------------------------------------------------
(* initiatePayment                                                          *)

\* A PENDING reference is reused, otherwise a new one is stamped.
CheckoutRefs(t) ==
    IF task[t].ref # NoRef /\ task[t].pay = "PENDING"
    THEN {task[t].ref}
    ELSE {r \in Refs : r.task = t /\ tx[r].st = "none"}

Initiating(t) == \E q \in Slots : req[q].step \in {"charge", "store"} /\ req[q].task = t

\* Mutant: a campaign that is paid already may be charged again.
InitiatePaidToo(q, t, r) ==
    /\ task[t].status = "DRAFT"
    /\ r \in CheckoutRefs(t)
    /\ Begin(q, At("charge", t, r, task[t].total, FALSE))
    /\ excused' = IF Initiating(t) THEN excused \cup {t} ELSE excused
    /\ UNCHANGED <<task, tx>>

InitiatePayment(q, t, r) ==
    /\ task[t].pay # "PAID"
    /\ task[t].status = "DRAFT"
    /\ r \in CheckoutRefs(t)
    /\ Begin(q, At("charge", t, r, task[t].total, FALSE))
    /\ excused' = IF Initiating(t) THEN excused \cup {t} ELSE excused
    /\ UNCHANGED <<task, tx>>

\* Paystack opens the transaction.  Initializing again a reference it knows
\* either keeps or replaces the amount; a paid reference is refused (Abandon).
InitializeAtPaystack(q) ==
    LET r == req[q].ref
        old == tx[r]
    IN  /\ req[q].step = "charge"
        /\ old.st # "success"
        /\ \E a \in (IF old.st = "none" THEN {} ELSE {old.amount}) \cup {req[q].amount} :
              tx' = [tx EXCEPT ![r] =
                        [st |-> IF old.st = "none" THEN "issued" ELSE old.st,
                         amount |-> a, declined |-> old.declined]]
        /\ Continue(q, [req[q] EXCEPT !.step = "store"])
        /\ UNCHANGED <<task, excused>>

\* The reference and its URL are stored whatever the row holds by now.
StoreReference(q) ==
    LET t == req[q].task
        r == req[q].ref
    IN  /\ req[q].step = "store"
        /\ task' = [task EXCEPT ![t].ref = r, ![t].pay = "PENDING"]
        /\ tx' = [tx EXCEPT ![r].st = IF @ = "issued" THEN "open" ELSE @]
        /\ Return(q)
        /\ UNCHANGED excused

-----------------------------------------------------------------------------
(* The creator at Paystack's checkout page (external)                       *)

PayCheckout(r) ==
    /\ tx[r].st \in {"open", "failed"}
    /\ tx' = [tx EXCEPT ![r].st = "success"]
    /\ UNCHANGED <<task, req, excused>>

DeclineCheckout(r) ==
    /\ tx[r].st = "open"
    /\ tx' = [tx EXCEPT ![r].st = "failed", ![r].declined = TRUE]
    /\ UNCHANGED <<task, req, excused>>

-----------------------------------------------------------------------------
(* verifyPayment and handlePaymentWebhook                                   *)

\* assertPaystackVerificationMatchesTask: the amount, within one kobo, and the
\* task named by the metadata.
Matches(t, total, r, amount) ==
    /\ amount - total \in -1 .. 1
    /\ r.task = t

\* Mutant: the status Paystack reports is not looked at.
VerdictByAmount(t, total, r, amount, paid) ==
    IF Matches(t, total, r, amount) THEN At("mark", t, r, 0, TRUE) ELSE Idle

\* Mutant: what was charged is not compared with the price in the row.
VerdictByStatus(t, total, r, amount, paid) ==
    IF ~paid THEN At("fail", t, r, 0, FALSE) ELSE At("mark", t, r, 0, TRUE)

\* What follows Paystack's answer, given the row as it was read.
Verdict(t, total, r, amount, paid) ==
    IF ~paid THEN At("fail", t, r, 0, FALSE)
    ELSE IF Matches(t, total, r, amount) THEN At("mark", t, r, 0, TRUE)
    ELSE Idle

\* The row found by reference is the snapshot; a PAID one ends the request.
VerifyPayment(q, t, r) ==
    /\ tx[r].st \in {"open", "failed", "success"}
    /\ task[t].ref = r
    /\ task[t].pay # "PAID"
    /\ Begin(q, At("ask", t, r, task[t].total, FALSE))
    /\ UNCHANGED <<task, tx, excused>>

\* No row holds the reference (it was overwritten): Paystack is asked first.
VerifyOverwritten(q, r) ==
    /\ tx[r].st \in {"open", "failed", "success"}
    /\ \A t \in Tasks : task[t].ref # r
    /\ Begin(q, At("ask", NoTask, r, 0, FALSE))
    /\ UNCHANGED <<task, tx, excused>>

PaystackAnswers(q) ==
    LET r == req[q].ref
        paid == tx[r].st = "success"
    IN  /\ req[q].step = "ask"
        /\ Continue(q, IF req[q].task = NoTask
                       THEN At("find", NoTask, r, tx[r].amount, paid)
                       ELSE Verdict(req[q].task, req[q].amount, r, tx[r].amount, paid))
        /\ UNCHANGED <<task, tx, excused>>

\* charge.success: delivered any number of times (Delivery); the charge is looked up at
\* Paystack, whose answer for a paid reference no longer changes.
WebhookSuccess(q, r) ==
    /\ tx[r].st = "success"
    /\ Begin(q, At("find", NoTask, r, tx[r].amount, TRUE))
    /\ UNCHANGED <<task, tx, excused>>

\* Mutant: a row marked FAILED is taken for settled.
FindPendingTask(q) ==
    LET r == req[q].ref
        t == r.task
    IN  /\ req[q].step = "find"
        /\ Continue(q, IF task[t].pay # "PENDING" THEN Idle
                       ELSE Verdict(t, task[t].total, r, req[q].amount, req[q].paid))
        /\ UNCHANGED <<task, tx, excused>>

\* findTaskForPayment, by the task id in the charge's metadata.
FindTask(q) ==
    LET r == req[q].ref
        t == r.task
    IN  /\ req[q].step = "find"
        /\ Continue(q, IF task[t].pay = "PAID" THEN Idle
                       ELSE Verdict(t, task[t].total, r, req[q].amount, req[q].paid))
        /\ UNCHANGED <<task, tx, excused>>

MarkPaid(q) ==
    /\ req[q].step = "mark"
    /\ task' = [task EXCEPT ![req[q].task].pay = "PAID",
                            ![req[q].task].ref = req[q].ref]
    /\ Return(q)
    /\ UNCHANGED <<tx, excused>>

MarkFailed(q) ==
    /\ req[q].step = "fail"
    /\ task' = [task EXCEPT ![req[q].task].pay = "FAILED"]
    /\ excused' = excused \cup {req[q].task}
    /\ Return(q)
    /\ UNCHANGED tx

\* charge.failed: late, repeated, and written whatever the row holds.
WebhookFailed(r) ==
    /\ tx[r].declined
    /\ task' = [task EXCEPT ![r.task].pay = "FAILED"]
    /\ excused' = excused \cup {r.task}
    /\ UNCHANGED <<tx, req>>

-----------------------------------------------------------------------------
(* publishTask and updateTask                                               *)

\* Mutant: the payment gate asks for a checkout, not for its payment.
PublishInitiated(q, t) ==
    /\ task[t].status \notin {"ACTIVE", "COMPLETED"}
    /\ task[t].ref # NoRef
    /\ task[t].total > 0
    /\ Begin(q, At("activate", t, NoRef, 0, FALSE))
    /\ UNCHANGED <<task, tx, excused>>

PublishTask(q, t) ==
    /\ task[t].status \notin {"ACTIVE", "COMPLETED"}
    /\ task[t].pay = "PAID"
    /\ task[t].total > 0
    /\ Begin(q, At("activate", t, NoRef, 0, FALSE))
    /\ UNCHANGED <<task, tx, excused>>

Activate(q) ==
    /\ req[q].step = "activate"
    /\ task' = [task EXCEPT ![req[q].task].status = "ACTIVE"]
    /\ Return(q)
    /\ UNCHANGED <<tx, excused>>

\* A change of a pricing field reprices the campaign, paid or not.
UpdateTask(q, t, a) ==
    /\ task[t].status # "COMPLETED"
    /\ Begin(q, At("rewrite", t, NoRef, a, FALSE))
    /\ UNCHANGED <<task, tx, excused>>

Rewrite(q) ==
    /\ req[q].step = "rewrite"
    /\ task' = [task EXCEPT ![req[q].task].total = req[q].amount]
    /\ Return(q)
    /\ UNCHANGED <<tx, excused>>

\* A handler dies between two statements: Paystack refuses or does not answer,
\* or the process is restarted.
Abandon(q) ==
    /\ req[q].step # "idle"
    /\ Return(q)
    /\ UNCHANGED <<task, tx, excused>>

-----------------------------------------------------------------------------
Creator(q) ==
    \/ \E t \in Tasks, r \in Refs : InitiatePayment(q, t, r)
    \/ \E t \in Tasks, r \in Refs : VerifyPayment(q, t, r)
    \/ \E r \in Refs : VerifyOverwritten(q, r)
    \/ \E t \in Tasks : PublishTask(q, t)
    \/ \E t \in Tasks, a \in Amounts : UpdateTask(q, t, a)

Handler(q) ==
    \/ InitializeAtPaystack(q) \/ StoreReference(q)
    \/ PaystackAnswers(q) \/ FindTask(q) \/ MarkPaid(q) \/ MarkFailed(q)
    \/ Activate(q) \/ Rewrite(q)

Paystack ==
    \E r \in Refs :
        \/ PayCheckout(r)
        \/ DeclineCheckout(r)
        \/ WebhookFailed(r)
        \/ \E q \in Slots : WebhookSuccess(q, r)

Next ==
    \/ Paystack
    \/ \E q \in Slots : Creator(q) \/ Handler(q) \/ Abandon(q)

Spec == Init /\ [][Next]_vars

-----------------------------------------------------------------------------
(* Properties                                                               *)

\* A campaign shown as PAID carries the reference of a charge that Paystack
\* holds as successful and that was opened for this very campaign, however the
\* verifications, webhooks and stale initiations of the campaign interleave
\* (verifyPayment, markTaskPaidFromPaystack, initiatePayment).
PaidByItsCharge ==
    \A t \in Tasks : task[t].pay = "PAID" =>
        /\ task[t].ref \in Refs
        /\ task[t].ref.task = t
        /\ tx[task[t].ref].st = "success"

Charged(t) == \E r \in Refs : r.task = t /\ tx[r].st = "success"

\* No campaign leaves DRAFT unless its creator was charged for it: the payment
\* gate of publishTask holds although the row it checked may be overwritten
\* before it activates the campaign.
PublishedWasCharged == \A t \in Tasks : task[t].status # "DRAFT" => Charged(t)

\* Reusing the PENDING reference is what keeps a creator from paying twice for
\* one campaign: two successful charges need a recorded failure or two
\* initiations in flight at once (initiatePayment).
ChargedOnce ==
    \A r, s \in Refs :
        /\ r.task = s.task /\ r.task \notin excused
        /\ tx[r].st = "success" /\ tx[s].st = "success"
        => r = s

\* The inductive invariant behind these properties: what the handlers in flight
\* hold, and what keeps a campaign that is not excused on a single reference.
RequestHolds(m) ==
    /\ m.step \in {"charge", "store", "mark", "fail", "activate", "rewrite"}
          => m.task \in Tasks
    /\ m.step \in {"charge", "store", "ask", "find", "mark"} => m.ref \in Refs
    /\ m.step \in {"charge", "store", "mark"} => m.ref.task = m.task
    /\ m.step = "rewrite" => m.amount \in Amounts
    /\ m.step = "mark" => tx[m.ref].st = "success"
    /\ m.step = "find" /\ m.paid => tx[m.ref].st = "success"
    /\ m.step = "activate" => Charged(m.task)

RequestsHold == \A q \in Slots : RequestHolds(req[q])

RowsHold ==
    \A t \in Tasks :
        /\ task[t].ref # NoRef => task[t].ref.task = t
        /\ task[t].pay = "FAILED" => t \in excused
        /\ task[t].pay = "REFUNDED" => task[t].status # "DRAFT"

Offered == {r \in Refs : tx[r].st \in {"open", "failed", "success"}}

SingleCheckout ==
    \A t \in Tasks \ excused :
        /\ \A r \in Offered : r.task = t => r = task[t].ref
        /\ \A q \in Slots :
              req[q].step \in {"charge", "store"} /\ req[q].task = t =>
                 /\ task[t].ref \in {NoRef, req[q].ref}
                 /\ \A p \in Slots :
                       req[p].step \in {"charge", "store"} /\ req[p].task = t => p = q

PaymentInv ==
    /\ TypeOK
    /\ RequestsHold
    /\ RowsHold
    /\ SingleCheckout
    /\ PaidByItsCharge
    /\ PublishedWasCharged

\* The charge IS the budget: a PAID campaign was charged what its row says it
\* costs, within a kobo (resolveChargeBreakdown).
PaidCoversTotal ==
    \A t \in Tasks : task[t].pay = "PAID" =>
        tx[task[t].ref].amount - task[t].total \in -1 .. 1
=============================================================================
