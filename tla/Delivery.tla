------------------------------ MODULE Delivery ------------------------------
(***************************************************************************)
(* Who sees to it that a charge is noticed: Paystack delivers charge.success *)
(* to POST /tasks/payment/webhook and delivers it again until it is answered *)
(* with a 2xx.  handlePaymentWebhook answers so when it returns, and with a  *)
(* 400 when anything in it throws, the comparison with the price included.   *)
(* Payment leaves open how often a delivery comes; here it need not come     *)
(* again once it was acknowledged.                                           *)
(***************************************************************************)
EXTENDS Payment

VARIABLES
    calls,      \* the handlers that are deliveries of charge.success
    acked       \* the charges Paystack got a 2xx for

deliveryVars == <<vars, calls, acked>>

DeliveryInit == Init /\ calls = {} /\ acked = {}

-----------------------------------------------------------------------------
\* A delivery, or another one.
Deliver(q, r) ==
    /\ WebhookSuccess(q, r)
    /\ calls' = calls \cup {q}
    /\ UNCHANGED acked

\* assertPaystackVerificationMatchesTask throws.
Refused(q) ==
    LET t == req[q].ref.task
    IN  task[t].pay # "PAID" /\ ~Matches(t, task[t].total, req[q].ref, req[q].amount)

\* The handler of a delivery comes to its end.
Serve(q) ==
    \/ MarkPaid(q)
    \/ FindTask(q) /\ req'[q].step = "idle" /\ ~Refused(q)

\* Its answer reaches Paystack.
Acknowledge(q) ==
    /\ q \in calls /\ Serve(q)
    /\ calls' = calls \ {q}
    /\ acked' = acked \cup {req[q].ref}

\* Everything else, a delivery whose answer gets lost included.
Proceed ==
    /\ Next
    /\ calls' = {q \in calls : req'[q].step # "idle"}
    /\ UNCHANGED acked

DeliveryNext ==
    \/ \E q \in Slots, r \in Refs : Deliver(q, r)
    \/ \E q \in Slots : Acknowledge(q)
    \/ Proceed

\* A charge that was not acknowledged is delivered again and again, no statement of the
\* handler fails every time it is tried, and no handler hangs.  Creators need do nothing,
\* and nothing is assumed of a charge that was acknowledged.
Fairness ==
    /\ \A q \in Slots : WF_deliveryVars((Handler(q) \/ Abandon(q)) /\ DeliveryNext)
    /\ \A r \in Refs :
          /\ SF_deliveryVars(r \notin acked /\ \E q \in Slots : Deliver(q, r))
          /\ \A q \in Slots :
                /\ SF_deliveryVars(req[q].ref = r /\ FindTask(q) /\ DeliveryNext)
                /\ SF_deliveryVars(req[q].ref = r /\ MarkPaid(q) /\ DeliveryNext)

FairSpec == DeliveryInit /\ [][DeliveryNext]_deliveryVars /\ Fairness

-----------------------------------------------------------------------------
\* No charge is forgotten: as long as a successful charge is not acknowledged, its
\* campaign will be marked PAID, or not cost any more what was charged, although handlers
\* crash, answers get lost and failure events arrive late (handlePaymentWebhook).  A
\* failure event after the acknowledgement takes PAID away for good.
ChargeRecognised ==
    \A r \in Refs :
        tx[r].st = "success" /\ r \notin acked ~>
            \/ task[r.task].pay = "PAID"
            \/ ~Matches(r.task, task[r.task].total, r, tx[r].amount)
=============================================================================
