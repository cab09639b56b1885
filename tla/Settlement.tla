----------------------------- MODULE Settlement -----------------------------
(***************************************************************************)
(* How a campaign's money comes back to its creator: pausing and ending a   *)
(* campaign settle the refund at once, terminating it holds the refund in a *)
(* request that an administrator processes (tasks.service.ts,               *)
(* admin.service.ts).  The module extends Payment: it works on the same     *)
(* task rows, while checkouts, webhooks and publications go on.             *)
(***************************************************************************)
EXTENDS Payment

CONSTANTS
    Terms,      \* ids of termination requests
    Desks,      \* settlement and admin handlers in flight at the same time
    FeePct,     \* CAMPAIGN_TERMINATION_FEE_PERCENTAGE
    Shares,     \* what a contributor payout may take
    PaidCap,    \* bound on the payouts of a campaign
    RefundCap,  \* bound on the refunds of a campaign
    NoTerm

ASSUME SettlementAssumption ==
    /\ FeePct \in 0 .. 100
    /\ Shares \subseteq Nat \ {0} /\ PaidCap \in Nat /\ RefundCap \in Nat
    /\ NoTerm \notin Terms

VARIABLES
    term,       \* campaign termination requests
    paid,       \* completed TASK_PAYOUT credits on the campaign's submissions
    refunds,    \* REFUND credits to the creator, by campaign
    desk,       \* settlement and admin handlers in flight
    credited,   \* history: refunds paid on account of a termination request
    disturbed   \* history: requests whose processing overlapped with another
                \* or died after the credit

settleVars == <<term, paid, refunds, desk, credited, disturbed>>
allVars == <<vars, settleVars>>

TermRow == [status : {"NONE", "PENDING", "PROCESSED", "CANCELLED"},
            task : Tasks \cup {NoTask}, net : Nat]

DeskSteps == {"idle", "list", "sum", "credit", "close", "hold", "terminate", "pay", "file"}
Ops == {"none", "pause", "end", "terminate", "PROCESSED", "CANCELLED"}

\* missed: what was paid by now for submissions the handler does not know of.
Desk == [step : DeskSteps, op : Ops, task : Tasks \cup {NoTask}, amount : Nat,
         term : Terms \cup {NoTerm}, missed : Nat]

Vacant == [step |-> "idle", op |-> "none", task |-> NoTask, amount |-> 0, term |-> NoTerm,
           missed |-> 0]

SettlementTypeOK ==
    /\ TypeOK
    /\ term \in [Terms -> TermRow]
    /\ paid \in [Tasks -> Nat]
    /\ refunds \in [Tasks -> Nat]
    /\ desk \in [Desks -> Desk]
    /\ credited \in [Terms -> Nat]
    /\ disturbed \subseteq Terms

SettlementInit ==
    /\ Init
    /\ term = [k \in Terms |-> [status |-> "NONE", task |-> NoTask, net |-> 0]]
    /\ paid = [t \in Tasks |-> 0]
    /\ refunds = [t \in Tasks |-> 0]
    /\ desk = [d \in Desks |-> Vacant]
    /\ credited = [k \in Terms |-> 0]
    /\ disturbed = {}

Take(d, op, step, t, a, k) ==
    /\ desk[d].step = "idle"
    /\ desk' = [desk EXCEPT ![d] =
                   [step |-> step, op |-> op, task |-> t, amount |-> a, term |-> k,
                    missed |-> 0]]

Leave(d) == desk' = [desk EXCEPT ![d] = Vacant]

\* The creator's wallet receives amount on account of campaign t.
Refund(t, amount) ==
    /\ refunds[t] + amount <= RefundCap
    /\ refunds' = [refunds EXCEPT ![t] = @ + amount]

-----------------------------------------------------------------------------
(* pauseTask, endTask, terminateTask                                        *)

PauseTask(d, t) ==
    /\ task[t].status = "ACTIVE"
    /\ Take(d, "pause", "list", t, task[t].total, NoTerm)
    /\ UNCHANGED <<vars, term, paid, refunds, credited, disturbed>>

\* Mutant: any campaign that is not completed may be ended, drafts included.
EndUnfinished(d, t) ==
    /\ task[t].status # "COMPLETED"
    /\ Take(d, "end", "list", t, task[t].total, NoTerm)
    /\ UNCHANGED <<vars, term, paid, refunds, credited, disturbed>>

EndTask(d, t) ==
    /\ task[t].status \in {"ACTIVE", "PAUSED"}
    /\ Take(d, "end", "list", t, task[t].total, NoTerm)
    /\ UNCHANGED <<vars, term, paid, refunds, credited, disturbed>>

TerminateTask(d, t) ==
    /\ task[t].status \in {"ACTIVE", "PAUSED"}
    /\ Take(d, "terminate", "list", t, task[t].total, NoTerm)
    /\ UNCHANGED <<vars, term, paid, refunds, credited, disturbed>>

\* Mutant: what contributors were paid by now is returned to the creator as well.
RemainingOfAll(budget, out) == budget

\* The budget of the snapshot less what contributors were paid by now, at least 0.
Remaining(budget, out) == IF out < budget THEN budget - out ELSE 0

\* The ids of the campaign's submissions are read, and then the payouts on these ids
\* are summed: what is paid in between for a submission made in between is missed.
\* (Without submissions there is no second read, and no payout it could find.)
ListSubmissions(d) ==
    /\ desk[d].step = "list"
    /\ desk' = [desk EXCEPT ![d].step = "sum"]
    /\ UNCHANGED <<vars, term, paid, refunds, credited, disturbed>>

SumPayouts(d) ==
    LET rest == Remaining(desk[d].amount, paid[desk[d].task] - desk[d].missed)
    IN  /\ desk[d].step = "sum"
        /\ desk' = [desk EXCEPT
                       ![d].amount = rest, ![d].missed = 0,
                       ![d].step = IF desk[d].op = "terminate" THEN "hold"
                                   ELSE IF rest > 0 THEN "credit" ELSE "close"]
        /\ UNCHANGED <<vars, term, paid, refunds, credited, disturbed>>

CreditRefund(d) ==
    /\ desk[d].step = "credit"
    /\ Refund(desk[d].task, desk[d].amount)
    /\ desk' = [desk EXCEPT ![d].step = "close"]
    /\ UNCHANGED <<vars, term, paid, credited, disturbed>>

\* Mutant: the handler writes its own name for the new status.
CloseWithName(d) ==
    LET t == desk[d].task
    IN  /\ desk[d].step = "close"
        /\ task' = [task EXCEPT
                       ![t].status = IF desk[d].op = "pause" THEN "PAUSED" ELSE "ENDED",
                       ![t].pay = IF desk[d].amount > 0 THEN "REFUNDED" ELSE @]
        /\ Leave(d)
        /\ UNCHANGED <<tx, req, excused, term, paid, refunds, credited, disturbed>>

\* A campaign with nothing left to refund keeps its payment status.
CloseCampaign(d) ==
    LET t == desk[d].task
    IN  /\ desk[d].step = "close"
        /\ task' = [task EXCEPT
                       ![t].status = IF desk[d].op = "pause" THEN "PAUSED" ELSE "COMPLETED",
                       ![t].pay = IF desk[d].amount > 0 THEN "REFUNDED" ELSE @]
        /\ Leave(d)
        /\ UNCHANGED <<tx, req, excused, term, paid, refunds, credited, disturbed>>

\* The remaining amount less the fee, rounded to kobo by the column.
NetRefund(gross) == (gross * (100 - FeePct) + 50) \div 100

HoldRefund(d, k) ==
    /\ desk[d].step = "hold"
    /\ term[k].status = "NONE"
    /\ term' = [term EXCEPT ![k] = [status |-> "PENDING", task |-> desk[d].task,
                                    net |-> NetRefund(desk[d].amount)]]
    /\ desk' = [desk EXCEPT ![d].step = "terminate"]
    /\ UNCHANGED <<vars, paid, refunds, credited, disturbed>>

MarkTerminated(d) ==
    /\ desk[d].step = "terminate"
    /\ task' = [task EXCEPT ![desk[d].task].status = "TERMINATED"]
    /\ Leave(d)
    /\ UNCHANGED <<tx, req, excused, term, paid, refunds, credited, disturbed>>

-----------------------------------------------------------------------------
(* processCampaignTerminationRequest                                        *)

Files(d, k) == desk[d].step \in {"pay", "file"} /\ desk[d].term = k

Filing(k) == \E d \in Desks : Files(d, k)

\* Mutant: a request that was processed before may be processed again.
ProcessAgain(d, k, decision) ==
    /\ term[k].status # "NONE"
    /\ Take(d, decision,
            IF decision = "PROCESSED" /\ term[k].net > 0 THEN "pay" ELSE "file",
            term[k].task, term[k].net, k)
    /\ disturbed' = IF Filing(k) THEN disturbed \cup {k} ELSE disturbed
    /\ UNCHANGED <<vars, term, paid, refunds, credited>>

ProcessTermination(d, k, decision) ==
    /\ term[k].status = "PENDING"
    /\ Take(d, decision,
            IF decision = "PROCESSED" /\ term[k].net > 0 THEN "pay" ELSE "file",
            term[k].task, term[k].net, k)
    /\ disturbed' = IF Filing(k) THEN disturbed \cup {k} ELSE disturbed
    /\ UNCHANGED <<vars, term, paid, refunds, credited>>

PayTermination(d) ==
    /\ desk[d].step = "pay"
    /\ Refund(desk[d].task, desk[d].amount)
    /\ credited' = [credited EXCEPT ![desk[d].term] = @ + desk[d].amount]
    /\ desk' = [desk EXCEPT ![d].step = "file"]
    /\ UNCHANGED <<vars, term, paid, disturbed>>

FileTermination(d) ==
    /\ desk[d].step = "file"
    /\ term' = [term EXCEPT ![desk[d].term].status = desk[d].op]
    /\ Leave(d)
    /\ UNCHANGED <<vars, paid, refunds, credited, disturbed>>

\* A handler dies between two statements.
DropDesk(d) ==
    /\ desk[d].step # "idle"
    /\ disturbed' = IF desk[d].step = "file" /\ desk[d].op = "PROCESSED"
                    THEN disturbed \cup {desk[d].term} ELSE disturbed
    /\ Leave(d)
    /\ UNCHANGED <<vars, term, paid, refunds, credited>>

\* A contributor of a campaign that was published is paid (submissions.service.ts,
\* processPayout), whatever the campaign's status is by now.  The share n is what the
\* row gives a place at that time.  The settlements in M listed the submissions of the
\* campaign before this one was made.
Overlooked(M, n) ==
    [d \in Desks |-> IF d \in M THEN [desk[d] EXCEPT !.missed = @ + n] ELSE desk[d]]

Summing(t) == {d \in Desks : desk[d].step = "sum" /\ desk[d].task = t}

ContributorPaid(t, n) ==
    /\ task[t].status # "DRAFT"
    /\ paid[t] + n <= PaidCap
    /\ paid' = [paid EXCEPT ![t] = @ + n]
    /\ \E M \in SUBSET Summing(t) : desk' = Overlooked(M, n)
    /\ UNCHANGED <<vars, term, refunds, credited, disturbed>>

-----------------------------------------------------------------------------
SettlementRequest(d) ==
    \/ \E t \in Tasks : PauseTask(d, t) \/ EndTask(d, t) \/ TerminateTask(d, t)
    \/ \E k \in Terms : \E decision \in {"PROCESSED", "CANCELLED"} :
          ProcessTermination(d, k, decision)

SettlementHandler(d) ==
    \/ ListSubmissions(d) \/ SumPayouts(d) \/ CreditRefund(d) \/ CloseCampaign(d)
    \/ \E k \in Terms : HoldRefund(d, k)
    \/ MarkTerminated(d) \/ PayTermination(d) \/ FileTermination(d)

Settle ==
    \/ \E d \in Desks : SettlementRequest(d) \/ SettlementHandler(d) \/ DropDesk(d)
    \/ \E t \in Tasks, n \in Shares : ContributorPaid(t, n)

SettlementNext ==
    \/ Next /\ UNCHANGED settleVars
    \/ Settle

SettlementSpec == SettlementInit /\ [][SettlementNext]_allVars

-----------------------------------------------------------------------------
(* Properties                                                               *)

\* Money flows back to a creator, or is promised in a termination request, only
\* for a campaign the creator was charged for: the chain from checkout over
\* publication to settlement is never entered half-way, in any interleaving.
RefundsWereCharged ==
    \A t \in Tasks :
        \/ refunds[t] > 0
        \/ \E k \in Terms : term[k].task = t
        => Charged(t)

\* The refund of a terminated campaign is held until an administrator processes
\* it, and then paid exactly once - unless two administrators work on the
\* request at the same time or the process dies between the credit and the
\* update of the request (processCampaignTerminationRequest).
RefundHeldUntilProcessed ==
    \A k \in Terms \ disturbed :
        LET settled == \/ term[k].status = "PROCESSED"
                       \/ \E d \in Desks : /\ desk[d].step = "file" /\ desk[d].term = k
                                           /\ desk[d].op = "PROCESSED"
        IN  credited[k] = IF settled THEN term[k].net ELSE 0

\* The inductive invariant behind the two: a handler in flight works for a charged
\* campaign, and a request that nothing disturbed is in one pair of hands, which
\* hold the amount the request names.
DesksHold ==
    \A d \in Desks :
        /\ desk[d].step # "idle" => desk[d].task \in Tasks /\ Charged(desk[d].task)
        /\ desk[d].step \in {"pay", "file"} =>
              /\ desk[d].term \in Terms /\ term[desk[d].term].status # "NONE"
              /\ desk[d].op \in {"PROCESSED", "CANCELLED"}
        /\ desk[d].step = "pay" => desk[d].op = "PROCESSED"

TermsHold ==
    \A k \in Terms :
        IF term[k].status = "NONE"
        THEN term[k].task = NoTask /\ term[k].net = 0 /\ credited[k] = 0
        ELSE term[k].task \in Tasks /\ Charged(term[k].task)

RefundsHold == \A t \in Tasks : refunds[t] > 0 => Charged(t)

FiledByOne ==
    \A k \in Terms \ disturbed : \A d \in Desks : Files(d, k) =>
        /\ term[k].status = "PENDING" /\ desk[d].amount = term[k].net
        /\ \A e \in Desks : Files(e, k) => e = d

SettlementInv ==
    /\ PaymentInv /\ SettlementTypeOK
    /\ DesksHold /\ TermsHold /\ RefundsHold
    /\ FiledByOne /\ RefundHeldUntilProcessed

\* What a termination request holds for the creator are remaining unspent funds
\* (the terminate endpoint's documentation): of a campaign whose row says that its
\* funds were settled (REFUNDED) it holds no more than the budget less what the
\* creator got back before and what contributors were paid.
RefundsAreUnspent ==
    \A k \in Terms :
        LET t == term[k].task
        IN  term[k].status = "PENDING" /\ task[t].pay = "REFUNDED" =>
               term[k].net + paid[t] + refunds[t] - credited[k] <= task[t].total

\* A cancelled campaign stays cancelled while its refund is being processed
\* (terminateTask's endpoint and notification), whatever its payment status.
TerminatedIsFinal ==
    [][\A t \in Tasks : task[t].status = "TERMINATED" => task'[t].status = "TERMINATED"]_allVars
=============================================================================
