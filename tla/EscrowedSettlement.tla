------------------------- MODULE EscrowedSettlement -------------------------
(***************************************************************************)
(* The settlement handlers of Settlement.tla, with one history variable     *)
(* that records which campaigns left the order the code relies on: the      *)
(* budget is read, the submissions are listed, their payouts are summed and *)
(* the refund is credited in separate statements, and nothing marks a       *)
(* campaign as settled before the last of them (settleCampaignRefund and    *)
(* its callers).  Of every other campaign the handlers implement the atomic *)
(* settlement of Escrow.tla.                                                *)
(***************************************************************************)
EXTENDS Settlement

VARIABLE strained   \* history: campaigns settled twice, or whose budget or
                    \* payouts changed under a settlement

moneyVars == <<allVars, strained>>

\* Money of t went back to the creator, or is promised in a termination request.
WasSettled(t) == refunds[t] # 0 \/ \E k \in Terms : term[k].task = t

\* A settlement of t has come as far as one of steps.
Settling(t, steps) == \E d \in Desks : desk[d].step \in steps /\ desk[d].task = t

Repriced(t) ==
    /\ task'[t].total # task[t].total
    /\ WasSettled(t) \/ Settling(t, {"list", "sum", "credit", "hold"})

\* A settlement of t does not know of the submission that is paid.
Overlooks(t) == \E d \in Desks : desk[d].task = t /\ desk'[d].missed > desk[d].missed

PaidLate(t) ==
    /\ paid'[t] # paid[t]
    /\ WasSettled(t) \/ Settling(t, {"credit", "hold"}) \/ Overlooks(t)

SettledAgain(t) ==
    /\ WasSettled(t)
    /\ \/ refunds'[t] # refunds[t] /\ credited' = credited
       \/ \E k \in Terms : term[k].status = "NONE" /\ term'[k].task = t

Strains(t) == Repriced(t) \/ PaidLate(t) \/ SettledAgain(t)

MoneyInit == SettlementInit /\ strained = {}

MoneyNext == /\ SettlementNext
             /\ strained' = strained \cup {t \in Tasks : Strains(t)}

MoneySpec == MoneyInit /\ [][MoneyNext]_moneyVars

-----------------------------------------------------------------------------
(* The refinement                                                           *)

\* A request counts as open until its refund is credited or it is filed.
AsTicket(k) ==
    [of |-> term[k].task, net |-> term[k].net,
     state |-> IF term[k].status = "PENDING" /\ credited[k] = 0 THEN "open" ELSE "closed"]

Books == INSTANCE Escrow WITH
    Campaigns <- Tasks,
    Tickets <- Terms,
    NoCampaign <- NoTask,
    budget <- [t \in Tasks |-> task[t].total],
    spent <- paid,
    back <- refunds,
    ticket <- [k \in Terms |-> AsTicket(k)],
    astray <- strained \cup {term[k].task : k \in disturbed}

\* Whatever checkouts, webhooks, publications, payouts and administrators do in
\* between, pausing, ending and terminating a campaign returns the unspent budget
\* once and in one piece, as Escrow.tla has it - unless the campaign is settled a
\* second time, its budget changes under a settlement in flight, one of its payouts
\* comes after the sum or for a submission that is not in the list, or its termination
\* request is processed twice (settleCampaignRefund, terminateTask,
\* processCampaignTerminationRequest).
SettlesAtomically == Books!EscrowSpec

-----------------------------------------------------------------------------
\* The inductive invariant behind it: until the first settlement of a campaign that is
\* not strained takes effect, every handler in flight holds what it has to return.
HoldsRest(d) ==
    LET t == desk[d].task
    IN  /\ desk[d].step \in {"list", "sum"} =>
              desk[d].amount = task[t].total /\ desk[d].missed = 0
        /\ desk[d].step \in {"credit", "hold"} =>
              desk[d].amount = Remaining(task[t].total, paid[t])

HandHolds(d) ==
    /\ desk[d].step \in {"credit", "pay"} => desk[d].amount > 0
    /\ desk[d].step \in {"pay", "file"} => desk[d].task = term[desk[d].term].task
    /\ desk[d].task \in Tasks \ strained /\ ~WasSettled(desk[d].task) => HoldsRest(d)

MoneyInv ==
    /\ SettlementInv /\ strained \subseteq Tasks
    /\ \A d \in Desks : HandHolds(d)
=============================================================================
