------------------------------ MODULE Campaign ------------------------------
(***************************************************************************)
(* The campaign as a whole: the task rows that creators pay for, publish,   *)
(* edit, pause, end and terminate (Payment.tla, Settlement.tla), and the     *)
(* applications, submissions and payouts of those who work on them           *)
(* (Review.tla).  What either module leaves to its surroundings is here done *)
(* by the other: a campaign is ACTIVE when its row says so, and a payout is   *)
(* the credit at the end of a review.                                         *)
(***************************************************************************)
EXTENDS EscrowedSettlement

CONSTANTS
    Contributors, Subs, Hands, Reviews, MaxPlaces, NoOne, NoSub     \* see Review.tla

ASSUME CampaignAssumption ==
    /\ MaxPlaces \in Nat
    /\ NoOne \notin Contributors /\ NoSub \notin Subs

VARIABLES
    places, mostPlaces, app, sub, payout, hand, review, raced,      \* see Review.tla
    listed,     \* the submissions that a settlement in flight read the ids of
    repriced    \* history: campaigns whose price changed once they were charged, or
                \* while a verification that had read it was waiting for Paystack

workVars == <<places, mostPlaces, app, sub, payout, hand, review, raced>>
campaignVars == <<moneyVars, workVars, listed, repriced>>

Live == {t \in Tasks : task[t].status = "ACTIVE"}

Work == INSTANCE Review WITH live <- Live

CampaignInit ==
    MoneyInit /\ Work!Init /\ listed = [d \in Desks |-> {}] /\ repriced = {}

\* The creator, Paystack and administrators, who touch no row of those who work.
Manage ==
    /\ \/ Next /\ UNCHANGED settleVars
       \/ \E d \in Desks : SettlementRequest(d) \/ SettlementHandler(d) \/ DropDesk(d)
    /\ UNCHANGED workVars

\* updateTask writes price and places in one statement, or places alone.
Reprice(q) ==
    /\ Rewrite(q) /\ UNCHANGED settleVars
    /\ \E n \in 1 .. MaxPlaces : Work!ChangePlaces(req[q].task, n)

Resize(t) ==
    /\ UNCHANGED allVars
    /\ \E n \in 1 .. MaxPlaces : Work!ChangePlaces(t, n)

\* Contributors and reviewers, whose steps move no money but the last.
Contribute(h) == UNCHANGED allVars /\ Work!Contribute(h)

Decide(v) == UNCHANGED allVars /\ Work!Decide(v)

\* The payout is one row for both: the credit of a review, and what a settlement
\* subtracts if it knows the submission.  Nothing here looks at the status of the
\* campaign.
PayContributor(v, n) ==
    LET t == sub[review[v].sub].task
        M == {d \in Summing(t) : review[v].sub \notin listed[d]}
    IN  /\ UNCHANGED <<vars, term, refunds, credited, disturbed>>
        /\ Work!Credit(v)
        /\ paid[t] + n <= PaidCap
        /\ paid' = [paid EXCEPT ![t] = @ + n]
        /\ desk' = Overlooked(M, n)

PricedLate(t) ==
    /\ task'[t].total # task[t].total
    /\ Charged(t) \/ \E q \in Slots : req[q].step = "ask" /\ req[q].task = t

\* submissionIds: what a settlement read when it listed the submissions.
Listed(d) ==
    IF desk'[d].step # "sum" THEN {}
    ELSE IF desk[d].step = "sum" THEN listed[d]
    ELSE {s \in Subs : sub[s].task = desk[d].task}

CampaignNext ==
    /\ \/ Manage
       \/ \E q \in Slots : Reprice(q)
       \/ \E t \in Tasks : Resize(t)
       \/ \E h \in Hands : Contribute(h)
       \/ \E v \in Reviews : Decide(v) \/ \E n \in Shares : PayContributor(v, n)
    /\ strained' = strained \cup {t \in Tasks : Strains(t)}
    /\ listed' = [d \in Desks |-> Listed(d)]
    /\ repriced' = repriced \cup {t \in Tasks : PricedLate(t)}

CampaignSpec == CampaignInit /\ [][CampaignNext]_campaignVars

-----------------------------------------------------------------------------
(* Properties                                                               *)

\* Nobody applies to, works for or is paid by a campaign whose creator was never
\* charged: payouts look neither at the status nor at the payment of the campaign,
\* and rest on the application, hence on the publication, hence on the charge.
WorkWasCharged ==
    \A t \in Tasks :
        \/ paid[t] > 0
        \/ \E c \in Contributors : app[t][c] # "NONE"
        \/ \E s \in Subs : sub[s].task = t
        => Charged(t)

\* Campaigns with one settlement, request and payout at a time.
PaysOneByOne(t) == [what |-> "payout", task |-> t] \notin raced

Orderly(t) ==
    /\ t \notin strained
    /\ \A k \in disturbed : term[k].task # t
    /\ PaysOneByOne(t)

\* The budget pays every share for the most places the campaign had.
Funded(t) == \A n \in Shares : n * mostPlaces[t] <= task[t].total

\* What left the campaign, or will with a termination request that is still open.
Promised(t) ==
    {k \in Terms : term[k].task = t /\ term[k].status = "PENDING" /\ credited[k] = 0}

Costs(t) ==
    {paid[t] + refunds[t]} \cup {paid[t] + refunds[t] + term[k].net : k \in Promised(t)}

\* The amounts compared on verification agree within a kobo.
Covers(r, t) == tx[r].st = "success" /\ Matches(t, task[t].total, r, tx[r].amount)

\* What contributors are paid and the creator gets back, a refund included that a
\* termination request still promises, stays within the budget of the campaign and within
\* a charge that its creator paid - as long as the budget pays every share for the most
\* places the campaign had, and unless the campaign was strained, its termination request
\* disturbed, two of its payouts overlapped or, as to the charge, it was repriced.
CostsAreCovered ==
    \A t \in Tasks : Orderly(t) /\ Funded(t) => \A cost \in Costs(t) :
        /\ cost <= task[t].total
        /\ cost > 0 /\ t \notin repriced =>
              \E r \in Refs : r.task = t /\ tx[r].st = "success" /\ cost <= tx[r].amount + 1

-----------------------------------------------------------------------------
\* The inductive invariant behind them: whoever works works for a campaign that was
\* published, and the payouts a settlement subtracts are those of the submissions.
Launched(t) == task[t].status # "DRAFT"

WorkHolds ==
    /\ \A h \in Hands : hand[h].step # "idle" => Launched(hand[h].task)
    /\ \A t \in Tasks, c \in Contributors : app[t][c] # "NONE" => Launched(t)
    /\ \A s \in Subs : sub[s].task \in Tasks => Launched(sub[s].task)
    /\ \A t \in Tasks : paid[t] > 0 => Launched(t)

Shared(t) ==
    LET count == Cardinality(Work!Paid(t))
    IN  IF count = 0 THEN paid[t] = 0
        ELSE \E least, most \in Shares : least * count <= paid[t] /\ paid[t] <= most * count

Unpaid(t) == \A v \in Reviews : Work!Pays(v, t) => payout[review[v].sub] = 0

PaidHolds ==
    \A t \in Tasks : PaysOneByOne(t) => Shared(t) /\ Unpaid(t)

\* Only what was published is settled, and what was published was charged at the price in
\* the row, as every verification compares the two before it marks the row.
SettledHolds ==
    /\ \A t \in Tasks : WasSettled(t) => Launched(t)
    /\ \A d \in Desks : desk[d].step # "idle" => Launched(desk[d].task)

Covered(t) == \E r \in Refs : Covers(r, t)

Prices(m, t) ==
    /\ m.step = "ask" => m.amount = task[t].total
    /\ m.step = "mark" => Covers(m.ref, t)
    /\ m.step = "activate" => Covered(t)

PriceHolds ==
    /\ \A q \in Slots : req[q].step = "find" /\ req[q].paid =>
          req[q].amount = tx[req[q].ref].amount
    /\ \A t \in Tasks \ repriced :
          /\ Launched(t) \/ task[t].pay = "PAID" => Covered(t)
          /\ \A q \in Slots : req[q].task = t => Prices(req[q], t)

CampaignInv ==
    MoneyInv /\ Work!ReviewInv /\ WorkHolds /\ PaidHolds /\ SettledHolds /\ PriceHolds
=============================================================================
