--------------------------- MODULE CampaignProofs ---------------------------
(***************************************************************************)
(* The campaign as a whole, for any number of campaigns, handlers,          *)
(* contributors and submissions: its steps are steps of the settlement and   *)
(* of the review, so that what is proved of each holds of both together; and *)
(* what only both together show - that work is paid for, and that its cost    *)
(* and the refunds share one budget.                                         *)
(***************************************************************************)
EXTENDS Campaign, SettlementProofs, FiniteSetTheorems

Works == INSTANCE ReviewProofs WITH live <- Live

-----------------------------------------------------------------------------
(* Work is the review's specification, Works the same with what is proved of *)
(* it.                                                                       *)

\* The same initial states.
LEMMA SameInit ==
    Work!Init <=> Works!Init
  BY DEF Work!Init, Works!Init, Work!IdleHand, Works!IdleHand, Work!IdleReview,
     Works!IdleReview

\* The same rows.
LEMMA SameFields ==
    Work!TypeOK <=> Works!TypeOK
  BY DEF Work!TypeOK, Works!TypeOK, Work!Application, Works!Application,
     Work!Submission, Works!Submission, Work!Hand, Works!Hand, Work!HandSteps,
     Works!HandSteps, Work!ReviewJob, Works!ReviewJob, Work!ReviewSteps,
     Works!ReviewSteps, Work!Races, Works!Races

\* What contributors' handlers hold.
LEMMA SameHands ==
    Work!HandsHold <=> Works!HandsHold
  BY DEF Work!HandsHold, Works!HandsHold, Work!Filled, Works!Filled

\* What submissions hold.
LEMMA SameSubs ==
    Work!SubsHold <=> Works!SubsHold
  BY DEF Work!SubsHold, Works!SubsHold, Work!Filled, Works!Filled, Work!Reviewing,
     Works!Reviewing

\* What reviewers' handlers hold.
LEMMA SameReviews ==
    Work!ReviewsHold <=> Works!ReviewsHold
  BY DEF Work!ReviewsHold, Works!ReviewsHold

\* What applications hold.
LEMMA SameApplies ==
    /\ Work!ApplyHolds <=> Works!ApplyHolds
    /\ Work!ContributorsWithinPlaces <=> Works!ContributorsWithinPlaces
  BY DEF Work!ApplyHolds, Works!ApplyHolds, Work!ContributorsWithinPlaces,
     Works!ContributorsWithinPlaces, Work!AppliesAlone, Works!AppliesAlone,
     Work!Filled, Works!Filled, Work!Cardinality, Works!Cardinality, Work!IsFiniteSet,
     Works!IsFiniteSet

\* What verdicts hold.
LEMMA SameJudges ==
    /\ Work!JudgeHolds <=> Works!JudgeHolds
    /\ Work!PaidOnceWhenVerified <=> Works!PaidOnceWhenVerified
  BY DEF Work!JudgeHolds, Works!JudgeHolds, Work!JudgedAlone, Works!JudgedAlone,
     Work!ReviewRace, Works!ReviewRace, Work!PaidOnceWhenVerified,
     Works!PaidOnceWhenVerified

\* What payouts hold.
LEMMA SamePays ==
    /\ Work!PayHolds <=> Works!PayHolds
    /\ Work!PayoutsWithinPlaces <=> Works!PayoutsWithinPlaces
  BY DEF Work!PayHolds, Works!PayHolds, Work!PayoutsWithinPlaces,
     Works!PayoutsWithinPlaces, Work!PaysAlone, Works!PaysAlone, Work!Pays,
     Works!Pays, Work!Paid, Works!Paid, Work!Cardinality, Works!Cardinality,
     Work!IsFiniteSet, Works!IsFiniteSet

\* What contributors who submit hold.
LEMMA SameSubmits ==
    Work!SubmitHolds <=> Works!SubmitHolds
  BY DEF Work!SubmitHolds, Works!SubmitHolds, Work!SubmitsAlone, Works!SubmitsAlone,
     Work!Completes, Works!Completes, Work!Submits, Works!Submits, Work!Unraced,
     Works!Unraced, Work!Awaited, Works!Awaited, Work!Of, Works!Of, Work!ReviewRace,
     Works!ReviewRace, Work!SubmitRace, Works!SubmitRace, Work!Reviewing,
     Works!Reviewing

\* Hence the same invariant.
LEMMA SameInv ==
    Work!ReviewInv <=> Works!ReviewInv
  BY SameFields, SameHands, SameSubs, SameReviews, SameApplies, SameJudges, SamePays,
     SameSubmits DEF Work!ReviewInv, Works!ReviewInv

\* The same steps of contributors, ...
LEMMA SameContribute ==
    ASSUME NEW h \in Hands
    PROVE  Work!Contribute(h) <=> Works!Contribute(h)
  BY DEF Work!Contribute, Works!Contribute, Work!ApplyForTask, Works!ApplyForTask,
     Work!CountApplications, Works!CountApplications, Work!InsertApplication,
     Works!InsertApplication, Work!CreateSubmission, Works!CreateSubmission,
     Work!LookupSubmission, Works!LookupSubmission, Work!InsertSubmission,
     Works!InsertSubmission, Work!CompleteApplication, Works!CompleteApplication,
     Work!DropHand, Works!DropHand, Work!Applying, Works!Applying, Work!Submitting,
     Works!Submitting, Work!Filled, Works!Filled, Work!Of, Works!Of, Work!Cardinality,
     Works!Cardinality, Work!Note, Works!Note, Work!Race, Works!Race, Work!GoHand,
     Works!GoHand, Work!LeaveHand, Works!LeaveHand, Work!IdleHand, Works!IdleHand,
     Work!env, Works!env

\* ... of reviewers, ...
LEMMA SameDecide ==
    ASSUME NEW v \in Reviews
    PROVE  Work!Decide(v) <=> Works!Decide(v)
  BY DEF Work!Decide, Works!Decide, Work!VerifySubmission, Works!VerifySubmission,
     Work!RejectSubmission, Works!RejectSubmission, Work!Open, Works!Open,
     Work!Approve, Works!Approve, Work!FindPayout, Works!FindPayout,
     Work!CountPayouts, Works!CountPayouts, Work!Reject, Works!Reject, Work!Reopen,
     Works!Reopen, Work!DropReview, Works!DropReview, Work!Reviewing, Works!Reviewing,
     Work!Submitting, Works!Submitting, Work!Paying, Works!Paying, Work!Paid,
     Works!Paid, Work!Cardinality, Works!Cardinality, Work!Note, Works!Note,
     Work!Race, Works!Race, Work!GoReview, Works!GoReview, Work!LeaveReview,
     Works!LeaveReview, Work!IdleReview, Works!IdleReview, Work!env, Works!env

\* ... of payouts, ...
LEMMA SameCredit ==
    ASSUME NEW v \in Reviews
    PROVE  Work!Credit(v) <=> Works!Credit(v)
  BY DEF Work!Credit, Works!Credit, Work!LeaveReview, Works!LeaveReview,
     Work!IdleReview, Works!IdleReview, Work!env, Works!env

\* ... and of creators.
LEMMA SameEdit ==
    Work!Campaign <=> Works!Campaign
  BY DEF Work!Campaign, Works!Campaign, Work!ChangeStatus, Works!ChangeStatus,
     Work!ChangePlaces, Works!ChangePlaces

\* Hence the same next-state relation.
LEMMA SameNext ==
    [Work!Next]_(Work!vars) <=> [Works!Next]_(Works!vars)
  BY SameContribute, SameDecide, SameCredit, SameEdit DEF Work!Next, Works!Next,
     Work!vars, Works!vars, Work!env, Works!env, Work!Judge, Works!Judge

\* And the same numbers.
LEMMA SameCount ==
    \A S : /\ Work!Cardinality(S) = Cardinality(S)
           /\ Work!IsFiniteSet(S) <=> IsFiniteSet(S)
  BY ONLY DEF Work!Cardinality, Cardinality, Work!IsFiniteSet, IsFiniteSet

-----------------------------------------------------------------------------
(* What a step changes                                                      *)

\* The status of one row at most changes, and never to DRAFT.
Moves(t) ==
    /\ Launched(t)'
    /\ \A u \in Tasks \ {t} : task'[u].status = task[u].status

\* No step of the payment component but the last of publishTask changes a status.
LEMMA PaymentMoves ==
    ASSUME PaymentInv, [Next]_vars
    PROVE  \/ \A t \in Tasks : task'[t].status = task[t].status
           \/ \E t \in Tasks : Moves(t)
<1>1. task \in [Tasks -> TaskRow]
  BY DEF PaymentInv, TypeOK
<1>2. CASE \E q \in Slots : Activate(q)
  <2> PICK q \in Slots : Activate(q)
    BY <1>2
  <2>1. req[q].task \in Tasks
    BY DEF PaymentInv, RequestsHold, RequestHolds, Activate
  <2>2. /\ task'[req[q].task].status = "ACTIVE"
        /\ \A u \in Tasks \ {req[q].task} : task'[u] = task[u]
    BY <1>1, <2>1 DEF Activate, TaskRow
  <2> QED
    BY <2>1, <2>2 DEF Moves, Launched
<1>3. ASSUME NEW q \in Slots, Creator(q) \/ Handler(q) \/ Abandon(q), ~Activate(q)
      PROVE  \A t \in Tasks : task'[t].status = task[t].status
  <2>1. CASE Creator(q) \/ Abandon(q)
    BY <2>1 DEF Creator, Abandon, InitiatePayment, VerifyPayment, VerifyOverwritten,
       PublishTask, UpdateTask
  <2>2. CASE InitializeAtPaystack(q) \/ PaystackAnswers(q) \/ FindTask(q)
    BY <2>2 DEF InitializeAtPaystack, PaystackAnswers, FindTask
  <2>3. CASE StoreReference(q)
    BY <1>1, <2>3 DEF StoreReference, TaskRow
  <2>4. CASE MarkPaid(q)
    BY <1>1, <2>4 DEF MarkPaid, TaskRow
  <2>5. CASE MarkFailed(q) \/ Rewrite(q)
    BY <1>1, <2>5 DEF MarkFailed, Rewrite, TaskRow
  <2> QED
    BY <1>3, <2>1, <2>2, <2>3, <2>4, <2>5 DEF Handler
<1>4. CASE Paystack
  <2>1. ASSUME NEW r \in Refs, WebhookFailed(r)
        PROVE  \A t \in Tasks : task'[t].status = task[t].status
    BY <1>1, <2>1 DEF WebhookFailed, TaskRow
  <2> QED
    BY <1>4, <2>1 DEF Paystack, PayCheckout, DeclineCheckout, WebhookSuccess
<1>5. CASE UNCHANGED vars
  BY <1>5 DEF vars
<1> QED
  BY <1>2, <1>3, <1>4, <1>5 DEF Next

\* Nor does any step of a settlement but the last.
LEMMA DeskMoves ==
    ASSUME SettlementInv, NEW d \in Desks,
           SettlementRequest(d) \/ SettlementHandler(d) \/ DropDesk(d)
    PROVE  \/ \A t \in Tasks : task'[t].status = task[t].status
           \/ \E t \in Tasks : Moves(t)
<1>1. task \in [Tasks -> TaskRow]
  BY DEF SettlementInv, PaymentInv, TypeOK
<1>2. desk[d].step # "idle" => desk[d].task \in Tasks
  BY DEF SettlementInv, DesksHold
<1>3. CASE CloseCampaign(d)
  BY <1>1, <1>2, <1>3 DEF CloseCampaign, Moves, Launched, TaskRow
<1>4. CASE MarkTerminated(d)
  BY <1>1, <1>2, <1>4 DEF MarkTerminated, Moves, Launched, TaskRow
<1>5. CASE ~CloseCampaign(d) /\ ~MarkTerminated(d)
  BY <1>5 DEF SettlementRequest, SettlementHandler, PauseTask, EndTask, TerminateTask,
     ProcessTermination, ListSubmissions, SumPayouts, CreditRefund, HoldRefund, PayTermination,
     FileTermination, DropDesk, vars
<1> QED
  BY <1>3, <1>4, <1>5

\* What Manage may do to the statuses and to the payouts.
LEMMA ManageMoves ==
    ASSUME SettlementInv, Manage
    PROVE  /\ \/ \A t \in Tasks : task'[t].status = task[t].status
              \/ \E t \in Tasks : Moves(t)
           /\ paid' = paid
<1>1. PaymentInv
  BY DEF SettlementInv
<1>2. ASSUME NEW d \in Desks, SettlementRequest(d) \/ SettlementHandler(d) \/ DropDesk(d)
      PROVE  paid' = paid
  BY <1>2 DEF SettlementRequest, SettlementHandler, PauseTask, EndTask, TerminateTask,
     ProcessTermination, ListSubmissions, SumPayouts, CreditRefund, CloseCampaign, HoldRefund,
     MarkTerminated, PayTermination, FileTermination, DropDesk
<1> QED
  BY <1>1, <1>2, PaymentMoves, DeskMoves DEF Manage, settleVars

\* A campaign that was published is not a draft again.
LEMMA LaunchedLasts ==
    ASSUME SettlementInv, CampaignNext
    PROVE  \A t \in Tasks : Launched(t) => Launched(t)'
<1>1. CASE Manage
  BY <1>1, ManageMoves DEF Moves, Launched
<1>2. CASE \E q \in Slots : Reprice(q)
  <2> PICK q \in Slots : Rewrite(q)
    BY <1>2 DEF Reprice
  <2>1. task \in [Tasks -> TaskRow]
    BY DEF SettlementInv, PaymentInv, TypeOK
  <2> QED
    BY <2>1 DEF Rewrite, Launched, TaskRow
<1>3. CASE task' = task
  BY <1>3 DEF Launched
<1>4. ASSUME NEW v \in Reviews, NEW n \in Shares, PayContributor(v, n) PROVE task' = task
  BY <1>4 DEF PayContributor, vars
<1> QED
  BY <1>1, <1>2, <1>3, <1>4 DEF CampaignNext, Resize, Contribute, Decide, allVars, vars

-----------------------------------------------------------------------------
(* Every step is a step of the settlement, and a step of the review         *)

\* What is under review was submitted, by a contributor and to a campaign.
LEMMA UnderReview ==
    ASSUME Work!ReviewInv, NEW v \in Reviews, review[v].step # "idle"
    PROVE  /\ review[v].sub \in Subs
           /\ sub[review[v].sub].status # "NONE"
           /\ sub[review[v].sub].task \in Tasks
           /\ sub[review[v].sub].by \in Contributors
<1>1. review[v].sub \in Subs
  BY DEF Work!ReviewInv, Work!ReviewsHold
<1>2. sub[review[v].sub].status # "NONE"
  BY <1>1 DEF Work!ReviewInv, Work!SubsHold, Work!Reviewing
<1> QED
  BY <1>1, <1>2 DEF Work!ReviewInv, Work!SubsHold

\* The credit at the end of a review is a payout of a published campaign.
LEMMA PayoutIsSpent ==
    ASSUME Work!ReviewInv, WorkHolds, NEW v \in Reviews, NEW n \in Shares,
           PayContributor(v, n)
    PROVE  \E t \in Tasks : ContributorPaid(t, n)
<1>1. review[v].step # "idle"
  BY DEF PayContributor, Work!Credit
<1> DEFINE t == sub[review[v].sub].task
           M == {d \in Summing(t) : review[v].sub \notin listed[d]}
<1>2. t \in Tasks /\ Launched(t)
  BY <1>1, UnderReview DEF WorkHolds
<1>3. M \in SUBSET Summing(t) /\ desk' = Overlooked(M, n)
  BY DEF PayContributor
<1> HIDE DEF M
<1> QED
  BY <1>2, <1>3 DEF PayContributor, ContributorPaid, Launched

\* A step of the campaign, seen from the settlement.
LEMMA StepIsMoney ==
    ASSUME MoneyInv, Work!ReviewInv, WorkHolds, CampaignNext
    PROVE  [MoneyNext]_moneyVars
<1>1. SettlementInv /\ Recorded
  BY DEF MoneyInv, CampaignNext, Recorded
<1>2. SettlementNext => MoneyNext
  BY <1>1 DEF MoneyNext, Recorded
<1>3. CASE Manage
  BY <1>2, <1>3 DEF Manage, SettlementNext, Settle
<1>4. CASE \E q \in Slots : Reprice(q)
  BY <1>2, <1>4 DEF Reprice, SettlementNext, Next, Handler
<1>5. CASE \E v \in Reviews, n \in Shares : PayContributor(v, n)
  BY <1>2, <1>5, PayoutIsSpent DEF SettlementNext, Settle
<1>6. CASE UNCHANGED allVars
  <2>1. strained' = strained
    BY <1>1, <1>6, NothingStrained DEF allVars, vars, settleVars
  <2> QED
    BY <1>6, <2>1 DEF moneyVars
<1> QED
  BY <1>3, <1>4, <1>5, <1>6 DEF CampaignNext, Resize, Contribute, Decide

\* A campaign goes live, or stops to be, one at a time.
LEMMA LiveMoves ==
    ASSUME \/ \A t \in Tasks : task'[t].status = task[t].status
           \/ \E t \in Tasks : Moves(t),
           UNCHANGED workVars
    PROVE  [Work!Next]_(Work!vars)
<1>1. UNCHANGED <<places, mostPlaces, app, sub, payout, hand, review, raced>>
  BY DEF workVars
<1>2. CASE Live' = Live
  BY <1>1, <1>2 DEF Work!vars, Work!env
<1>3. CASE Live' # Live
  <2>1. PICK t \in Tasks : \A u \in Tasks \ {t} : task'[u].status = task[u].status
    BY <1>3 DEF Moves, Live
  <2>2. Live' = IF t \in Live THEN Live \ {t} ELSE Live \cup {t}
    BY <1>3, <2>1 DEF Live
  <2> QED
    BY <1>1, <2>2 DEF Work!Next, Work!Campaign, Work!ChangeStatus
<1> QED
  BY <1>2, <1>3

\* A step of the campaign, seen from the review.
LEMMA StepIsWork ==
    ASSUME MoneyInv, CampaignNext
    PROVE  [Work!Next]_(Work!vars)
<1>1. SettlementInv /\ PaymentInv
  BY DEF MoneyInv, SettlementInv
<1>2. CASE Manage
  BY <1>1, <1>2, ManageMoves, LiveMoves DEF Manage
<1>3. CASE \E q \in Slots : Reprice(q)
  <2> PICK q \in Slots : Reprice(q)
    BY <1>3
  <2>1. req[q].task \in Tasks
    BY <1>1 DEF PaymentInv, RequestsHold, RequestHolds, Reprice, Rewrite
  <2> QED
    BY <2>1 DEF Reprice, Work!Next, Work!Campaign
<1>4. CASE \E t \in Tasks : Resize(t)
  BY <1>4 DEF Resize, Work!Next, Work!Campaign
<1>5. CASE \E h \in Hands : Contribute(h)
  BY <1>5 DEF Contribute, Work!Next
<1>6. CASE \E v \in Reviews : Decide(v) \/ \E n \in Shares : PayContributor(v, n)
  BY <1>6 DEF Decide, PayContributor, Work!Next, Work!Judge
<1> QED
  BY <1>2, <1>3, <1>4, <1>5, <1>6 DEF CampaignNext

\* What every reviewer and contributor knows is kept, as in a campaign of its own.
LEMMA WorkStep ==
    ASSUME Work!ReviewInv, [Work!Next]_(Work!vars)
    PROVE  Work!ReviewInv'
<1>1. Works!ReviewInv /\ [Works!Next]_(Works!vars)
  BY SameInv, SameNext
<1>2. Works!ReviewInv'
  BY <1>1, CampaignAssumption, PaymentAssumption, Works!ReviewStep
  DEF Works!ReviewAssumption
<1> QED
  BY <1>2, SameInv, PTL

-----------------------------------------------------------------------------
(* Whoever works works for a campaign that was published                    *)

\* The rows of those who work, as far as they are needed here.
LEMMA WorkFields ==
    ASSUME Work!ReviewInv
    PROVE  /\ app \in [Tasks -> [Contributors -> Work!Application]]
           /\ sub \in [Subs -> Work!Submission]
           /\ payout \in [Subs -> Nat]
           /\ hand \in [Hands -> Work!Hand]
           /\ \A h \in Hands : hand[h].step # "idle" =>
                 hand[h].task \in Tasks /\ hand[h].by \in Contributors
  BY DEF Work!ReviewInv, Work!TypeOK, Work!HandsHold, Work!Submission

\* What a handler of a contributor adds belongs to a campaign that was published.
LEMMA ContributeHolds ==
    ASSUME Work!ReviewInv, WorkHolds, \A t \in Tasks : Launched(t) => Launched(t)',
           NEW h \in Hands, Contribute(h)
    PROVE  WorkHolds'
<1>1. paid' = paid /\ task' = task
  BY DEF Contribute, allVars, vars, settleVars
<1>2. \A t \in Tasks : paid'[t] > 0 => Launched(t)'
  BY <1>1 DEF WorkHolds
<1>3. ASSUME NEW t \in Tasks, NEW c \in Contributors,
             Work!ApplyForTask(h, t, c) \/ Work!CreateSubmission(h, t, c)
      PROVE  WorkHolds'
  <2>1. Launched(t)
    BY <1>3 DEF Work!ApplyForTask, Work!CreateSubmission, Live, Launched, WorkHolds
  <2>2. \A g \in Hands : hand'[g].step # "idle" => Launched(hand'[g].task)
    BY <1>3, <2>1, WorkFields DEF WorkHolds, Work!ApplyForTask, Work!CreateSubmission
  <2>3. UNCHANGED <<app, sub>>
    BY <1>3 DEF Work!ApplyForTask, Work!CreateSubmission
  <2> QED
    BY <1>1, <1>2, <2>2, <2>3 DEF WorkHolds, Launched
<1>4. ASSUME \/ Work!CountApplications(h) \/ Work!LookupSubmission(h) \/ Work!DropHand(h)
      PROVE  WorkHolds'
  <2>1. \A g \in Hands : hand'[g].step # "idle" =>
           hand[g].step # "idle" /\ hand'[g].task = hand[g].task
    BY <1>4, WorkFields DEF Work!CountApplications, Work!LookupSubmission, Work!DropHand,
       Work!GoHand, Work!LeaveHand, Work!IdleHand, Work!Hand
  <2>2. UNCHANGED <<app, sub>>
    BY <1>4 DEF Work!CountApplications, Work!LookupSubmission, Work!DropHand
  <2> QED
    BY <1>1, <1>2, <2>1, <2>2 DEF WorkHolds, Launched
<1>5. ASSUME NEW status \in {"APPROVED", "PENDING", "COMPLETED"},
             hand[h].step # "idle",
             app' = [app EXCEPT ![hand[h].task][hand[h].by] = status],
             Work!LeaveHand(h), sub' = sub
      PROVE  WorkHolds'
  <2>1. \A g \in Hands : hand'[g].step # "idle" =>
           hand[g].step # "idle" /\ hand'[g].task = hand[g].task
    BY <1>5, WorkFields DEF Work!LeaveHand, Work!IdleHand
  <2>2. Launched(hand[h].task)
    BY <1>5 DEF WorkHolds
  <2>3. \A t \in Tasks, c \in Contributors :
           t # hand[h].task => app'[t][c] = app[t][c]
    BY <1>5, WorkFields
  <2> QED
    BY <1>1, <1>2, <1>5, <2>1, <2>2, <2>3 DEF WorkHolds, Launched
<1>6. ASSUME NEW s \in Subs, Work!InsertSubmission(h, s)
      PROVE  WorkHolds'
  <2>1. \A g \in Hands : hand'[g].step # "idle" =>
           hand[g].step # "idle" /\ hand'[g].task = hand[g].task
    BY <1>6, WorkFields DEF Work!InsertSubmission, Work!GoHand, Work!Hand
  <2>2. Launched(hand[h].task)
    BY <1>6 DEF WorkHolds, Work!InsertSubmission
  <2>3. sub'[s].task = hand[h].task /\ \A u \in Subs : u # s => sub'[u] = sub[u]
    BY <1>6, WorkFields DEF Work!InsertSubmission
  <2>4. app' = app
    BY <1>6 DEF Work!InsertSubmission
  <2> QED
    BY <1>1, <1>2, <2>1, <2>2, <2>3, <2>4 DEF WorkHolds, Launched
<1>7. Work!CompleteApplication(h) => WorkHolds'
  BY <1>5 DEF Work!CompleteApplication
<1>8. ASSUME NEW status \in {"APPROVED", "PENDING"}, Work!InsertApplication(h, status)
      PROVE  WorkHolds'
  BY <1>5, <1>8 DEF Work!InsertApplication
<1> QED
  BY <1>3, <1>4, <1>6, <1>7, <1>8 DEF Contribute, Work!Contribute

\* A review moves no submission to another campaign, and opens an application again
\* only where there was one.
LEMMA ReviewHolds ==
    ASSUME Work!ReviewInv, WorkHolds, NEW v \in Reviews, Work!Judge(v), task' = task,
           \A t \in Tasks : paid'[t] > 0 => Launched(t)
    PROVE  WorkHolds'
<1>1. hand' = hand
  BY DEF Work!Judge, Work!Decide, Work!VerifySubmission, Work!RejectSubmission, Work!Open,
     Work!Approve, Work!FindPayout, Work!CountPayouts, Work!Reject, Work!Reopen,
     Work!DropReview, Work!Credit
<1>2. \A s \in Subs : sub'[s].task = sub[s].task
  <2>1. CASE Work!Approve(v) \/ Work!Reject(v)
    BY <2>1, UnderReview, WorkFields DEF Work!Approve, Work!Reject, Work!Submission
  <2>2. CASE ~(Work!Approve(v) \/ Work!Reject(v))
    BY <2>2 DEF Work!Judge, Work!Decide, Work!VerifySubmission, Work!RejectSubmission,
       Work!Open, Work!FindPayout, Work!CountPayouts, Work!Reopen, Work!DropReview, Work!Credit
  <2> QED
    BY <2>1, <2>2
<1>3. ASSUME NEW t \in Tasks, NEW c \in Contributors, app'[t][c] # app[t][c]
      PROVE  Launched(t)
  <2>1. Work!Reopen(v)
    BY <1>3 DEF Work!Judge, Work!Decide, Work!VerifySubmission, Work!RejectSubmission,
       Work!Open, Work!Approve, Work!FindPayout, Work!CountPayouts, Work!Reject,
       Work!DropReview, Work!Credit
  <2>2. review[v].step # "idle"
    BY <2>1 DEF Work!Reopen
  <2>3. /\ sub[review[v].sub].task \in Tasks
        /\ Launched(sub[review[v].sub].task)
    BY <2>2, UnderReview DEF WorkHolds
  <2>4. t = sub[review[v].sub].task
    BY <1>3, <2>1, WorkFields DEF Work!Reopen
  <2> QED
    BY <2>3, <2>4
<1> QED
  BY <1>1, <1>2, <1>3 DEF WorkHolds, Launched

\* Every step keeps work with published campaigns.
LEMMA WorkHoldsStep ==
    ASSUME MoneyInv, Work!ReviewInv, WorkHolds, CampaignNext
    PROVE  WorkHolds'
<1>1. \A t \in Tasks : Launched(t) => Launched(t)'
  BY LaunchedLasts DEF MoneyInv
<1>2. CASE UNCHANGED <<app, sub, hand, paid>>
  <2>1. \A h \in Hands : hand'[h].step # "idle" => Launched(hand[h].task)'
    BY <1>1, <1>2, WorkFields DEF WorkHolds
  <2> QED
    BY <1>1, <1>2, <2>1 DEF WorkHolds
<1>3. CASE Manage
  BY <1>2, <1>3, ManageMoves DEF MoneyInv, Manage, workVars
<1>4. CASE (\E q \in Slots : Reprice(q)) \/ (\E t \in Tasks : Resize(t))
  BY <1>2, <1>4 DEF Reprice, Resize, Work!ChangePlaces, allVars, settleVars
<1>5. CASE \E h \in Hands : Contribute(h)
  BY <1>1, <1>5, ContributeHolds
<1>6. ASSUME NEW v \in Reviews, Decide(v)
      PROVE  WorkHolds'
  <2>1. Work!Judge(v) /\ task' = task /\ paid' = paid
    BY <1>6 DEF Decide, Work!Judge, allVars, vars, settleVars
  <2> QED
    BY <2>1, ReviewHolds DEF WorkHolds
<1>7. ASSUME NEW v \in Reviews, NEW n \in Shares, PayContributor(v, n)
      PROVE  WorkHolds'
  <2>1. Work!Judge(v) /\ task' = task
    BY <1>7 DEF PayContributor, Work!Judge, vars
  <2>2. review[v].step # "idle"
    BY <1>7 DEF PayContributor, Work!Credit
  <2>3. Launched(sub[review[v].sub].task)
    BY <2>2, UnderReview DEF WorkHolds
  <2>4. \A t \in Tasks : t # sub[review[v].sub].task => paid'[t] = paid[t]
    BY <1>7 DEF PayContributor, MoneyInv, SettlementInv, SettlementTypeOK
  <2> QED
    BY <2>1, <2>3, <2>4, ReviewHolds DEF WorkHolds
<1> QED
  BY <1>3, <1>4, <1>5, <1>6, <1>7 DEF CampaignNext

-----------------------------------------------------------------------------
(* The payouts a settlement subtracts are those of the submissions          *)

\* Races stay on record, and submissions stay with their campaign.
LEMMA OnRecord ==
    ASSUME Work!ReviewInv, [Work!Next]_(Work!vars)
    PROVE  /\ raced \subseteq raced'
           /\ \A s \in Subs : sub[s].task \in Tasks => sub'[s].task = sub[s].task
<1>1. CASE UNCHANGED Work!vars \/ Work!Campaign
  BY <1>1 DEF Work!vars, Work!Campaign, Work!ChangeStatus, Work!ChangePlaces
<1>2. ASSUME NEW h \in Hands, Work!Contribute(h)
      PROVE  /\ raced \subseteq raced'
             /\ \A s \in Subs : sub[s].task \in Tasks => sub'[s].task = sub[s].task
  <2>1. ASSUME NEW s \in Subs, Work!InsertSubmission(h, s)
        PROVE  \A u \in Subs : sub[u].task \in Tasks => sub'[u].task = sub[u].task
    <3>1. sub[s].task = NoTask
      BY <2>1 DEF Work!InsertSubmission, Work!ReviewInv, Work!SubsHold
    <3> QED
      BY <2>1, <3>1, PaymentAssumption, WorkFields DEF Work!InsertSubmission
  <2>2. ASSUME NEW s \in Subs, Work!InsertSubmission(h, s) PROVE raced' = raced
    BY <2>2 DEF Work!InsertSubmission
  <2>3. CASE \A s \in Subs : ~Work!InsertSubmission(h, s)
    BY <1>2, <2>3 DEF Work!Contribute, Work!ApplyForTask, Work!CreateSubmission,
       Work!CountApplications, Work!InsertApplication, Work!LookupSubmission,
       Work!CompleteApplication, Work!DropHand, Work!Note
  <2> QED
    BY <2>1, <2>2, <2>3
<1>3. ASSUME NEW v \in Reviews, Work!Judge(v)
      PROVE  /\ raced \subseteq raced'
             /\ \A s \in Subs : sub[s].task \in Tasks => sub'[s].task = sub[s].task
  <2>1. CASE Work!Approve(v) \/ Work!Reject(v)
    BY <2>1, UnderReview, WorkFields DEF Work!Approve, Work!Reject, Work!Submission
  <2>2. CASE ~(Work!Approve(v) \/ Work!Reject(v))
    BY <1>3, <2>2 DEF Work!Judge, Work!Decide, Work!VerifySubmission, Work!RejectSubmission,
       Work!Open, Work!FindPayout, Work!CountPayouts, Work!Reopen, Work!DropReview,
       Work!Credit, Work!Note
  <2> QED
    BY <2>1, <2>2
<1> QED
  BY <1>1, <1>2, <1>3 DEF Work!Next

\* Without a credit the same submissions are paid.
LEMMA PaidKept ==
    ASSUME Work!ReviewInv, [Work!Next]_(Work!vars), payout' = payout, NEW t \in Tasks
    PROVE  Work!Paid(t)' = Work!Paid(t)
<1>1. ASSUME NEW s \in Subs, sub[s].task \notin Tasks PROVE ~(payout[s] > 0)
  BY <1>1 DEF Work!ReviewInv, Work!SubsHold
<1>2. ASSUME NEW s \in Subs, payout[s] > 0 PROVE sub'[s].task = sub[s].task
  BY <1>1, <1>2, OnRecord
<1> QED
  BY <1>2 DEF Work!Paid

\* A payout in flight finds its submission unpaid until it credits: whoever else pays
\* the submission pays the campaign, too, and is recorded.
LEMMA UnpaidStep ==
    ASSUME Work!ReviewInv, [Work!Next]_(Work!vars), NEW t \in Tasks,
           PaysOneByOne(t), Unpaid(t)
    PROVE  Unpaid(t)'
<1>1. SUFFICES ASSUME NEW w \in Reviews, Work!Pays(w, t)'
               PROVE  payout'[review'[w].sub] = 0
  BY DEF Unpaid
<1>2. ASSUME UNCHANGED <<review, payout>>
      PROVE  payout'[review'[w].sub] = 0
  <2>1. sub'[review[w].sub].task = sub[review[w].sub].task
    BY <1>1, <1>2, UnderReview, OnRecord DEF Work!Pays
  <2> QED
    BY <1>1, <1>2, <2>1 DEF Work!Pays, Unpaid
<1>3. ASSUME NEW v \in Reviews, Work!Judge(v)
      PROVE  payout'[review'[w].sub] = 0
  <2>1. review \in [Reviews -> Work!ReviewJob]
    BY DEF Work!ReviewInv, Work!TypeOK
  <2>2. \A u \in Reviews \ {v} : review'[u] = review[u]
    BY <1>3, <2>1 DEF Work!Judge, Work!Decide, Work!VerifySubmission,
       Work!RejectSubmission, Work!Open, Work!Approve, Work!FindPayout,
       Work!CountPayouts, Work!Reject, Work!Reopen, Work!DropReview, Work!Credit,
       Work!GoReview, Work!LeaveReview
  <2>3. ASSUME review'[w].sub = review[w].sub, Work!Pays(w, t)
        PROVE  payout'[review'[w].sub] = 0
    <3>1. payout[review[w].sub] = 0
      BY <2>3 DEF Unpaid
    <3>2. CASE payout' = payout
      BY <2>3, <3>1, <3>2
    <3>3. CASE Work!Credit(v)
      <4>1. w # v
        BY <1>1, <2>1, <2>2, <3>3
        DEF Work!Credit, Work!LeaveReview, Work!IdleReview, Work!Pays
      <4>2. ~Work!Pays(v, t)
        BY <2>3, <4>1 DEF Work!ReviewInv, Work!PayHolds, Work!PaysAlone, PaysOneByOne
      <4>3. review[v].sub # review[w].sub
        BY <2>3, <3>3, <4>2 DEF Work!Credit, Work!Pays
      <4>4. review[v].sub \in Subs /\ review[w].sub \in Subs /\ payout \in [Subs -> Nat]
        BY <2>3, <3>3, UnderReview, WorkFields DEF Work!Credit, Work!Pays
      <4> QED
        BY <2>3, <3>1, <3>3, <4>3, <4>4 DEF Work!Credit
    <3> QED
      BY <1>3, <3>2, <3>3 DEF Work!Judge, Work!Decide, Work!VerifySubmission,
         Work!RejectSubmission, Work!Open, Work!Approve, Work!FindPayout,
         Work!CountPayouts, Work!Reject, Work!Reopen, Work!DropReview
  <2>4. CASE w # v
    <3>1. review'[w] = review[w]
      BY <2>1, <2>2, <2>4
    <3>2. sub'[review[w].sub].task = sub[review[w].sub].task
      BY <1>1, <1>3, <3>1, UnderReview, OnRecord DEF Work!Pays
    <3> QED
      BY <1>1, <2>3, <3>1, <3>2 DEF Work!Pays
  <2>5. CASE w = v /\ Work!FindPayout(v)
    <3>1. CASE payout[review[v].sub] > 0
      BY <1>1, <2>1, <2>2, <2>5, <3>1
      DEF Work!FindPayout, Work!LeaveReview, Work!IdleReview, Work!Pays
    <3>2. CASE ~(payout[review[v].sub] > 0)
      <4>1. review'[v].sub = review[v].sub /\ payout' = payout
        BY <2>1, <2>2, <2>5, <3>2 DEF Work!FindPayout, Work!ReviewJob
      <4>2. payout[review[v].sub] \in Nat
        BY <2>5, UnderReview, WorkFields DEF Work!FindPayout
      <4> QED
        BY <2>5, <3>2, <4>1, <4>2
    <3> QED
      BY <3>1, <3>2
  <2>6. CASE w = v /\ Work!CountPayouts(v)
    <3>1. review'[v].sub = review[v].sub
      BY <2>1, <2>2, <2>6 DEF Work!CountPayouts, Work!ReviewJob
    <3>2. Work!Pays(v, t)
      BY <1>1, <2>6, <3>1 DEF Work!CountPayouts, Work!Pays
    <3> QED
      BY <2>3, <2>6, <3>1, <3>2
  <2>7. CASE w = v /\ ~Work!FindPayout(v) /\ ~Work!CountPayouts(v)
    <3>1. review'[v].step \notin {"free", "credit"}
      <4>1. ASSUME NEW s \in Subs,
                   Work!VerifySubmission(v, s) \/ Work!RejectSubmission(v, s)
            PROVE  review'[v].step \in {"approve", "reject"}
        BY <2>1, <4>1 DEF Work!VerifySubmission, Work!RejectSubmission, Work!Open
      <4>2. CASE Work!Approve(v) \/ Work!Reject(v)
        BY <2>1, <4>2 DEF Work!Approve, Work!Reject, Work!GoReview, Work!ReviewJob
      <4>3. CASE Work!Reopen(v) \/ Work!DropReview(v) \/ Work!Credit(v)
        BY <2>1, <4>3 DEF Work!Reopen, Work!DropReview, Work!Credit, Work!LeaveReview,
           Work!IdleReview
      <4> QED
        BY <1>3, <2>7, <4>1, <4>2, <4>3 DEF Work!Judge, Work!Decide
    <3> QED
      BY <1>1, <2>7, <3>1 DEF Work!Pays
  <2> QED
    BY <2>4, <2>5, <2>6, <2>7
<1>4. CASE UNCHANGED Work!vars \/ Work!Campaign
  BY <1>2, <1>4 DEF Work!vars, Work!Campaign, Work!ChangeStatus, Work!ChangePlaces
<1>5. ASSUME NEW h \in Hands, Work!Contribute(h)
      PROVE  payout'[review'[w].sub] = 0
  BY <1>2, <1>5 DEF Work!Contribute, Work!ApplyForTask, Work!CreateSubmission,
     Work!CountApplications, Work!InsertApplication, Work!LookupSubmission,
     Work!InsertSubmission, Work!CompleteApplication, Work!DropHand
<1> QED
  BY <1>3, <1>4, <1>5 DEF Work!Next

\* One share more: the least and the largest of the shares bound the sum again.
LEMMA OneShareMore ==
    ASSUME NEW p \in Nat, NEW c \in Nat, NEW x \in Shares,
           IF c = 0 THEN p = 0
           ELSE \E least, most \in Shares : least * c <= p /\ p <= most * c
    PROVE  /\ c + 1 # 0
           /\ \E least, most \in Shares :
                 least * (c + 1) <= p + x /\ p + x <= most * (c + 1)
<1>1. x \in Nat /\ Shares \subseteq Nat
  BY SettlementAssumption
<1>2. \A n \in Nat : n * (c + 1) = n * c + n /\ n * c \in Nat
  OBVIOUS
<1>3. CASE c = 0
  BY <1>1, <1>3
<1>4. CASE c # 0
  <2>1. PICK least \in Shares, most \in Shares : least * c <= p /\ p <= most * c
    BY <1>4
  <2>2. \A n, m \in Nat : n <= m => n * c <= m * c
    OBVIOUS
  <2>3. \E n \in Shares : n * (c + 1) <= p + x
    <3>1. CASE least <= x
      BY <1>1, <1>2, <2>1, <3>1
    <3>2. CASE x < least
      <4>1. x * c <= least * c
        BY <1>1, <2>2, <3>2
      <4> QED
        BY <1>1, <1>2, <2>1, <4>1
    <3> QED
      BY <1>1, <3>1, <3>2
  <2>4. \E n \in Shares : p + x <= n * (c + 1)
    <3>1. CASE x <= most
      BY <1>1, <1>2, <2>1, <3>1
    <3>2. CASE most < x
      <4>1. most * c <= x * c
        BY <1>1, <2>2, <3>2
      <4> QED
        BY <1>1, <1>2, <2>1, <4>1
    <3> QED
      BY <1>1, <3>1, <3>2
  <2> QED
    BY <2>3, <2>4
<1> QED
  BY <1>3, <1>4

\* The payout of a campaign that pays one by one is the submission's first, and takes
\* its share.
LEMMA PayoutCounts ==
    ASSUME MoneyInv, Work!ReviewInv, PaidHolds, NEW v \in Reviews, NEW n \in Shares,
           PayContributor(v, n), NEW t \in Tasks, PaysOneByOne(t)
    PROVE  Shared(t)'
<1> DEFINE s == review[v].sub
<1>1. /\ review[v].step = "credit"
      /\ payout' = [payout EXCEPT ![s] = @ + 1]
      /\ sub' = sub
      /\ paid' = [paid EXCEPT ![sub[s].task] = @ + n]
  BY DEF PayContributor, Work!Credit
<1>2. s \in Subs /\ sub[s].task \in Tasks /\ payout \in [Subs -> Nat]
  BY <1>1, UnderReview, WorkFields
<1>3. IsFiniteSet(Work!Paid(t)) /\ Cardinality(Work!Paid(t)) \in Nat
  <2>1. IsFiniteSet(Work!Paid(t))
    BY SameCount DEF Work!ReviewInv, Work!PayHolds
  <2> QED
    BY <2>1, FS_CardinalityType
<1>4. paid \in [Tasks -> Nat] /\ Shared(t)
  BY DEF PaidHolds, MoneyInv, SettlementInv, SettlementTypeOK
<1>5. CASE sub[s].task # t
  <2>1. Work!Paid(t)' = Work!Paid(t)
    BY <1>1, <1>2, <1>5 DEF Work!Paid
  <2>2. paid'[t] = paid[t]
    BY <1>1, <1>4, <1>5
  <2> QED
    BY <1>4, <2>1, <2>2 DEF Shared
<1>6. CASE sub[s].task = t
  <2>1. payout[s] = 0
    BY <1>1, <1>6 DEF PaidHolds, Unpaid, Work!Pays
  <2>2. s \notin Work!Paid(t) /\ Work!Paid(t)' = Work!Paid(t) \cup {s}
    BY <1>1, <1>2, <1>6, <2>1 DEF Work!Paid
  <2>3. Cardinality(Work!Paid(t)') = Cardinality(Work!Paid(t)) + 1
    BY <1>3, <2>2, FS_AddElement
  <2>4. paid'[t] = paid[t] + n
    BY <1>1, <1>4, <1>6
  <2> QED
    <3> DEFINE count == Cardinality(Work!Paid(t))
    <3>1. IF count = 0 THEN paid[t] = 0
          ELSE \E least, most \in Shares : least * count <= paid[t] /\ paid[t] <= most * count
      BY <1>4 DEF Shared
    <3>2. count \in Nat /\ paid[t] \in Nat
      BY <1>3, <1>4
    <3> HIDE DEF count
    <3>3. /\ count + 1 # 0
          /\ \E least, most \in Shares :
                least * (count + 1) <= paid[t] + n /\ paid[t] + n <= most * (count + 1)
      BY <3>1, <3>2, OneShareMore
    <3>4. Cardinality(Work!Paid(t)') = count + 1
      BY <2>3 DEF count
    <3> QED
      BY <2>4, <3>3, <3>4 DEF Shared
<1> QED
  BY <1>5, <1>6

\* Every step keeps the sum of the payouts within what the paid submissions may cost.
LEMMA PaidHoldsStep ==
    ASSUME MoneyInv, Work!ReviewInv, PaidHolds, CampaignNext
    PROVE  PaidHolds'
<1>1. [Work!Next]_(Work!vars)
  BY StepIsWork
<1>2. SUFFICES ASSUME NEW t \in Tasks, PaysOneByOne(t)'
               PROVE  Shared(t)' /\ Unpaid(t)'
  BY SameCount DEF PaidHolds
<1>3. PaysOneByOne(t)
  BY <1>1, <1>2, OnRecord DEF PaysOneByOne
<1>4. Unpaid(t)'
  BY <1>1, <1>3, UnpaidStep DEF PaidHolds
<1>5. ASSUME NEW v \in Reviews, NEW n \in Shares, PayContributor(v, n)
      PROVE  Shared(t)'
  BY <1>3, <1>5, PayoutCounts
<1>6. CASE \A v \in Reviews, n \in Shares : ~PayContributor(v, n)
  <2>1. paid' = paid
    <3>1. CASE Manage
      BY <3>1, ManageMoves DEF MoneyInv
    <3>2. CASE ~Manage
      BY <1>6, <3>2 DEF CampaignNext, Reprice, Resize, Contribute, Decide, allVars,
         settleVars
    <3> QED
      BY <3>1, <3>2
  <2>2. payout' = payout
    BY <1>6 DEF CampaignNext, Manage, Reprice, Resize, Contribute, Decide, workVars,
       Work!ChangePlaces, Work!Contribute, Work!ApplyForTask, Work!CreateSubmission,
       Work!CountApplications, Work!InsertApplication, Work!LookupSubmission,
       Work!InsertSubmission, Work!CompleteApplication, Work!DropHand,
       Work!Decide, Work!VerifySubmission, Work!RejectSubmission, Work!Open, Work!Approve,
       Work!FindPayout, Work!CountPayouts, Work!Reject, Work!Reopen, Work!DropReview
  <2>3. Work!Paid(t)' = Work!Paid(t)
    BY <1>1, <2>2, PaidKept
  <2> QED
    BY <1>3, <1>4, <2>1, <2>3 DEF PaidHolds, Shared
<1> QED
  BY <1>4, <1>5, <1>6

-----------------------------------------------------------------------------
(* Only what was published is settled                                       *)

\* A settlement refunds, files and works for campaigns that were published.
LEMMA SettledHoldsStep ==
    ASSUME MoneyInv, SettledHolds, CampaignNext
    PROVE  SettledHolds'
<1>1. \A t \in Tasks : Launched(t) => Launched(t)'
  BY LaunchedLasts DEF MoneyInv
<1>2. SettlementInv
  BY DEF MoneyInv
<1> DEFINE FromLaunched ==
             /\ \A t \in Tasks : refunds'[t] # refunds[t] => Launched(t)
             /\ \A k \in Terms : term'[k].task = term[k].task \/ Launched(term'[k].task)
             /\ \A e \in Desks : desk'[e].step # "idle" =>
                   \/ desk[e].step # "idle" /\ desk'[e].task = desk[e].task
                   \/ desk'[e].task \in Tasks /\ Launched(desk'[e].task)
<1>3. ASSUME NEW d \in Desks, SettlementRequest(d) \/ SettlementHandler(d) \/ DropDesk(d)
      PROVE  FromLaunched
  <2>1. /\ desk \in [Desks -> Desk] /\ term \in [Terms -> TermRow]
        /\ refunds \in [Tasks -> Nat]
    BY <1>2 DEF SettlementInv, SettlementTypeOK
  <2>2. desk[d].step # "idle" => Launched(desk[d].task)
    BY DEF SettledHolds
  <2>3. ASSUME NEW t \in Tasks, PauseTask(d, t) \/ EndTask(d, t) \/ TerminateTask(d, t)
        PROVE  FromLaunched
    BY <2>1, <2>3 DEF PauseTask, EndTask, TerminateTask, Take, Launched
  <2>4. ASSUME NEW k \in Terms, NEW decision \in {"PROCESSED", "CANCELLED"},
               ProcessTermination(d, k, decision)
        PROVE  FromLaunched
    <3>1. term[k].task \in Tasks
      BY <1>2, <2>4 DEF SettlementInv, TermsHold, ProcessTermination
    <3>2. Launched(term[k].task)
      BY <3>1 DEF SettledHolds, WasSettled
    <3> QED
      BY <2>1, <2>4, <3>1, <3>2 DEF ProcessTermination, Take
  <2>5. CASE CreditRefund(d) \/ PayTermination(d)
    BY <2>1, <2>2, <2>5 DEF CreditRefund, PayTermination, Refund, Desk
  <2>6. ASSUME NEW k \in Terms, HoldRefund(d, k)
        PROVE  FromLaunched
    BY <2>1, <2>2, <2>6 DEF HoldRefund, Desk, TermRow
  <2>7. CASE ListSubmissions(d) \/ SumPayouts(d)
    BY <2>1, <2>7 DEF ListSubmissions, SumPayouts, Desk
  <2>8. CASE FileTermination(d)
    BY <2>1, <2>8 DEF FileTermination, Leave, Vacant, TermRow
  <2>9. CASE CloseCampaign(d) \/ MarkTerminated(d) \/ DropDesk(d)
    BY <2>1, <2>9 DEF CloseCampaign, MarkTerminated, DropDesk, Leave, Vacant
  <2> HIDE DEF FromLaunched
  <2> QED
    BY <1>3, <2>3, <2>4, <2>5, <2>6, <2>7, <2>8, <2>9
    DEF SettlementRequest, SettlementHandler
<1>4. ASSUME NEW d \in Desks, SettlementRequest(d) \/ SettlementHandler(d) \/ DropDesk(d)
      PROVE  SettledHolds'
  <2>1. ASSUME NEW t \in Tasks, WasSettled(t)'
        PROVE  Launched(t)'
    BY <1>1, <1>3, <1>4, <2>1 DEF SettledHolds, WasSettled
  <2>2. ASSUME NEW e \in Desks, desk'[e].step # "idle"
        PROVE  Launched(desk[e].task)'
    <3>1. \A u \in Tasks :
             desk'[e].task = u /\ Launched(desk'[e].task) => Launched(desk[e].task)'
      BY <1>1 DEF Launched
    <3>2. desk[e].step # "idle" => desk[e].task \in Tasks /\ Launched(desk[e].task)
      BY <1>2 DEF SettlementInv, DesksHold, SettledHolds
    <3> QED
      BY <1>3, <1>4, <2>2, <3>1, <3>2
  <2> QED
    BY <2>1, <2>2 DEF SettledHolds
<1>5. ASSUME UNCHANGED <<term, refunds>>,
             \A d \in Desks : desk'[d].step = desk[d].step /\ desk'[d].task = desk[d].task
      PROVE  SettledHolds'
  <2>1. \A t \in Tasks : WasSettled(t)' <=> WasSettled(t)
    BY <1>5 DEF WasSettled
  <2>2. \A d \in Desks : desk[d].step # "idle" => desk[d].task \in Tasks
    BY <1>2 DEF SettlementInv, DesksHold
  <2>3. \A d \in Desks : desk'[d].step # "idle" => Launched(desk[d].task)'
    BY <1>1, <1>5, <2>2 DEF SettledHolds, Launched
  <2> QED
    BY <1>1, <2>1, <2>3 DEF SettledHolds
<1>6. ASSUME NEW v \in Reviews, NEW n \in Shares, PayContributor(v, n)
      PROVE  SettledHolds'
  <2>1. PICK M \in SUBSET Desks : desk' = Overlooked(M, n)
    BY <1>6 DEF PayContributor, Summing
  <2>2. UNCHANGED <<term, refunds>>
    BY <1>6 DEF PayContributor
  <2> QED
    BY <1>2, <1>5, <2>1, <2>2, OverlookedFields
<1>7. CASE UNCHANGED <<term, refunds, desk>>
  BY <1>5, <1>7
<1> QED
  BY <1>4, <1>6, <1>7 DEF CampaignNext, Manage, Reprice, Resize, Contribute, Decide,
     allVars, settleVars

-----------------------------------------------------------------------------
(* What was published was charged at the price in the row                   *)

\* What a handler in flight knows of Paystack's transactions and of the price.
Right(m) ==
    /\ m.step = "find" /\ m.paid =>
          m.ref \in Refs /\ tx[m.ref].st = "success" /\ m.amount = tx[m.ref].amount
    /\ m.step = "mark" => m.ref \in Refs
    /\ \A t \in Tasks \ repriced : m.task = t => Prices(m, t)

\* So know all of them.
LEMMA RequestsRight ==
    ASSUME PaymentInv, PriceHolds, NEW q \in Slots
    PROVE  Right(req[q])
  BY DEF PaymentInv, RequestsHold, RequestHolds, PriceHolds, Right

\* A verdict to mark the row was given at the price it was asked for.
LEMMA VerdictCovers ==
    ASSUME NEW t \in Tasks, NEW r \in Refs, NEW price, NEW amount, NEW holds \in BOOLEAN,
           holds => tx[r].st = "success" /\ amount = tx[r].amount,
           t \notin repriced => price = task[t].total
    PROVE  Right(Verdict(t, price, r, amount, holds))
<1> DEFINE m == Verdict(t, price, r, amount, holds)
<1>1. CASE holds /\ Matches(t, price, r, amount)
  <2>1. m.step = "mark" /\ m.task = t /\ m.ref = r
    BY <1>1 DEF Verdict, At
  <2>2. t \notin repriced => Covers(r, t)
    BY <1>1 DEF Covers
  <2> QED
    BY <2>1, <2>2 DEF Right, Prices
<1>2. CASE ~(holds /\ Matches(t, price, r, amount))
  <2>1. m.step \in {"fail", "idle"}
    BY <1>2 DEF Verdict, Idle, At
  <2> QED
    BY <2>1 DEF Right, Prices
<1> QED
  BY <1>1, <1>2

\* A handler goes on with what it just read.
LEMMA NextIsRight ==
    ASSUME PaymentInv, PriceHolds, [Next]_vars, NEW q \in Slots
    PROVE  Right(req'[q])
<1>1. req \in [Slots -> Request]
  BY DEF PaymentInv, TypeOK
<1>2. Right(req[q])
  BY RequestsRight
<1>3. \A m : m.step \notin {"ask", "find", "mark", "activate"} => Right(m)
  BY DEF Right, Prices
<1>4. ASSUME NEW p \in Slots, NEW t \in Tasks, NEW r \in Refs,
             InitiatePayment(p, t, r) \/ VerifyPayment(p, t, r)
      PROVE  Right(req'[q])
  <2>1. CASE InitiatePayment(p, t, r)
    BY <1>1, <1>2, <1>3, <2>1 DEF InitiatePayment, Begin, Continue, At
  <2>2. CASE VerifyPayment(p, t, r)
    <3> DEFINE m == At("ask", t, r, task[t].total, FALSE)
    <3>1. Right(m)
      BY DEF Right, Prices, At
    <3> QED
      BY <1>1, <1>2, <2>2, <3>1 DEF VerifyPayment, Begin, Continue
  <2> QED
    BY <1>4, <2>1, <2>2
<1>5. ASSUME NEW p \in Slots, NEW r \in Refs, VerifyOverwritten(p, r) \/ WebhookSuccess(p, r)
      PROVE  Right(req'[q])
  <2>1. CASE VerifyOverwritten(p, r)
    <3> DEFINE m == At("ask", NoTask, r, 0, FALSE)
    <3>1. Right(m)
      BY PaymentAssumption DEF Right, At
    <3> QED
      BY <1>1, <1>2, <2>1, <3>1 DEF VerifyOverwritten, Begin, Continue
  <2>2. CASE WebhookSuccess(p, r)
    <3> DEFINE m == At("find", NoTask, r, tx[r].amount, TRUE)
    <3>1. Right(m)
      BY <2>2, PaymentAssumption DEF Right, At, WebhookSuccess
    <3> QED
      BY <1>1, <1>2, <2>2, <3>1 DEF WebhookSuccess, Begin, Continue
  <2> QED
    BY <1>5, <2>1, <2>2
<1>6. ASSUME NEW p \in Slots, NEW t \in Tasks, PublishTask(p, t)
      PROVE  Right(req'[q])
  <2> DEFINE m == At("activate", t, NoRef, 0, FALSE)
  <2>1. Right(m)
    BY <1>6 DEF Right, Prices, At, PublishTask, PriceHolds
  <2> QED
    BY <1>1, <1>2, <1>6, <2>1 DEF PublishTask, Begin, Continue
<1>7. ASSUME NEW p \in Slots, NEW t \in Tasks, NEW a \in Amounts, UpdateTask(p, t, a)
      PROVE  Right(req'[q])
  BY <1>1, <1>2, <1>3, <1>7 DEF UpdateTask, Begin, Continue, At
<1>8. ASSUME NEW p \in Slots, PaystackAnswers(p)
      PROVE  Right(req'[q])
  <2> DEFINE r == req[p].ref
             holds == tx[r].st = "success"
             found == At("find", NoTask, r, tx[r].amount, holds)
             judged == Verdict(req[p].task, req[p].amount, r, tx[r].amount, holds)
  <2>1. r \in Refs /\ req[p].step = "ask" /\ req[p].task \in Tasks \cup {NoTask}
    BY <1>1, <1>8 DEF PaymentInv, RequestsHold, RequestHolds, PaystackAnswers, Request
  <2>2. Right(found)
    BY <2>1, PaymentAssumption DEF Right, At
  <2>3. ASSUME req[p].task \in Tasks PROVE Right(judged)
    <3>1. req[p].task \notin repriced => req[p].amount = task[req[p].task].total
      BY <2>1, <2>3 DEF PriceHolds, Prices
    <3> HIDE DEF r
    <3> QED
      BY <2>1, <2>3, <3>1, VerdictCovers
  <2> QED
    BY <1>1, <1>2, <1>8, <2>1, <2>2, <2>3 DEF PaystackAnswers, Continue
<1>9. ASSUME NEW p \in Slots, FindTask(p)
      PROVE  Right(req'[q])
  <2> DEFINE r == req[p].ref
             t == r.task
             judged == Verdict(t, task[t].total, r, req[p].amount, req[p].paid)
  <2>1. /\ r \in Refs /\ t \in Tasks /\ req[p].paid \in BOOLEAN
        /\ req[p].paid => tx[r].st = "success" /\ req[p].amount = tx[r].amount
    BY <1>1, <1>9 DEF PaymentInv, RequestsHold, RequestHolds, FindTask, Request, Refs,
       PriceHolds
  <2>2. Right(judged)
    <3> HIDE DEF r
    <3> QED
      BY <2>1, VerdictCovers
  <2>3. Right(Idle)
    BY <1>3 DEF Idle, At
  <2> QED
    BY <1>1, <1>2, <1>9, <2>2, <2>3 DEF FindTask, Continue
<1>10. ASSUME NEW p \in Slots,
              \/ InitializeAtPaystack(p) \/ StoreReference(p) \/ MarkPaid(p)
              \/ MarkFailed(p) \/ Activate(p) \/ Rewrite(p) \/ Abandon(p)
       PROVE  Right(req'[q])
  <2>1. req'[q] = req[q] \/ req'[q].step \in {"store", "idle"}
    BY <1>1, <1>10 DEF InitializeAtPaystack, StoreReference, MarkPaid, MarkFailed, Activate,
       Rewrite, Abandon, Return, Continue, Idle, At, Request
  <2> QED
    BY <1>2, <1>3, <2>1
<1>11. CASE req' = req
  BY <1>2, <1>11
<1> QED
  BY <1>4, <1>5, <1>6, <1>7, <1>8, <1>9, <1>10, <1>11
  DEF Next, Creator, Handler, Paystack, PayCheckout, DeclineCheckout, WebhookFailed, vars

\* Paystack's record of a successful charge no longer changes.
LEMMA ChargesFrozen ==
    ASSUME PaymentInv, [Next]_vars, NEW r \in Refs, tx[r].st = "success"
    PROVE  tx'[r] = tx[r]
<1>1. tx \in [Refs -> Transaction]
  BY DEF PaymentInv, TypeOK
<1>2. ASSUME NEW q \in Slots, InitializeAtPaystack(q)
      PROVE  tx'[r] = tx[r]
  BY <1>1, <1>2 DEF InitializeAtPaystack
<1>3. ASSUME NEW q \in Slots, StoreReference(q)
      PROVE  tx'[r] = tx[r]
  <2> DEFINE s == req[q].ref
  <2>1. tx' = [tx EXCEPT ![s].st = IF tx[s].st = "issued" THEN "open" ELSE tx[s].st]
    BY <1>3 DEF StoreReference
  <2>2. CASE s # r
    BY <1>1, <2>1, <2>2
  <2>3. CASE s = r
    BY <1>1, <2>1, <2>3 DEF Transaction
  <2> QED
    BY <2>2, <2>3
<1>4. ASSUME NEW s \in Refs, PayCheckout(s) \/ DeclineCheckout(s)
      PROVE  tx'[r] = tx[r]
  BY <1>1, <1>4 DEF PayCheckout, DeclineCheckout
<1>5. CASE tx' = tx
  BY <1>5
<1>6. ASSUME NEW q \in Slots, Creator(q) \/ Abandon(q)
      PROVE  tx' = tx
  BY <1>6 DEF Creator, Abandon, InitiatePayment, VerifyPayment, VerifyOverwritten,
     PublishTask, UpdateTask
<1>7. ASSUME NEW q \in Slots, Handler(q), ~InitializeAtPaystack(q), ~StoreReference(q)
      PROVE  tx' = tx
  BY <1>7 DEF Handler, PaystackAnswers, FindTask, MarkPaid, MarkFailed, Activate, Rewrite
<1>8. CASE Paystack
  BY <1>4, <1>5, <1>8 DEF Paystack, WebhookSuccess, WebhookFailed
<1> QED
  BY <1>2, <1>3, <1>5, <1>6, <1>7, <1>8 DEF Next, vars

\* A campaign is published or marked PAID by a handler that saw its charge.
LEMMA PaidWasCovered ==
    ASSUME PaymentInv, PriceHolds, [Next]_vars, NEW t \in Tasks \ repriced,
           Launched(t)' \/ task'[t].pay = "PAID"
    PROVE  Covered(t)
<1>1. task \in [Tasks -> TaskRow]
  BY DEF PaymentInv, TypeOK
<1>2. CASE Launched(t) \/ task[t].pay = "PAID"
  BY <1>2 DEF PriceHolds
<1>3. ASSUME NEW q \in Slots, Activate(q), req[q].task = t
      PROVE  Covered(t)
  BY <1>3 DEF Activate, PriceHolds, Prices
<1>4. ASSUME NEW q \in Slots, MarkPaid(q), req[q].task = t
      PROVE  Covered(t)
  <2>1. Covers(req[q].ref, t) /\ req[q].ref \in Refs
    BY <1>4 DEF MarkPaid, PriceHolds, Prices, PaymentInv, RequestsHold, RequestHolds
  <2> QED
    BY <2>1 DEF Covered
<1>5. ASSUME NEW q \in Slots, Handler(q), ~(Activate(q) /\ req[q].task = t),
             ~(MarkPaid(q) /\ req[q].task = t)
      PROVE  Launched(t) \/ task[t].pay = "PAID"
  <2>1. CASE Activate(q) \/ MarkPaid(q)
    BY <1>1, <1>5, <2>1 DEF Activate, MarkPaid, Launched
  <2>2. CASE StoreReference(q)
    BY <1>1, <2>2 DEF StoreReference, Launched, TaskRow
  <2>3. CASE MarkFailed(q)
    BY <1>1, <2>3 DEF MarkFailed, Launched, TaskRow
  <2>4. CASE Rewrite(q)
    BY <1>1, <2>4 DEF Rewrite, Launched, TaskRow
  <2>5. CASE InitializeAtPaystack(q) \/ PaystackAnswers(q) \/ FindTask(q)
    BY <2>5 DEF InitializeAtPaystack, PaystackAnswers, FindTask, Launched
  <2> QED
    BY <1>5, <2>1, <2>2, <2>3, <2>4, <2>5 DEF Handler
<1>6. ASSUME NEW q \in Slots, Creator(q) \/ Abandon(q)
      PROVE  task' = task
  BY <1>6 DEF Creator, Abandon, InitiatePayment, VerifyPayment, VerifyOverwritten,
     PublishTask, UpdateTask
<1>7. ASSUME NEW r \in Refs, WebhookFailed(r)
      PROVE  Launched(t) \/ task[t].pay = "PAID"
  BY <1>1, <1>7 DEF WebhookFailed, Launched, TaskRow
<1>8. CASE task' = task
  BY <1>2, <1>8 DEF Launched
<1>9. CASE Paystack
  BY <1>2, <1>7, <1>8, <1>9 DEF Paystack, PayCheckout, DeclineCheckout, WebhookSuccess
<1> QED
  BY <1>2, <1>3, <1>4, <1>5, <1>6, <1>8, <1>9 DEF Next, vars

\* A settlement closes what was published, and marks nothing PAID.
LEMMA ClosedWasCovered ==
    ASSUME MoneyInv, SettledHolds, PriceHolds, NEW d \in Desks,
           SettlementRequest(d) \/ SettlementHandler(d) \/ DropDesk(d)
    PROVE  /\ UNCHANGED <<tx, req>>
           /\ \A t \in Tasks : task'[t].total = task[t].total
           /\ \A t \in Tasks \ repriced :
                 Launched(t)' \/ task'[t].pay = "PAID" => Covered(t)
<1>1. task \in [Tasks -> TaskRow]
  BY DEF MoneyInv, SettlementInv, PaymentInv, TypeOK
<1>2. desk[d].step # "idle" => Launched(desk[d].task)
  BY DEF SettledHolds
<1>3. CASE CloseCampaign(d)
  <2> DEFINE u == desk[d].task
  <2>1. /\ Launched(u) /\ UNCHANGED <<tx, req>>
        /\ \A t \in Tasks : task'[t].total = task[t].total
        /\ \A t \in Tasks : t # u => task'[t] = task[t]
        /\ \A t \in Tasks : task'[t].pay \in {task[t].pay, "REFUNDED"}
    BY <1>1, <1>2, <1>3 DEF CloseCampaign, TaskRow
  <2> QED
    BY <2>1 DEF PriceHolds, Launched
<1>4. CASE MarkTerminated(d)
  <2> DEFINE u == desk[d].task
  <2>1. /\ Launched(u) /\ UNCHANGED <<tx, req>>
        /\ \A t \in Tasks : task'[t].total = task[t].total
        /\ \A t \in Tasks : t # u => task'[t] = task[t]
        /\ \A t \in Tasks : task'[t].pay = task[t].pay
    BY <1>1, <1>2, <1>4 DEF MarkTerminated, TaskRow
  <2> QED
    BY <2>1 DEF PriceHolds, Launched
<1>5. CASE UNCHANGED vars
  BY <1>5 DEF vars, PriceHolds, Launched
<1>6. CASE ~CloseCampaign(d) /\ ~MarkTerminated(d)
  BY <1>5, <1>6 DEF SettlementRequest, SettlementHandler, PauseTask, EndTask, TerminateTask,
     ProcessTermination, ListSubmissions, SumPayouts, CreditRefund, HoldRefund, PayTermination,
     FileTermination, DropDesk
<1> QED
  BY <1>3, <1>4, <1>6

\* The price of a campaign changes by updateTask alone, and then nobody asks for it.
LEMMA PriceChanges ==
    ASSUME PaymentInv, [Next]_vars, NEW t \in Tasks, task'[t].total # task[t].total
    PROVE  /\ \E q \in Slots : Rewrite(q)
           /\ \A p \in Slots : req'[p].step = "ask" => req'[p] = req[p]
<1>1. task \in [Tasks -> TaskRow] /\ req \in [Slots -> Request]
  BY DEF PaymentInv, TypeOK
<1>2. ASSUME NEW q \in Slots, StoreReference(q) \/ Activate(q) \/ MarkPaid(q) \/ MarkFailed(q)
      PROVE  FALSE
  BY <1>1, <1>2 DEF StoreReference, Activate, MarkPaid, MarkFailed, TaskRow
<1>3. ASSUME NEW r \in Refs, WebhookFailed(r)
      PROVE  FALSE
  BY <1>1, <1>3 DEF WebhookFailed, TaskRow
<1>4. task' # task
  OBVIOUS
<1>5. ASSUME NEW q \in Slots, Creator(q) \/ Abandon(q)
      PROVE  FALSE
  BY <1>4, <1>5 DEF Creator, Abandon, InitiatePayment, VerifyPayment, VerifyOverwritten,
     PublishTask, UpdateTask
<1>6. ~Paystack
  BY <1>3, <1>4 DEF Paystack, PayCheckout, DeclineCheckout, WebhookSuccess
<1>7. PICK q \in Slots : Rewrite(q)
  BY <1>2, <1>4, <1>5, <1>6 DEF Next, Handler, vars, InitializeAtPaystack, PaystackAnswers,
     FindTask
<1>8. \A p \in Slots : req'[p].step = "ask" => req'[p] = req[p]
  BY <1>1, <1>7 DEF Rewrite, Return, Continue, Idle, At
<1> QED
  BY <1>7, <1>8

\* What covers the price, and who knows of it, lasts until the campaign is repriced.
LEMMA PriceLasts ==
    ASSUME PaymentInv, PriceHolds, repriced \subseteq repriced',
           \A t \in Tasks : PricedLate(t) => t \in repriced',
           \A r \in Refs : tx[r].st = "success" => tx'[r] = tx[r],
           \A t \in Tasks \ repriced :
              Launched(t)' \/ task'[t].pay = "PAID" => Covered(t),
           \A q \in Slots : Right(req'[q]),
           \A q \in Slots : req'[q].step = "ask" =>
              req'[q] = req[q] \/ \A t \in Tasks : task'[t].total = task[t].total
    PROVE  PriceHolds'
<1>1. \A r \in Refs, t \in Tasks : Covers(r, t) => Charged(t)
  BY DEF Covers, Charged, Matches
<1>2. ASSUME NEW r \in Refs, NEW t \in Tasks \ repriced', Covers(r, t)
      PROVE  Covers(r, t)'
  <2>1. task'[t].total = task[t].total
    BY <1>1, <1>2 DEF PricedLate
  <2> QED
    BY <1>2, <2>1 DEF Covers
<1>3. ASSUME NEW t \in Tasks \ repriced', Covered(t)
      PROVE  Covered(t)'
  BY <1>2, <1>3 DEF Covered
<1>4. ASSUME NEW q \in Slots, req'[q].step = "find", req'[q].paid
      PROVE  req'[q].amount = tx'[req'[q].ref].amount
  BY <1>4 DEF Right
<1>5. ASSUME NEW q \in Slots, NEW t \in Tasks \ repriced', req'[q].task = t
      PROVE  Prices(req[q], t)'
  <2>1. Right(req'[q]) /\ Prices(req'[q], t)
    BY <1>5 DEF Right
  <2>2. ASSUME req'[q].step = "ask" PROVE task'[t].total = task[t].total
    BY <1>5, <2>2 DEF PricedLate
  <2>3. req'[q].step = "ask" => req'[q].amount = task'[t].total
    BY <2>1, <2>2 DEF Prices
  <2>4. req'[q].step = "mark" => Covers(req[q].ref, t)'
    <3>1. ASSUME NEW r \in Refs, Covers(r, t), r = req'[q].ref
          PROVE  Covers(req[q].ref, t)'
      <4>1. Covers(r, t)'
        BY <1>2, <3>1
      <4> QED
        BY <3>1, <4>1 DEF Covers
    <3> QED
      BY <2>1, <3>1 DEF Prices, Right
  <2>5. req'[q].step = "activate" => Covered(t)'
    BY <1>3, <2>1 DEF Prices
  <2> QED
    BY <2>3, <2>4, <2>5 DEF Prices
<1> QED
  BY <1>3, <1>4, <1>5 DEF PriceHolds

\* Every step keeps the price covered.
LEMMA PriceHoldsStep ==
    ASSUME MoneyInv, SettledHolds, PriceHolds, CampaignNext
    PROVE  PriceHolds'
<1>1. PaymentInv
  BY DEF MoneyInv, SettlementInv
<1>2. repriced \subseteq repriced' /\ \A t \in Tasks : PricedLate(t) => t \in repriced'
  BY DEF CampaignNext
<1>3. CASE [Next]_vars
  <2>1. \A r \in Refs : tx[r].st = "success" => tx'[r] = tx[r]
    BY <1>1, <1>3, ChargesFrozen
  <2>2. \A t \in Tasks \ repriced : Launched(t)' \/ task'[t].pay = "PAID" => Covered(t)
    BY <1>1, <1>3, PaidWasCovered
  <2>3. \A q \in Slots : Right(req'[q])
    BY <1>1, <1>3, NextIsRight
  <2>4. \A q \in Slots : req'[q].step = "ask" =>
           req'[q] = req[q] \/ \A t \in Tasks : task'[t].total = task[t].total
    BY <1>1, <1>3, PriceChanges
  <2> QED
    BY <1>1, <1>2, <2>1, <2>2, <2>3, <2>4, PriceLasts
<1>4. ASSUME NEW d \in Desks, SettlementRequest(d) \/ SettlementHandler(d) \/ DropDesk(d)
      PROVE  PriceHolds'
  <2>1. /\ UNCHANGED <<tx, req>>
        /\ \A t \in Tasks : task'[t].total = task[t].total
        /\ \A t \in Tasks \ repriced :
              Launched(t)' \/ task'[t].pay = "PAID" => Covered(t)
    BY <1>4, ClosedWasCovered
  <2>2. \A q \in Slots : Right(req'[q])
    BY <1>1, <2>1, RequestsRight
  <2> QED
    BY <1>1, <1>2, <2>1, <2>2, PriceLasts
<1> QED
  BY <1>3, <1>4 DEF CampaignNext, Manage, Reprice, Resize, Contribute, Decide,
     PayContributor, Next, Handler, allVars

-----------------------------------------------------------------------------
(* The campaign as a whole                                                  *)

\* Nobody works and nothing is paid at first.
LEMMA CampaignStart ==
    ASSUME CampaignInit
    PROVE  CampaignInv
<1>1. MoneyInv
  BY MoneyStart DEF CampaignInit
<1>2. Work!Init /\ Work!ReviewInv
  <2>1. Works!Init
    BY SameInit DEF CampaignInit
  <2>2. Works!ReviewInv
    BY <2>1, CampaignAssumption, PaymentAssumption, Works!ReviewInvInit
    DEF Works!ReviewAssumption
  <2> QED
    BY <2>2, SameInv DEF CampaignInit
<1>3. WorkHolds
  BY <1>2, PaymentAssumption
  DEF WorkHolds, Work!Init, Work!IdleHand, CampaignInit, MoneyInit, SettlementInit
<1>4. ASSUME NEW t \in Tasks
      PROVE  Shared(t) /\ Unpaid(t)
  <2>1. Work!Paid(t) = {} /\ paid[t] = 0
    BY <1>2 DEF Work!Paid, Work!Init, CampaignInit, MoneyInit, SettlementInit
  <2>2. Cardinality(Work!Paid(t)) = 0
    BY <2>1, FS_EmptySet
  <2>3. Unpaid(t)
    BY <1>2 DEF Unpaid, Work!Pays, Work!Init, Work!IdleReview
  <2> QED
    BY <2>1, <2>2, <2>3 DEF Shared
<1>5. /\ \A t \in Tasks : ~Launched(t) /\ task[t].pay # "PAID"
      /\ \A q \in Slots : req[q].step = "idle"
  BY DEF CampaignInit, MoneyInit, SettlementInit, Init, Drafts, Launched, Idle, At
<1>6. PriceHolds
  BY <1>5 DEF PriceHolds, Prices
<1>7. SettledHolds
  BY PaymentAssumption
  DEF SettledHolds, WasSettled, CampaignInit, MoneyInit, SettlementInit, Vacant
<1> QED
  BY <1>1, <1>2, <1>3, <1>4, <1>6, <1>7 DEF CampaignInv, PaidHolds

\* A step of the campaign is one of each component, or leaves it alone.
LEMMA CampaignSteps ==
    ASSUME CampaignInv, [CampaignNext]_campaignVars
    PROVE  [MoneyNext]_moneyVars /\ [Work!Next]_(Work!vars)
<1>1. CASE CampaignNext
  BY <1>1, StepIsMoney, StepIsWork DEF CampaignInv
<1>2. CASE UNCHANGED campaignVars
  <2>1. UNCHANGED moneyVars /\ UNCHANGED workVars
    BY <1>2 DEF campaignVars
  <2>2. task' = task
    BY <2>1 DEF moneyVars, allVars, vars
  <2> QED
    BY <2>1, <2>2, LiveMoves
<1> QED
  BY <1>1, <1>2

\* Every step keeps the invariant.
LEMMA CampaignStep ==
    ASSUME CampaignInv, [CampaignNext]_campaignVars
    PROVE  CampaignInv'
<1>1. [MoneyNext]_moneyVars /\ [Work!Next]_(Work!vars)
  BY CampaignSteps
<1>2. MoneyInv' /\ Work!ReviewInv'
  BY <1>1, MoneyStep, WorkStep DEF CampaignInv
<1>3. CASE CampaignNext
  BY <1>2, <1>3, WorkHoldsStep, PaidHoldsStep, SettledHoldsStep, PriceHoldsStep
  DEF CampaignInv
<1>4. CASE UNCHANGED campaignVars
  <2>1. UNCHANGED <<task, tx, req, term, paid, refunds, desk, app, sub, payout, hand,
                    review, raced, repriced>>
    BY <1>4 DEF campaignVars, workVars, moneyVars, allVars, vars, settleVars
  <2>2. WorkHolds'
    BY <2>1 DEF CampaignInv, WorkHolds, Launched
  <2>3. PaidHolds'
    BY <2>1 DEF CampaignInv, PaidHolds, PaysOneByOne, Shared, Unpaid,
       Work!Pays, Work!Paid
  <2>4. SettledHolds'
    BY <2>1 DEF CampaignInv, SettledHolds, WasSettled, Launched
  <2>5. PriceHolds'
    BY <2>1 DEF CampaignInv, PriceHolds, Prices, Covered, Covers, Launched
  <2> QED
    BY <1>2, <2>2, <2>3, <2>4, <2>5 DEF CampaignInv
<1> QED
  BY <1>3, <1>4

\* Applications, submissions and payouts belong to campaigns that were published, and
\* what a settlement subtracts is what the submissions were paid, in every reachable
\* state (applyForTask, createSubmission, processPayout, settleCampaignRefund).
THEOREM CampaignInvariant == CampaignSpec => []CampaignInv
  BY CampaignStart, CampaignStep, PTL DEF CampaignSpec

\* What is proved of settlements holds of a campaign whose contributors are paid by
\* reviews: a payout is one of a published campaign, and no other step of contributors
\* and reviewers touches what the settlement reads (processPayout).
THEOREM CampaignKeepsBooks == CampaignSpec => MoneySpec
<1>1. CampaignInit => MoneyInit
  BY DEF CampaignInit
<1> QED
  BY <1>1, CampaignSteps, CampaignInvariant, PTL DEF CampaignSpec, MoneySpec

\* And what is proved of reviews, whatever moves the campaign, holds of one that is
\* published, edited, paused, ended and terminated (publishTask, updateTask, pauseTask,
\* endTask, terminateTask).
THEOREM CampaignReviewsWork == CampaignSpec => Work!Spec
<1>1. CampaignInit => Work!Init
  BY DEF CampaignInit
<1> QED
  BY <1>1, CampaignSteps, CampaignInvariant, PTL DEF CampaignSpec, Work!Spec

\* Nobody applies to, works for or is paid by a campaign whose creator was never
\* charged, although none of applyForTask, createSubmission, verifySubmission and
\* processPayout looks at the payment.
THEOREM WorkIsPaidFor == CampaignSpec => []WorkWasCharged
<1>1. CampaignInv => WorkWasCharged
  <2> SUFFICES ASSUME CampaignInv PROVE WorkWasCharged
    OBVIOUS
  <2>1. PublishedWasCharged
    BY DEF CampaignInv, MoneyInv, SettlementInv, PaymentInv
  <2>2. WorkHolds
    BY DEF CampaignInv
  <2> QED
    BY <2>1, <2>2 DEF WorkWasCharged, PublishedWasCharged, WorkHolds, Launched
<1> QED
  BY <1>1, CampaignInvariant, PTL

\* Until it goes astray, a campaign's payouts and refunds share its budget: the payouts
\* are as many as there are places at most, and refunds are what the payouts left.
LEMMA BudgetShared ==
    ASSUME CampaignInv, Books!NoMoreThanLeft, NEW t \in Tasks, Orderly(t), Funded(t)
    PROVE  /\ paid[t] + refunds[t] <= task[t].total
           /\ \A k \in Promised(t) : paid[t] + refunds[t] + term[k].net <= task[t].total
<1>1. /\ SettlementInv /\ PaymentInv /\ SettlementTypeOK /\ TypeOK
      /\ Work!ReviewInv /\ PaidHolds
  BY DEF CampaignInv, MoneyInv, SettlementInv, PaymentInv
<1>2. /\ paid[t] \in Nat /\ refunds[t] \in Nat /\ task[t].total \in Nat
      /\ \A k \in Terms : term[k].net \in Nat
  BY <1>1, SettlementFields, Fields
<1>3. paid[t] <= task[t].total
  <2>1. Shared(t)
    BY <1>1 DEF PaidHolds, Orderly
  <2>2. Cardinality(Work!Paid(t)) <= mostPlaces[t]
    BY <1>1, SameCount DEF Orderly, PaysOneByOne, Work!ReviewInv, Work!PayoutsWithinPlaces
  <2>3. /\ Cardinality(Work!Paid(t)) \in Nat /\ mostPlaces[t] \in Nat
    <3>1. IsFiniteSet(Work!Paid(t))
      BY <1>1, SameCount DEF Work!ReviewInv, Work!PayHolds
    <3>2. mostPlaces[t] \in 1 .. MaxPlaces
      BY <1>1 DEF Work!ReviewInv, Work!TypeOK
    <3> QED
      BY <3>1, <3>2, CampaignAssumption, FS_CardinalityType
  <2>4. CASE Cardinality(Work!Paid(t)) = 0
    BY <1>2, <2>1, <2>4 DEF Shared
  <2>5. CASE Cardinality(Work!Paid(t)) # 0
    <3>1. PICK most \in Shares : paid[t] <= most * Cardinality(Work!Paid(t))
      BY <2>1, <2>5 DEF Shared
    <3>2. most \in Nat /\ most * mostPlaces[t] <= task[t].total
      BY SettlementAssumption DEF Funded
    <3>3. \A n, m, k \in Nat : m <= k => n * m <= n * k
      OBVIOUS
    <3>4. most * Cardinality(Work!Paid(t)) <= most * mostPlaces[t]
      BY <2>2, <2>3, <3>2, <3>3
    <3>5. /\ most * Cardinality(Work!Paid(t)) \in Nat
          /\ most * mostPlaces[t] \in Nat
      BY <2>3, <3>2
    <3> QED
      BY <1>2, <3>1, <3>2, <3>4, <3>5
  <2> QED
    BY <2>4, <2>5
<1>4. t \in Tasks \ (strained \cup {term[k].task : k \in disturbed})
  BY DEF Orderly
<1>5. Books!Rest(t) = IF paid[t] < task[t].total THEN task[t].total - paid[t] ELSE 0
  BY DEF Books!Rest
<1>6. refunds[t] <= Books!Rest(t)
  BY <1>4 DEF Books!NoMoreThanLeft
<1>7. ASSUME NEW k \in Promised(t)
      PROVE  refunds[t] = 0 /\ term[k].net <= Books!Rest(t)
  <2>1. k \in Terms /\ term[k].task = t /\ AsTicket(k).state = "open" /\ AsTicket(k).of = t
        /\ AsTicket(k).net = term[k].net
    BY DEF Promised, AsTicket
  <2> QED
    BY <1>4, <2>1 DEF Books!NoMoreThanLeft
<1> QED
  BY <1>2, <1>3, <1>5, <1>6, <1>7 DEF Promised

\* Whatever a campaign cost was charged: only published campaigns cost anything, and
\* they were published at the price in the row.
LEMMA CostWasCharged ==
    ASSUME CampaignInv, NEW t \in Tasks \ repriced, NEW cost \in Costs(t), cost > 0,
           cost <= task[t].total
    PROVE  \E r \in Refs : r.task = t /\ tx[r].st = "success" /\ cost <= tx[r].amount + 1
<1>1. /\ SettlementInv /\ PaymentInv /\ SettlementTypeOK /\ TypeOK
      /\ WorkHolds /\ SettledHolds /\ PriceHolds
  BY DEF CampaignInv, MoneyInv, SettlementInv, PaymentInv
<1>2. /\ paid[t] \in Nat /\ refunds[t] \in Nat /\ task[t].total \in Nat
      /\ \A k \in Terms : term[k].net \in Nat
      /\ \A r \in Refs : tx[r].amount \in Nat
  BY <1>1, SettlementFields, Fields
<1>3. paid[t] > 0 \/ WasSettled(t)
  <2>1. CASE Promised(t) = {}
    <3>1. cost = paid[t] + refunds[t]
      BY <2>1 DEF Costs
    <3> QED
      BY <1>2, <3>1 DEF WasSettled
  <2>2. CASE Promised(t) # {}
    BY <2>2 DEF Promised, WasSettled
  <2> QED
    BY <2>1, <2>2
<1>4. Launched(t)
  BY <1>1, <1>3 DEF WorkHolds, SettledHolds
<1>5. PICK r \in Refs : Covers(r, t)
  BY <1>1, <1>4 DEF PriceHolds, Covered
<1>6. r.task = t /\ tx[r].st = "success" /\ tx[r].amount - task[t].total \in -1 .. 1
  BY <1>5 DEF Covers, Matches
<1>7. cost \in Int
  BY <1>2 DEF Costs, Promised
<1>8. cost <= tx[r].amount + 1
  BY <1>2, <1>6, <1>7
<1> QED
  BY <1>6, <1>8

\* Payouts and refunds together, a promised one included, stay within the budget in the
\* row, and within a charge that the creator paid: as long as the budget pays for the
\* most places the campaign had, no settlement was overtaken by an edit or a payout, no
\* two payouts of the campaign overlapped and, as to the charge, the campaign was not
\* repriced (updateTask, verifyPayment, publishTask, processPayout,
\* settleCampaignRefund, terminateTask, processCampaignTerminationRequest).
THEOREM MoneyOutWasMoneyIn == CampaignSpec => []CostsAreCovered
<1>1. CampaignInv /\ Books!NoMoreThanLeft => CostsAreCovered
  <2> SUFFICES ASSUME CampaignInv, Books!NoMoreThanLeft, NEW t \in Tasks,
                      Orderly(t), Funded(t), NEW cost \in Costs(t)
               PROVE  /\ cost <= task[t].total
                      /\ cost > 0 /\ t \notin repriced =>
                            \E r \in Refs : /\ r.task = t /\ tx[r].st = "success"
                                            /\ cost <= tx[r].amount + 1
    BY DEF CostsAreCovered
  <2>1. cost <= task[t].total
    BY BudgetShared DEF Costs
  <2> QED
    BY <2>1, CostWasCharged
<1> QED
  BY <1>1, CampaignInvariant, CampaignKeepsBooks, CreatorGetsNoMore, PTL
=============================================================================
