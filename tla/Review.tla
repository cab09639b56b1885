------------------------------- MODULE Review -------------------------------
(***************************************************************************)
(* A campaign's work: contributors apply, submit proof, staff approve or    *)
(* reject it, and an approval pays the contributor (applyForTask in         *)
(* tasks.service.ts; submissions.service.ts; task-payout.util.ts).          *)
(*                                                                          *)
(* Every guard is a query of its own, made before the write it protects.    *)
(* The history variable raced records where two handlers overlapped on the  *)
(* same object, so that the properties say exactly what the code promises   *)
(* without overlap and after which overlap it stops promising it.           *)
(***************************************************************************)
EXTENDS Integers, FiniteSets

CONSTANTS
    Tasks, Contributors,
    Subs,           \* ids of submissions
    Hands,          \* contributors' handlers in flight at the same time
    Reviews,        \* staff handlers in flight at the same time
    MaxPlaces,      \* largest contributorSlots
    NoTask, NoOne, NoSub

ASSUME ReviewAssumption ==
    /\ MaxPlaces \in Nat
    /\ NoTask \notin Tasks /\ NoOne \notin Contributors /\ NoSub \notin Subs

VARIABLES
    live,       \* tasks that are ACTIVE (moved by Payment and Settlement)
    places,     \* contributorSlots of a task
    mostPlaces, \* history: the largest value places had
    app,        \* applications: at most one per task and contributor
    sub,        \* submissions
    payout,     \* completed TASK_PAYOUT credits, by submission
    hand,       \* contributors' handlers in flight
    review,     \* staff handlers in flight
    raced       \* history: objects two handlers overlapped on

env == <<live, places, mostPlaces>>
vars == <<env, app, sub, payout, hand, review, raced>>

Application == {"NONE", "PENDING", "APPROVED", "COMPLETED"}

Submission == [status : {"NONE", "PENDING", "VERIFIED", "REJECTED"},
               task : Tasks \cup {NoTask}, by : Contributors \cup {NoOne}]

HandSteps == {"idle", "count", "insert", "lookup", "create", "complete"}
Hand == [step : HandSteps, task : Tasks \cup {NoTask}, by : Contributors \cup {NoOne},
         places : 0 .. MaxPlaces]

ReviewSteps == {"idle", "approve", "issued", "free", "credit", "reject", "reopen"}
ReviewJob == [step : ReviewSteps, sub : Subs \cup {NoSub}, places : 0 .. MaxPlaces]

Races == [what : {"apply", "payout"}, task : Tasks]
            \cup [what : {"submit"}, task : Tasks, by : Contributors]
            \cup [what : {"review", "death"}, sub : Subs]

TypeOK ==
    /\ live \subseteq Tasks
    /\ places \in [Tasks -> 1 .. MaxPlaces]
    /\ mostPlaces \in [Tasks -> 1 .. MaxPlaces]
    /\ app \in [Tasks -> [Contributors -> Application]]
    /\ sub \in [Subs -> Submission]
    /\ payout \in [Subs -> Nat]
    /\ hand \in [Hands -> Hand]
    /\ review \in [Reviews -> ReviewJob]
    /\ raced \subseteq Races

IdleHand == [step |-> "idle", task |-> NoTask, by |-> NoOne, places |-> 0]
IdleReview == [step |-> "idle", sub |-> NoSub, places |-> 0]

Init ==
    /\ live = {}
    /\ places \in [Tasks -> 1 .. MaxPlaces]
    /\ mostPlaces = places
    /\ app = [t \in Tasks |-> [c \in Contributors |-> "NONE"]]
    /\ sub = [s \in Subs |-> [status |-> "NONE", task |-> NoTask, by |-> NoOne]]
    /\ payout = [s \in Subs |-> 0]
    /\ hand = [h \in Hands |-> IdleHand]
    /\ review = [v \in Reviews |-> IdleReview]
    /\ raced = {}

GoHand(h, step) == hand' = [hand EXCEPT ![h].step = step]
LeaveHand(h) == hand' = [hand EXCEPT ![h] = IdleHand]
GoReview(v, step) == review' = [review EXCEPT ![v].step = step]
LeaveReview(v) == review' = [review EXCEPT ![v] = IdleReview]

\* Adds race to the history when the condition holds.
Race(cond, race) == IF cond THEN {race} ELSE {}
Note(cond, race) == raced' = raced \cup Race(cond, race)

-----------------------------------------------------------------------------
(* The campaign, moved by publishTask, pauseTask, endTask, terminateTask and *)
(* updateTask                                                                *)

ChangeStatus(t) ==
    /\ live' = IF t \in live THEN live \ {t} ELSE live \cup {t}
    /\ UNCHANGED <<places, mostPlaces, app, sub, payout, hand, review, raced>>

ChangePlaces(t, n) ==
    /\ places' = [places EXCEPT ![t] = n]
    /\ mostPlaces' = [mostPlaces EXCEPT ![t] = IF n > @ THEN n ELSE @]
    /\ UNCHANGED <<live, app, sub, payout, hand, review, raced>>

-----------------------------------------------------------------------------
(* applyForTask                                                             *)

Filled(t) == {c \in Contributors : app[t][c] \in {"APPROVED", "COMPLETED"}}

Applying(t) == \E h \in Hands : hand[h].step \in {"count", "insert"} /\ hand[h].task = t

\* Mutant: whether the campaign is live is not asked.
ApplyToAny(h, t, c) ==
    /\ hand[h].step = "idle"
    /\ hand' = [hand EXCEPT ![h] = [step |-> "count", task |-> t, by |-> c,
                                    places |-> places[t]]]
    /\ Note(Applying(t), [what |-> "apply", task |-> t])
    /\ UNCHANGED <<env, app, sub, payout, review>>

ApplyForTask(h, t, c) ==
    /\ hand[h].step = "idle"
    /\ t \in live
    /\ hand' = [hand EXCEPT ![h] = [step |-> "count", task |-> t, by |-> c,
                                    places |-> places[t]]]
    /\ Note(Applying(t), [what |-> "apply", task |-> t])
    /\ UNCHANGED <<env, app, sub, payout, review>>

\* Mutant: the last place counts as free while it is taken.
CountOneTooMany(h) ==
    /\ hand[h].step = "count"
    /\ app[hand[h].task][hand[h].by] = "NONE"
    /\ Cardinality(Filled(hand[h].task)) <= hand[h].places
    /\ GoHand(h, "insert")
    /\ UNCHANGED <<env, app, sub, payout, review, raced>>

\* No application yet, and a place left of those the task had when it was read.
CountApplications(h) ==
    /\ hand[h].step = "count"
    /\ app[hand[h].task][hand[h].by] = "NONE"
    /\ Cardinality(Filled(hand[h].task)) < hand[h].places
    /\ GoHand(h, "insert")
    /\ UNCHANGED <<env, app, sub, payout, review, raced>>

\* Approved at once when the reputation suffices, PENDING otherwise; the
\* database refuses a second application of the contributor.
InsertApplication(h, status) ==
    /\ hand[h].step = "insert"
    /\ app[hand[h].task][hand[h].by] = "NONE"
    /\ app' = [app EXCEPT ![hand[h].task][hand[h].by] = status]
    /\ LeaveHand(h)
    /\ UNCHANGED <<env, sub, payout, review, raced>>

-----------------------------------------------------------------------------
(* createSubmission                                                         *)

Submitting(t, c) ==
    \E h \in Hands : /\ hand[h].step \in {"lookup", "create", "complete"}
                     /\ hand[h].task = t /\ hand[h].by = c

CreateSubmission(h, t, c) ==
    /\ hand[h].step = "idle"
    /\ app[t][c] = "APPROVED"
    /\ hand' = [hand EXCEPT ![h] = [step |-> "lookup", task |-> t, by |-> c, places |-> 0]]
    /\ Note(Submitting(t, c), [what |-> "submit", task |-> t, by |-> c])
    /\ UNCHANGED <<env, app, sub, payout, review>>

Of(t, c) == {s \in Subs : sub[s].status # "NONE" /\ sub[s].task = t /\ sub[s].by = c}

LookupSubmission(h) ==
    /\ hand[h].step = "lookup"
    /\ \A s \in Of(hand[h].task, hand[h].by) : sub[s].status = "REJECTED"
    /\ GoHand(h, "create")
    /\ UNCHANGED <<env, app, sub, payout, review, raced>>

InsertSubmission(h, s) ==
    /\ hand[h].step = "create"
    /\ sub[s].status = "NONE"
    /\ sub' = [sub EXCEPT ![s] = [status |-> "PENDING", task |-> hand[h].task,
                                  by |-> hand[h].by]]
    /\ GoHand(h, "complete")
    /\ UNCHANGED <<env, app, payout, review, raced>>

CompleteApplication(h) ==
    /\ hand[h].step = "complete"
    /\ app' = [app EXCEPT ![hand[h].task][hand[h].by] = "COMPLETED"]
    /\ LeaveHand(h)
    /\ UNCHANGED <<env, sub, payout, review, raced>>

\* A check fails, or the process dies.
DropHand(h) ==
    /\ hand[h].step # "idle"
    /\ LeaveHand(h)
    /\ UNCHANGED <<env, app, sub, payout, review, raced>>

-----------------------------------------------------------------------------
(* verifySubmission with processPayout, and rejectSubmission                *)

Reviewing(s) == \E v \in Reviews : review[v].sub = s

Paying(t) == \E v \in Reviews : /\ review[v].step \in {"free", "credit"}
                                /\ sub[review[v].sub].task = t

\* Mutant: a submission that was judged already may be judged again.
OpenJudged(v, s, step) ==
    /\ review[v].step = "idle"
    /\ sub[s].status # "NONE"
    /\ review' = [review EXCEPT ![v] = [step |-> step, sub |-> s, places |-> 0]]
    /\ raced' = raced
          \cup Race(Reviewing(s), [what |-> "review", sub |-> s])
          \cup Race(Submitting(sub[s].task, sub[s].by),
                    [what |-> "submit", task |-> sub[s].task, by |-> sub[s].by])
    /\ UNCHANGED <<env, app, sub, payout, hand>>

Open(v, s, step) ==
    /\ review[v].step = "idle"
    /\ sub[s].status = "PENDING"
    /\ review' = [review EXCEPT ![v] = [step |-> step, sub |-> s, places |-> 0]]
    /\ raced' = raced
          \cup Race(Reviewing(s), [what |-> "review", sub |-> s])
          \cup Race(Submitting(sub[s].task, sub[s].by),
                    [what |-> "submit", task |-> sub[s].task, by |-> sub[s].by])
    /\ UNCHANGED <<env, app, sub, payout, hand>>

VerifySubmission(v, s) == Open(v, s, "approve")

RejectSubmission(v, s) == Open(v, s, "reject")

Approve(v) ==
    /\ review[v].step = "approve"
    /\ sub' = [sub EXCEPT ![review[v].sub].status = "VERIFIED"]
    /\ GoReview(v, "issued")
    /\ UNCHANGED <<env, app, payout, hand, raced>>

\* processPayout: a submission that was paid is not paid again; for another one
\* the task is read.
FindPayout(v) ==
    LET s == review[v].sub
    IN  /\ review[v].step = "issued"
        /\ IF payout[s] > 0
           THEN /\ LeaveReview(v)
                /\ UNCHANGED raced
           ELSE /\ review' = [review EXCEPT ![v].step = "free",
                                             ![v].places = places[sub[s].task]]
                /\ Note(Paying(sub[s].task), [what |-> "payout", task |-> sub[s].task])
        /\ UNCHANGED <<env, app, sub, payout, hand>>

Paid(t) == {s \in Subs : sub[s].task = t /\ payout[s] > 0}

\* countCompletedTaskPayouts against the places the task had when it was read.
CountPayouts(v) ==
    LET t == sub[review[v].sub].task
    IN  /\ review[v].step = "free"
        /\ Cardinality(Paid(t)) < review[v].places
        /\ review' = [review EXCEPT ![v].step = "credit", ![v].places = 0]
        /\ UNCHANGED <<env, app, sub, payout, hand, raced>>

Credit(v) ==
    /\ review[v].step = "credit"
    /\ payout' = [payout EXCEPT ![review[v].sub] = @ + 1]
    /\ LeaveReview(v)
    /\ UNCHANGED <<env, app, sub, hand, raced>>

\* Mutant: the application of a rejected submission stays COMPLETED.
RejectOnly(v) ==
    /\ review[v].step = "reject"
    /\ sub' = [sub EXCEPT ![review[v].sub].status = "REJECTED"]
    /\ LeaveReview(v)
    /\ UNCHANGED <<env, app, payout, hand, raced>>

Reject(v) ==
    /\ review[v].step = "reject"
    /\ sub' = [sub EXCEPT ![review[v].sub].status = "REJECTED"]
    /\ GoReview(v, "reopen")
    /\ UNCHANGED <<env, app, payout, hand, raced>>

\* Mutant: the application is declined along with its submission.
DeclineApplication(v) ==
    LET s == review[v].sub
    IN  /\ review[v].step = "reopen"
        /\ app' = [app EXCEPT ![sub[s].task][sub[s].by] = "DECLINED"]
        /\ LeaveReview(v)
        /\ UNCHANGED <<env, sub, payout, hand, raced>>

\* The application is approved again, so that the contributor may resubmit.
Reopen(v) ==
    LET s == review[v].sub
    IN  /\ review[v].step = "reopen"
        /\ app' = [app EXCEPT ![sub[s].task][sub[s].by] = "APPROVED"]
        /\ LeaveReview(v)
        /\ UNCHANGED <<env, sub, payout, hand, raced>>

\* All places are paid, or the process dies.
DropReview(v) ==
    LET s == review[v].sub
    IN  /\ review[v].step # "idle"
        /\ Note(review[v].step = "reopen", [what |-> "death", sub |-> s])
        /\ LeaveReview(v)
        /\ UNCHANGED <<env, app, sub, payout, hand>>

-----------------------------------------------------------------------------
Campaign == \E t \in Tasks : \/ ChangeStatus(t)
                             \/ \E n \in 1 .. MaxPlaces : ChangePlaces(t, n)

Contribute(h) ==
    \/ \E t \in Tasks, c \in Contributors : ApplyForTask(h, t, c) \/ CreateSubmission(h, t, c)
    \/ CountApplications(h)
    \/ \E status \in {"APPROVED", "PENDING"} : InsertApplication(h, status)
    \/ LookupSubmission(h)
    \/ \E s \in Subs : InsertSubmission(h, s)
    \/ CompleteApplication(h)
    \/ DropHand(h)

Decide(v) ==
    \/ \E s \in Subs : VerifySubmission(v, s) \/ RejectSubmission(v, s)
    \/ Approve(v) \/ FindPayout(v) \/ CountPayouts(v)
    \/ Reject(v) \/ Reopen(v)
    \/ DropReview(v)

Judge(v) == Decide(v) \/ Credit(v)

Next ==
    \/ Campaign
    \/ \E h \in Hands : Contribute(h)
    \/ \E v \in Reviews : Judge(v)

Spec == Init /\ [][Next]_vars

-----------------------------------------------------------------------------
(* Properties                                                               *)

\* A campaign never has more approved contributors than it ever had places,
\* unless two applications were in flight at once (applyForTask counts, then
\* inserts).
ContributorsWithinPlaces ==
    \A t \in Tasks :
        [what |-> "apply", task |-> t] \notin raced
            => Cardinality(Filled(t)) <= mostPlaces[t]

\* A submission is paid only when approved and only once, whatever crashes or
\* concurrent payouts of other submissions do, unless two reviews of this very
\* submission overlapped (verifySubmission, rejectSubmission, processPayout).
PaidOnceWhenVerified ==
    \A s \in Subs :
        [what |-> "review", sub |-> s] \notin raced
            => payout[s] <= IF sub[s].status = "VERIFIED" THEN 1 ELSE 0

\* A campaign never pays more contributors than it ever had places, unless the
\* payouts of two submissions overlapped (processPayout counts, then credits).
PayoutsWithinPlaces ==
    \A t \in Tasks :
        [what |-> "payout", task |-> t] \notin raced
            => Cardinality(Paid(t)) <= mostPlaces[t]

\* A contributor gets at most one payout from a campaign: rejections reopen the
\* application, so this rests on every later submission finding the earlier one
\* rejected, and on rejected submissions never having been paid.
ContributorPaidOnce ==
    \A s, u \in Subs :
        /\ payout[s] > 0 /\ payout[u] > 0
        /\ sub[s].task = sub[u].task /\ sub[s].by = sub[u].by
        /\ [what |-> "submit", task |-> sub[s].task, by |-> sub[s].by] \notin raced
        /\ [what |-> "review", sub |-> s] \notin raced
        /\ [what |-> "review", sub |-> u] \notin raced
        => s = u

\* A contributor whose submissions were all rejected may submit again, unless
\* the process died between the rejection and the reopening of the application,
\* or submissions overlapped, or a review began before the handler that created
\* the submission had completed the application.
RejectedMayResubmit ==
    \A t \in Tasks, c \in Contributors :
        /\ Of(t, c) # {}
        /\ ~Submitting(t, c)
        /\ \A s \in Of(t, c) : /\ sub[s].status = "REJECTED"
                               /\ ~Reviewing(s)
                               /\ [what |-> "death", sub |-> s] \notin raced
        /\ [what |-> "submit", task |-> t, by |-> c] \notin raced
        => app[t][c] = "APPROVED"

-----------------------------------------------------------------------------
(* The inductive invariant behind them                                      *)

ReviewRace(s) == [what |-> "review", sub |-> s]
SubmitRace(t, c) == [what |-> "submit", task |-> t, by |-> c]

\* Who works on a submission works for somebody who has a place.
HandsHold ==
    \A h \in Hands :
        /\ hand[h].step # "idle" => hand[h].task \in Tasks /\ hand[h].by \in Contributors
        /\ hand[h].step \in {"count", "insert"} => hand[h].places <= mostPlaces[hand[h].task]
        /\ hand[h].step \in {"lookup", "create", "complete"} => hand[h].by \in Filled(hand[h].task)

SubsHold ==
    \A s \in Subs :
        IF sub[s].status = "NONE" THEN sub[s].task = NoTask /\ payout[s] = 0 /\ ~Reviewing(s)
        ELSE /\ sub[s].task \in Tasks /\ sub[s].by \in Contributors
             /\ sub[s].by \in Filled(sub[s].task)

ReviewsHold ==
    \A v \in Reviews :
        /\ review[v].step # "idle" => review[v].sub \in Subs
        /\ review[v].step = "idle" => review[v].sub = NoSub
        /\ review[v].step = "free" => review[v].places <= mostPlaces[sub[review[v].sub].task]

\* Without overlap one application of a campaign is in flight, and has a place left.
AppliesAlone(t) ==
    \A h \in Hands : hand[h].step \in {"count", "insert"} /\ hand[h].task = t =>
        /\ \A g \in Hands : hand[g].step \in {"count", "insert"} /\ hand[g].task = t => g = h
        /\ hand[h].step = "insert" => Cardinality(Filled(t)) < hand[h].places

ApplyHolds ==
    \A t \in Tasks :
        /\ places[t] <= mostPlaces[t] /\ IsFiniteSet(Filled(t))
        /\ [what |-> "apply", task |-> t] \notin raced => AppliesAlone(t)

\* Without overlap one review of a submission is in flight, and finds what it left.
JudgedAlone(s) ==
    \A v \in Reviews : review[v].sub = s =>
        /\ \A w \in Reviews : review[w].sub = s => w = v
        /\ review[v].step \in {"approve", "reject"} => sub[s].status = "PENDING"
        /\ review[v].step \in {"issued", "free", "credit"} =>
              sub[s].status = "VERIFIED" /\ payout[s] = 0
        /\ review[v].step = "reopen" => sub[s].status = "REJECTED"

JudgeHolds == \A s \in Subs : ReviewRace(s) \notin raced => JudgedAlone(s)

\* Without overlap one payout of a campaign is in flight, and has a place left.
Pays(v, t) == review[v].step \in {"free", "credit"} /\ sub[review[v].sub].task = t

PaysAlone(t) ==
    \A v \in Reviews : Pays(v, t) =>
        /\ \A w \in Reviews : Pays(w, t) => w = v
        /\ review[v].step = "credit" => Cardinality(Paid(t)) < mostPlaces[t]

PayHolds ==
    \A t \in Tasks :
        /\ IsFiniteSet(Paid(t))
        /\ [what |-> "payout", task |-> t] \notin raced => PaysAlone(t)

\* Without overlap every submission but the last is rejected, and an application that
\* is completed still has a submission to be judged, or somebody to reopen it.
Submits(h, t, c) ==
    /\ hand[h].step \in {"lookup", "create", "complete"}
    /\ hand[h].task = t /\ hand[h].by = c

Unraced(t, c) == {s \in Of(t, c) : ReviewRace(s) \notin raced}

SubmitsAlone(t, c) ==
    /\ \A g, h \in Hands : Submits(g, t, c) /\ Submits(h, t, c) => g = h
    /\ \A s, u \in Unraced(t, c) :
          sub[s].status = "REJECTED" \/ sub[u].status = "REJECTED" \/ s = u
    /\ \A h \in Hands : Submits(h, t, c) /\ hand[h].step = "create" =>
          \A s \in Unraced(t, c) : sub[s].status = "REJECTED"

Awaited(s) ==
    \/ sub[s].status # "REJECTED"
    \/ \E v \in Reviews : review[v].step = "reopen" /\ review[v].sub = s
    \/ [what |-> "death", sub |-> s] \in raced

Completes(t, c) ==
    /\ \A h \in Hands : Submits(h, t, c) /\ hand[h].step = "complete" =>
          \E s \in Of(t, c) : sub[s].status = "PENDING" /\ ~Reviewing(s)
    /\ app[t][c] = "COMPLETED" => \E s \in Of(t, c) : Awaited(s)

SubmitHolds ==
    \A t \in Tasks, c \in Contributors :
        SubmitRace(t, c) \notin raced => SubmitsAlone(t, c) /\ Completes(t, c)

ReviewInv ==
    /\ TypeOK /\ HandsHold /\ SubsHold /\ ReviewsHold
    /\ ApplyHolds /\ ContributorsWithinPlaces
    /\ JudgeHolds /\ PaidOnceWhenVerified
    /\ PayHolds /\ PayoutsWithinPlaces
    /\ SubmitHolds

-----------------------------------------------------------------------------
(* The refinement                                                           *)

Promised == INSTANCE Rewards WITH
    Campaigns <- Tasks,
    People <- Contributors,
    Claims <- Subs,
    NoCampaign <- NoTask,
    NoPerson <- NoOne,
    room <- mostPlaces,
    claim <- sub,
    reward <- payout,
    contested <- {s \in Subs : ReviewRace(s) \in raced},
    hasty <- {p \in Tasks \X Contributors : SubmitRace(p[1], p[2]) \in raced},
    crowded <- {t \in Tasks : [what |-> "payout", task |-> t] \in raced}

\* Whatever dies or is edited in between, submissions are judged and paid as
\* Rewards.tla has it, although the submission, its earlier payouts, the places and
\* the payouts of the campaign are read in separate statements before the row is
\* written or the contributor credited - but for a submission two reviews of which
\* overlapped, a contributor two of whose submissions to a campaign did, and the
\* number of payouts of a campaign two payouts of which did (createSubmission,
\* verifySubmission, rejectSubmission, processPayout).
JudgesAndPaysOnce == Promised!RewardsSpec
=============================================================================
