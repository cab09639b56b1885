---------------------------- MODULE ReviewProofs ----------------------------
(***************************************************************************)
(* A campaign's work, for any number of campaigns, contributors,            *)
(* submissions and handlers in flight: what the guards promise as long as   *)
(* the handlers they belong to do not overlap.                              *)
(***************************************************************************)
EXTENDS Review, FiniteSetTheorems, TLAPS

-----------------------------------------------------------------------------
(* The state                                                                *)

\* What handlers and submissions consist of.
LEMMA ReviewFields ==
    ASSUME TypeOK
    PROVE  /\ \A h \in Hands : /\ hand[h] \in Hand /\ hand[h].step \in HandSteps
                               /\ hand[h].task \in Tasks \cup {NoTask}
                               /\ hand[h].by \in Contributors \cup {NoOne}
                               /\ hand[h].places \in 0 .. MaxPlaces
           /\ \A v \in Reviews : /\ review[v] \in ReviewJob /\ review[v].step \in ReviewSteps
                                 /\ review[v].sub \in Subs \cup {NoSub}
                                 /\ review[v].places \in 0 .. MaxPlaces
           /\ \A s \in Subs : /\ sub[s] \in Submission
                              /\ sub[s].task \in Tasks \cup {NoTask}
                              /\ sub[s].by \in Contributors \cup {NoOne}
                              /\ payout[s] \in Nat
           /\ \A t \in Tasks : places[t] \in Nat /\ mostPlaces[t] \in Nat
  BY ReviewAssumption DEF TypeOK, Hand, ReviewJob, Submission

\* Replacing what one handler does leaves the others alone.
LEMMA HandSlot ==
    ASSUME TypeOK, NEW h \in Hands, NEW m \in Hand, hand' = [hand EXCEPT ![h] = m]
    PROVE  /\ hand' \in [Hands -> Hand] /\ hand'[h] = m
           /\ \A g \in Hands : g # h => hand'[g] = hand[g]
  BY DEF TypeOK

LEMMA ReviewSlot ==
    ASSUME TypeOK, NEW v \in Reviews, NEW m \in ReviewJob, review' = [review EXCEPT ![v] = m]
    PROVE  /\ review' \in [Reviews -> ReviewJob] /\ review'[v] = m
           /\ \A w \in Reviews : w # v => review'[w] = review[w]
  BY DEF TypeOK

\* A handler that has nothing to do.
LEMMA IdleHolds ==
    /\ IdleHand \in Hand /\ IdleHand.step = "idle"
    /\ IdleReview \in ReviewJob /\ IdleReview.step = "idle" /\ IdleReview.sub = NoSub
<1>1. "idle" \in HandSteps /\ "idle" \in ReviewSteps /\ 0 \in 0 .. MaxPlaces
  BY ReviewAssumption DEF HandSteps, ReviewSteps
<1> QED
  BY <1>1 DEF IdleHand, IdleReview, Hand, ReviewJob

\* A handler that goes on with the next step.
LEMMA NextStep ==
    ASSUME TypeOK
    PROVE  /\ \A h \in Hands, x \in HandSteps :
                 LET m == [hand[h] EXCEPT !.step = x]
                 IN  m \in Hand /\ m.step = x /\ m.task = hand[h].task
                     /\ m.by = hand[h].by /\ m.places = hand[h].places
           /\ \A v \in Reviews, x \in ReviewSteps :
                 LET m == [review[v] EXCEPT !.step = x]
                 IN  m \in ReviewJob /\ m.step = x /\ m.sub = review[v].sub
                     /\ m.places = review[v].places
  BY ReviewFields DEF Hand, ReviewJob

\* One element more.
LEMMA OneMore ==
    ASSUME NEW S, IsFiniteSet(S), NEW x, NEW T, T \subseteq S \cup {x}, S \subseteq T
    PROVE  IsFiniteSet(T) /\ Cardinality(T) <= Cardinality(S) + 1
           /\ Cardinality(S) \in Nat /\ Cardinality(T) \in Nat
<1>1. T = S \/ T = S \cup {x}
  OBVIOUS
<1> QED
  BY <1>1, FS_AddElement, FS_CardinalityType

-----------------------------------------------------------------------------
(* What a step leaves alone                                                 *)

\* What is known of one handler.
Works(h) ==
    /\ hand[h].step # "idle" => hand[h].task \in Tasks /\ hand[h].by \in Contributors
    /\ hand[h].step \in {"count", "insert"} => hand[h].places <= mostPlaces[hand[h].task]
    /\ hand[h].step \in {"lookup", "create", "complete"} => hand[h].by \in Filled(hand[h].task)

\* Who works on a submission still works for somebody who has a place.
LEMMA HandsFrame ==
    ASSUME ReviewInv, \A t \in Tasks : Filled(t) \subseteq Filled(t)',
           \A t \in Tasks : mostPlaces[t] <= mostPlaces'[t] /\ mostPlaces'[t] \in Nat,
           \A h \in Hands : hand'[h] = hand[h] \/ hand'[h].step = "idle" \/ Works(h)'
    PROVE  HandsHold'
<1> SUFFICES ASSUME NEW h \in Hands PROVE Works(h)'
  BY DEF HandsHold, Works
<1>1. CASE hand'[h].step = "idle"
  BY <1>1 DEF Works
<1>2. CASE hand'[h] = hand[h] /\ hand[h].step # "idle"
  <2>1. hand[h].task \in Tasks /\ hand[h].by \in Contributors
    BY <1>2 DEF ReviewInv, HandsHold
  <2>2. hand[h].places \in Nat /\ mostPlaces[hand[h].task] \in Nat
    BY <2>1, ReviewFields, ReviewAssumption DEF ReviewInv
  <2> QED
    BY <1>2, <2>1, <2>2 DEF ReviewInv, HandsHold, Works
<1> QED
  BY <1>1, <1>2

\* Applications of no campaign overlap that did not before.
LEMMA ApplyFrame ==
    ASSUME ReviewInv, raced \subseteq raced', \A t \in Tasks : Filled(t)' = Filled(t),
           \A t \in Tasks : /\ mostPlaces[t] <= mostPlaces'[t] /\ mostPlaces'[t] \in Nat
                            /\ places'[t] <= mostPlaces'[t],
           \A h \in Hands : hand'[h] = hand[h] \/ hand'[h].step \notin {"count", "insert"}
    PROVE  ApplyHolds' /\ ContributorsWithinPlaces'
<1> SUFFICES ASSUME NEW t \in Tasks
             PROVE  /\ places'[t] <= mostPlaces'[t] /\ IsFiniteSet(Filled(t)')
                    /\ [what |-> "apply", task |-> t] \notin raced' =>
                          AppliesAlone(t)' /\ Cardinality(Filled(t)') <= mostPlaces'[t]
  BY DEF ApplyHolds, ContributorsWithinPlaces
<1>1. places'[t] <= mostPlaces'[t] /\ IsFiniteSet(Filled(t)')
  BY DEF ReviewInv, ApplyHolds
<1>2. ASSUME [what |-> "apply", task |-> t] \notin raced'
      PROVE  AppliesAlone(t)' /\ Cardinality(Filled(t)') <= mostPlaces'[t]
  <2>1. AppliesAlone(t) /\ Cardinality(Filled(t)) <= mostPlaces[t]
    BY <1>2 DEF ReviewInv, ApplyHolds, ContributorsWithinPlaces
  <2>2. Cardinality(Filled(t)) \in Nat /\ mostPlaces[t] \in Nat
    BY FS_CardinalityType, ReviewFields DEF ReviewInv, ApplyHolds
  <2>3. AppliesAlone(t)'
    BY <2>1 DEF AppliesAlone
  <2> QED
    BY <2>1, <2>2, <2>3
<1> QED
  BY <1>1, <1>2

\* Reviews of no submission overlap that did not before.
LEMMA JudgeFrame ==
    ASSUME ReviewInv, raced \subseteq raced', UNCHANGED payout,
           \A s \in Subs : sub'[s].status = sub[s].status \/ sub[s].status = "NONE",
           \A v \in Reviews : review'[v] = review[v] \/ review'[v].sub = NoSub
    PROVE  JudgeHolds' /\ PaidOnceWhenVerified'
<1> SUFFICES ASSUME NEW s \in Subs, ReviewRace(s) \notin raced'
             PROVE  JudgedAlone(s)' /\ payout[s] <= IF sub'[s].status = "VERIFIED" THEN 1 ELSE 0
  BY DEF JudgeHolds, PaidOnceWhenVerified, ReviewRace
<1>1. JudgedAlone(s) /\ payout[s] <= IF sub[s].status = "VERIFIED" THEN 1 ELSE 0
  BY DEF ReviewInv, JudgeHolds, PaidOnceWhenVerified, ReviewRace
<1>2. sub[s].status = "NONE" => payout[s] = 0 /\ ~Reviewing(s)
  BY DEF ReviewInv, SubsHold
<1>3. \A v \in Reviews : review'[v].sub = s => review'[v] = review[v]
  BY ReviewAssumption
<1>4. JudgedAlone(s)'
  BY <1>1, <1>2, <1>3 DEF JudgedAlone, Reviewing
<1> QED
  BY <1>1, <1>2, <1>4

\* Payouts of no campaign overlap that did not before.
LEMMA PayFrame ==
    ASSUME ReviewInv, raced \subseteq raced', UNCHANGED payout,
           \A t \in Tasks : mostPlaces[t] <= mostPlaces'[t] /\ mostPlaces'[t] \in Nat,
           \A s \in Subs : sub'[s].task = sub[s].task \/ sub[s].status = "NONE",
           \A v \in Reviews : review'[v] = review[v] \/ review'[v].step \notin {"free", "credit"}
    PROVE  PayHolds' /\ PayoutsWithinPlaces'
<1> SUFFICES ASSUME NEW t \in Tasks
             PROVE  /\ IsFiniteSet(Paid(t)')
                    /\ [what |-> "payout", task |-> t] \notin raced' =>
                          PaysAlone(t)' /\ Cardinality(Paid(t)') <= mostPlaces'[t]
  BY DEF PayHolds, PayoutsWithinPlaces
<1>1. \A s \in Subs : sub[s].status = "NONE" => payout[s] = 0 /\ ~Reviewing(s)
  BY DEF ReviewInv, SubsHold
<1>2. Paid(t)' = Paid(t)
  BY <1>1 DEF Paid
<1>3. \A v \in Reviews : Pays(v, t)' => Pays(v, t) /\ review'[v] = review[v]
  <2> SUFFICES ASSUME NEW v \in Reviews, Pays(v, t)'
               PROVE  Pays(v, t) /\ review'[v] = review[v]
    OBVIOUS
  <2>1. review'[v] = review[v] /\ review[v].step \in {"free", "credit"}
    BY DEF Pays
  <2>2. review[v].sub \in Subs
    BY <2>1 DEF ReviewInv, ReviewsHold
  <2>3. sub'[review[v].sub].task = sub[review[v].sub].task
    BY <1>1, <2>2 DEF Reviewing
  <2> QED
    BY <2>1, <2>3 DEF Pays
<1>4. IsFiniteSet(Paid(t)) /\ Cardinality(Paid(t)) \in Nat /\ mostPlaces[t] \in Nat
  BY FS_CardinalityType, ReviewFields DEF ReviewInv, PayHolds
<1>5. ASSUME [what |-> "payout", task |-> t] \notin raced'
      PROVE  PaysAlone(t)' /\ Cardinality(Paid(t)') <= mostPlaces'[t]
  <2>1. PaysAlone(t) /\ Cardinality(Paid(t)) <= mostPlaces[t]
    BY <1>5 DEF ReviewInv, PayHolds, PayoutsWithinPlaces
  <2>2. PaysAlone(t)'
    BY <1>2, <1>3, <1>4, <2>1 DEF PaysAlone
  <2> QED
    BY <1>2, <1>4, <2>1, <2>2
<1> QED
  BY <1>2, <1>4, <1>5

\* Submissions of no contributor overlap that did not before.
LEMMA SubmitFrame ==
    ASSUME ReviewInv, raced \subseteq raced', UNCHANGED sub,
           \A t \in Tasks, c \in Contributors :
              app'[t][c] = "COMPLETED" => app[t][c] = "COMPLETED",
           \A h \in Hands : \/ hand'[h] = hand[h]
                            \/ hand'[h].step \notin {"lookup", "create", "complete"},
           \A v \in Reviews : /\ review'[v].sub \in {review[v].sub, NoSub}
                              /\ review[v].step = "reopen" => review'[v] = review[v]
    PROVE  SubmitHolds'
<1> SUFFICES ASSUME NEW t \in Tasks, NEW c \in Contributors, SubmitRace(t, c) \notin raced'
             PROVE  SubmitsAlone(t, c)' /\ Completes(t, c)'
  BY DEF SubmitHolds, SubmitRace
<1>1. SubmitsAlone(t, c) /\ Completes(t, c)
  BY DEF ReviewInv, SubmitHolds, SubmitRace
<1>2. Of(t, c)' = Of(t, c)
  BY DEF Of
<1>3. Unraced(t, c)' \subseteq Unraced(t, c)
  BY <1>2 DEF Unraced, ReviewRace
<1>4. \A h \in Hands : Submits(h, t, c)' => Submits(h, t, c) /\ hand'[h] = hand[h]
  BY DEF Submits
<1>5. SubmitsAlone(t, c)'
  BY <1>1, <1>3, <1>4 DEF SubmitsAlone
<1>6. ASSUME NEW s \in Subs
      PROVE  (Awaited(s) => Awaited(s)') /\ (~Reviewing(s) => ~Reviewing(s)')
  <2>1. Awaited(s) => Awaited(s)'
    BY DEF Awaited
  <2>2. ~Reviewing(s) => ~Reviewing(s)'
    BY ReviewAssumption DEF Reviewing
  <2> QED
    BY <2>1, <2>2
<1>7. Of(t, c) \subseteq Subs
  BY DEF Of
<1>8. Completes(t, c)'
  BY <1>1, <1>2, <1>4, <1>6, <1>7 DEF Completes
<1> QED
  BY <1>5, <1>8

\* No submission is written, and no review begins.
LEMMA SubsFrame ==
    ASSUME ReviewInv, UNCHANGED <<sub, payout>>,
           \A t \in Tasks : Filled(t) \subseteq Filled(t)',
           \A v \in Reviews : review'[v].sub \in {review[v].sub, NoSub}
    PROVE  SubsHold'
<1> SUFFICES ASSUME NEW s \in Subs
             PROVE  IF sub[s].status = "NONE"
                    THEN sub[s].task = NoTask /\ payout[s] = 0 /\ ~Reviewing(s)'
                    ELSE /\ sub[s].task \in Tasks /\ sub[s].by \in Contributors
                         /\ sub[s].by \in Filled(sub[s].task)'
  BY DEF SubsHold
<1>1. ~Reviewing(s) => ~Reviewing(s)'
  BY ReviewAssumption DEF Reviewing
<1> QED
  BY <1>1 DEF ReviewInv, SubsHold

\* What is known of one review.
Reads(v) ==
    /\ review[v].step # "idle" => review[v].sub \in Subs
    /\ review[v].step = "idle" => review[v].sub = NoSub
    /\ review[v].step = "free" => review[v].places <= mostPlaces[sub[review[v].sub].task]

\* No review moves but to its end.
LEMMA ReviewsFrame ==
    ASSUME ReviewInv,
           \A t \in Tasks : mostPlaces[t] <= mostPlaces'[t] /\ mostPlaces'[t] \in Nat,
           \A s \in Subs : sub'[s].task = sub[s].task \/ sub[s].status = "NONE",
           \A v \in Reviews : review'[v] = review[v] \/ review'[v] = IdleReview \/ Reads(v)'
    PROVE  ReviewsHold'
<1> SUFFICES ASSUME NEW v \in Reviews PROVE Reads(v)'
  BY DEF ReviewsHold, Reads
<1>1. CASE review'[v] = IdleReview
  BY <1>1, IdleHolds DEF Reads
<1>2. CASE review'[v] = review[v]
  <2>1. ASSUME review[v].step = "free"
        PROVE  review[v].places <= mostPlaces'[sub'[review[v].sub].task]
    <3>1. PICK s \in Subs : s = review[v].sub
      BY <2>1 DEF ReviewInv, ReviewsHold
    <3>2. sub[s].status # "NONE"
      BY <3>1 DEF ReviewInv, SubsHold, Reviewing
    <3>3. PICK t \in Tasks : t = sub[s].task /\ t = sub'[s].task
      BY <3>2 DEF ReviewInv, SubsHold
    <3>4. review[v].places <= mostPlaces[t]
      BY <2>1, <3>1, <3>3 DEF ReviewInv, ReviewsHold
    <3>5. review[v].places \in Nat /\ mostPlaces[t] \in Nat /\ mostPlaces'[t] \in Nat
      BY ReviewFields, ReviewAssumption DEF ReviewInv
    <3> QED
      BY <3>1, <3>3, <3>4, <3>5
  <2> QED
    BY <1>2, <2>1 DEF ReviewInv, ReviewsHold, Reads
<1> QED
  BY <1>1, <1>2

-----------------------------------------------------------------------------
(* The campaign                                                             *)

\* Publishing, pausing or settling a campaign touches nobody's work.
LEMMA StatusChanges ==
    ASSUME ReviewInv, NEW t \in Tasks, ChangeStatus(t)
    PROVE  ReviewInv'
<1> USE DEF ChangeStatus
<1>1. TypeOK'
  BY DEF ReviewInv, TypeOK
<1>2. \A u \in Tasks : /\ Filled(u)' = Filled(u) /\ places[u] <= mostPlaces[u]
                       /\ mostPlaces'[u] = mostPlaces[u] /\ mostPlaces[u] \in Nat
  <2>1. \A u \in Tasks : Filled(u)' = Filled(u)
    BY DEF Filled
  <2> QED
    BY <2>1, ReviewFields DEF ReviewInv, ApplyHolds
<1>3. HandsHold' /\ SubsHold' /\ ReviewsHold'
  BY <1>2, HandsFrame, SubsFrame, ReviewsFrame
<1>4. ApplyHolds' /\ ContributorsWithinPlaces' /\ PayHolds' /\ PayoutsWithinPlaces'
  BY <1>2, ApplyFrame, PayFrame
<1>5. JudgeHolds' /\ PaidOnceWhenVerified' /\ SubmitHolds'
  BY JudgeFrame, SubmitFrame
<1> QED
  BY <1>1, <1>3, <1>4, <1>5 DEF ReviewInv

\* A campaign that gets other places never had more than it had at most.
LEMMA PlacesChange ==
    ASSUME ReviewInv, NEW t \in Tasks, NEW n \in 1 .. MaxPlaces, ChangePlaces(t, n)
    PROVE  ReviewInv'
<1> USE DEF ChangePlaces
<1>1. TypeOK'
  BY DEF ReviewInv, TypeOK
<1>2. \A u \in Tasks : /\ places'[u] = IF u = t THEN n ELSE places[u]
                       /\ mostPlaces'[u] = IF u = t /\ n > mostPlaces[u] THEN n
                                           ELSE mostPlaces[u]
  BY DEF ReviewInv, TypeOK
<1>3. \A u \in Tasks : /\ Filled(u)' = Filled(u) /\ places[u] <= mostPlaces[u]
                       /\ places[u] \in Nat /\ mostPlaces[u] \in Nat /\ n \in Nat
  <2>1. \A u \in Tasks : Filled(u)' = Filled(u)
    BY DEF Filled
  <2>2. \A u \in Tasks : places[u] <= mostPlaces[u]
    BY DEF ReviewInv, ApplyHolds
  <2>3. n \in Nat
    BY ReviewAssumption
  <2> QED
    BY <2>1, <2>2, <2>3, ReviewFields DEF ReviewInv
<1>4. \A u \in Tasks : /\ mostPlaces[u] <= mostPlaces'[u] /\ mostPlaces'[u] \in Nat
                       /\ places'[u] <= mostPlaces'[u] /\ Filled(u)' = Filled(u)
  BY <1>2, <1>3
<1>5. HandsHold' /\ SubsHold' /\ ReviewsHold'
  BY <1>4, HandsFrame, SubsFrame, ReviewsFrame
<1>6. ApplyHolds' /\ ContributorsWithinPlaces' /\ PayHolds' /\ PayoutsWithinPlaces'
  BY <1>4, ApplyFrame, PayFrame
<1>7. JudgeHolds' /\ PaidOnceWhenVerified' /\ SubmitHolds'
  BY JudgeFrame, SubmitFrame
<1> QED
  BY <1>1, <1>5, <1>6, <1>7 DEF ReviewInv

-----------------------------------------------------------------------------
(* Applications                                                             *)

\* What a step of a contributor's handler that writes no row leaves alone.
LEMMA HandMoves ==
    ASSUME ReviewInv, NEW h \in Hands, NEW m \in Hand, hand' = [hand EXCEPT ![h] = m],
           raced \subseteq raced', raced' \subseteq Races,
           UNCHANGED <<env, app, sub, payout, review>>
    PROVE  /\ TypeOK' /\ SubsHold' /\ ReviewsHold'
           /\ JudgeHolds' /\ PaidOnceWhenVerified' /\ PayHolds' /\ PayoutsWithinPlaces'
<1> USE DEF env
<1>1. TypeOK'
  BY HandSlot DEF ReviewInv, TypeOK
<1>2. \A u \in Tasks : /\ Filled(u)' = Filled(u)
                       /\ mostPlaces[u] <= mostPlaces'[u] /\ mostPlaces'[u] \in Nat
  BY ReviewFields DEF ReviewInv, Filled
<1>3. SubsHold' /\ ReviewsHold'
  BY <1>2, SubsFrame, ReviewsFrame
<1>4. JudgeHolds' /\ PaidOnceWhenVerified' /\ PayHolds' /\ PayoutsWithinPlaces'
  BY <1>2, JudgeFrame, PayFrame
<1> QED
  BY <1>1, <1>3, <1>4

\* An application that begins while no other is in flight is the only one.
LEMMA ApplicationBegins ==
    ASSUME ReviewInv, NEW h \in Hands, NEW t \in Tasks, NEW c \in Contributors,
           ApplyForTask(h, t, c)
    PROVE  ReviewInv'
<1> DEFINE m == [step |-> "count", task |-> t, by |-> c, places |-> places[t]]
           race(u) == [what |-> "apply", task |-> u]
<1>1. m \in Hand /\ m.step = "count" /\ m.task = t /\ m.by = c /\ m.places = places[t]
  BY DEF ReviewInv, TypeOK, Hand, HandSteps
<1>2. /\ hand' = [hand EXCEPT ![h] = m] /\ UNCHANGED <<env, app, sub, payout, review>>
      /\ raced' = raced \cup (IF Applying(t) THEN {race(t)} ELSE {})
  BY DEF ApplyForTask, Note, Race
<1>3. raced \subseteq raced' /\ raced' \subseteq Races
  BY <1>2 DEF Races, ReviewInv, TypeOK
<1>4. hand'[h].step = "count" /\ hand'[h] = m /\ \A g \in Hands : g # h => hand'[g] = hand[g]
  BY <1>1, <1>2, HandSlot DEF ReviewInv
<1> HIDE DEF m
<1>5. /\ TypeOK' /\ SubsHold' /\ ReviewsHold'
      /\ JudgeHolds' /\ PaidOnceWhenVerified' /\ PayHolds' /\ PayoutsWithinPlaces'
  BY <1>1, <1>2, <1>3, HandMoves
<1>6. SubmitHolds'
  BY <1>2, <1>3, <1>4, SubmitFrame
<1>7. HandsHold'
  <2>1. \A u \in Tasks : Filled(u)' = Filled(u) /\ mostPlaces'[u] = mostPlaces[u]
                         /\ mostPlaces[u] \in Nat /\ places[u] <= mostPlaces[u]
    BY <1>2, ReviewFields DEF ReviewInv, ApplyHolds, Filled, env
  <2>2. Works(h)'
    BY <1>1, <1>4, <2>1 DEF Works
  <2> QED
    BY <1>4, <2>1, <2>2, HandsFrame
<1>8. ApplyHolds' /\ ContributorsWithinPlaces'
  <2>1. \A u \in Tasks : Filled(u)' = Filled(u) /\ UNCHANGED <<places[u], mostPlaces[u]>>
    BY <1>2 DEF Filled, env
  <2>2. ContributorsWithinPlaces'
    BY <1>3, <2>1 DEF ReviewInv, ContributorsWithinPlaces
  <2>3. ASSUME NEW u \in Tasks, race(u) \notin raced'
        PROVE  AppliesAlone(u)'
    <3>1. AppliesAlone(u)
      BY <1>3, <2>3 DEF ReviewInv, ApplyHolds
    <3>2. CASE u = t
      <4>1. \A g \in Hands : ~(hand[g].step \in {"count", "insert"} /\ hand[g].task = t)
        BY <1>2, <2>3, <3>2 DEF Applying
      <4> QED
        BY <1>4, <3>2, <4>1 DEF AppliesAlone
    <3>3. CASE u # t
      <4>1. hand'[h].task # u
        BY <1>1, <1>4, <3>3
      <4> QED
        BY <1>4, <2>1, <3>1, <4>1 DEF AppliesAlone
    <3> QED
      BY <3>2, <3>3
  <2> QED
    BY <2>1, <2>2, <2>3 DEF ReviewInv, ApplyHolds
<1> QED
  BY <1>5, <1>6, <1>7, <1>8 DEF ReviewInv

\* A handler that found a place left inserts an application while there is one.
LEMMA ApplicationsCounted ==
    ASSUME ReviewInv, NEW h \in Hands, CountApplications(h)
    PROVE  ReviewInv'
<1>1. PICK m \in Hand : m = [hand[h] EXCEPT !.step = "insert"]
  BY NextStep DEF ReviewInv, HandSteps
<1>2. /\ m.step = "insert" /\ m.task = hand[h].task /\ m.by = hand[h].by
      /\ m.places = hand[h].places
  BY <1>1, NextStep DEF ReviewInv, HandSteps
<1>3. /\ hand' = [hand EXCEPT ![h] = m] /\ UNCHANGED <<env, app, sub, payout, review, raced>>
      /\ hand[h].step = "count" /\ Cardinality(Filled(hand[h].task)) < hand[h].places
  BY <1>1 DEF CountApplications, GoHand
<1>4. hand'[h] = m /\ \A g \in Hands : g # h => hand'[g] = hand[g]
  BY <1>1, <1>3, HandSlot DEF ReviewInv
<1>5. /\ TypeOK' /\ SubsHold' /\ ReviewsHold'
      /\ JudgeHolds' /\ PaidOnceWhenVerified' /\ PayHolds' /\ PayoutsWithinPlaces'
  BY <1>1, <1>3, HandMoves DEF ReviewInv, TypeOK
<1>6. SubmitHolds'
  BY <1>2, <1>3, <1>4, SubmitFrame
<1>7. HandsHold'
  <2>1. \A u \in Tasks : Filled(u)' = Filled(u) /\ mostPlaces'[u] = mostPlaces[u]
                         /\ mostPlaces[u] \in Nat
    BY <1>3, ReviewFields DEF ReviewInv, Filled, env
  <2>2. Works(h)'
    BY <1>2, <1>3, <1>4, <2>1 DEF Works, ReviewInv, HandsHold
  <2> QED
    BY <1>4, <2>1, <2>2, HandsFrame
<1>8. ApplyHolds' /\ ContributorsWithinPlaces'
  <2>1. \A u \in Tasks : Filled(u)' = Filled(u) /\ UNCHANGED <<places[u], mostPlaces[u]>>
    BY <1>3 DEF Filled, env
  <2>2. ContributorsWithinPlaces'
    BY <1>3, <2>1 DEF ReviewInv, ContributorsWithinPlaces
  <2>3. \A u \in Tasks : AppliesAlone(u) => AppliesAlone(u)'
    BY <1>2, <1>3, <1>4, <2>1 DEF AppliesAlone
  <2> QED
    BY <1>3, <2>1, <2>2, <2>3 DEF ReviewInv, ApplyHolds
<1> QED
  BY <1>5, <1>6, <1>7, <1>8 DEF ReviewInv

\* Without overlap an application takes a place that was left.
LEMMA ApplicationInserted ==
    ASSUME ReviewInv, NEW h \in Hands, NEW status \in {"APPROVED", "PENDING"},
           InsertApplication(h, status)
    PROVE  ReviewInv'
<1>1. PICK t \in Tasks, c \in Contributors :
          t = hand[h].task /\ c = hand[h].by /\ hand[h].places <= mostPlaces[t]
  BY DEF ReviewInv, HandsHold, InsertApplication
<1>2. /\ hand' = [hand EXCEPT ![h] = IdleHand] /\ UNCHANGED <<env, sub, payout, review, raced>>
      /\ hand[h].step = "insert" /\ app' = [app EXCEPT ![t][c] = status] /\ app[t][c] = "NONE"
  BY <1>1 DEF InsertApplication, LeaveHand
<1>3. hand'[h] = IdleHand /\ \A g \in Hands : g # h => hand'[g] = hand[g]
  BY <1>2, HandSlot, IdleHolds DEF ReviewInv
<1>4. \A u \in Tasks, d \in Contributors :
          app'[u][d] = IF u = t /\ d = c THEN status ELSE app[u][d]
  BY <1>2 DEF ReviewInv, TypeOK
<1>5. TypeOK'
  <2>1. app' \in [Tasks -> [Contributors -> Application]]
    BY <1>2 DEF ReviewInv, TypeOK, Application
  <2> QED
    BY <1>2, <2>1, HandSlot, IdleHolds DEF ReviewInv, TypeOK, env
<1>6. \A u \in Tasks : /\ Filled(u) \subseteq Filled(u)' /\ Filled(u)' \subseteq Filled(u) \cup {c}
                       /\ u # t => Filled(u)' = Filled(u)
  BY <1>2, <1>4 DEF Filled
<1>7. \A u \in Tasks : /\ mostPlaces'[u] = mostPlaces[u] /\ mostPlaces[u] \in Nat
                       /\ places'[u] <= mostPlaces'[u]
  BY <1>2, ReviewFields DEF ReviewInv, ApplyHolds, env
<1>8. HandsHold' /\ SubsHold' /\ ReviewsHold'
  BY <1>2, <1>3, <1>6, <1>7, IdleHolds, HandsFrame, SubsFrame, ReviewsFrame
<1>9. JudgeHolds' /\ PaidOnceWhenVerified' /\ PayHolds' /\ PayoutsWithinPlaces'
  BY <1>2, <1>7, JudgeFrame, PayFrame
<1>10. SubmitHolds'
  BY <1>2, <1>3, <1>4, IdleHolds, SubmitFrame
<1>11. ApplyHolds' /\ ContributorsWithinPlaces'
  <2> SUFFICES ASSUME NEW u \in Tasks
               PROVE  /\ IsFiniteSet(Filled(u)')
                      /\ [what |-> "apply", task |-> u] \notin raced' =>
                            AppliesAlone(u)' /\ Cardinality(Filled(u)') <= mostPlaces'[u]
    BY <1>7 DEF ApplyHolds, ContributorsWithinPlaces
  <2>1. /\ IsFiniteSet(Filled(u)') /\ Cardinality(Filled(u)') <= Cardinality(Filled(u)) + 1
        /\ Cardinality(Filled(u)) \in Nat /\ Cardinality(Filled(u)') \in Nat
    BY <1>6, OneMore DEF ReviewInv, ApplyHolds
  <2>2. ASSUME [what |-> "apply", task |-> u] \notin raced'
        PROVE  AppliesAlone(u)' /\ Cardinality(Filled(u)') <= mostPlaces'[u]
    <3>1. AppliesAlone(u) /\ Cardinality(Filled(u)) <= mostPlaces[u]
      BY <1>2, <2>2 DEF ReviewInv, ApplyHolds, ContributorsWithinPlaces
    <3>2. CASE u = t
      <4>1. Cardinality(Filled(t)) < hand[h].places /\ hand[h].places \in Nat
        BY <1>1, <1>2, <3>1, <3>2, ReviewFields DEF ReviewInv, AppliesAlone
      <4>2. Cardinality(Filled(u)') <= mostPlaces'[u]
        BY <1>1, <1>7, <2>1, <3>2, <4>1
      <4>3. \A g \in Hands : ~(hand'[g].step \in {"count", "insert"} /\ hand'[g].task = t)
        BY <1>1, <1>2, <1>3, <3>1, <3>2, IdleHolds DEF AppliesAlone
      <4> QED
        BY <3>2, <4>2, <4>3 DEF AppliesAlone
    <3>3. CASE u # t
      BY <1>3, <1>6, <1>7, <3>1, <3>3, IdleHolds DEF AppliesAlone
    <3> QED
      BY <3>2, <3>3
  <2> QED
    BY <2>1, <2>2
<1> QED
  BY <1>5, <1>8, <1>9, <1>10, <1>11 DEF ReviewInv

-----------------------------------------------------------------------------
(* Submissions                                                              *)

\* What a contributor's handler that goes on towards a submission leaves alone.
LEMMA SubmissionMoves ==
    ASSUME ReviewInv, NEW h \in Hands, NEW m \in Hand, hand' = [hand EXCEPT ![h] = m],
           m.step \notin {"count", "insert"}, m.step \in {"lookup", "create", "complete"} =>
              m.task \in Tasks /\ m.by \in Filled(m.task),
           raced \subseteq raced', raced' \subseteq Races,
           UNCHANGED <<env, app, sub, payout, review>>
    PROVE  /\ TypeOK' /\ HandsHold' /\ SubsHold' /\ ReviewsHold'
           /\ ApplyHolds' /\ ContributorsWithinPlaces'
           /\ JudgeHolds' /\ PaidOnceWhenVerified' /\ PayHolds' /\ PayoutsWithinPlaces'
<1>1. /\ TypeOK' /\ SubsHold' /\ ReviewsHold'
      /\ JudgeHolds' /\ PaidOnceWhenVerified' /\ PayHolds' /\ PayoutsWithinPlaces'
  BY HandMoves
<1>2. hand'[h] = m /\ \A g \in Hands : g # h => hand'[g] = hand[g]
  BY HandSlot DEF ReviewInv
<1>3. \A u \in Tasks : /\ Filled(u)' = Filled(u) /\ mostPlaces'[u] = mostPlaces[u]
                       /\ mostPlaces[u] \in Nat /\ places'[u] <= mostPlaces'[u]
  <2>1. \A u \in Tasks : Filled(u)' = Filled(u)
    BY DEF Filled
  <2> QED
    BY <2>1, ReviewFields DEF ReviewInv, ApplyHolds, env
<1>4. HandsHold'
  <2>1. Works(h)'
    <3>1. m.step # "idle" => m.step \in {"lookup", "create", "complete"}
      BY DEF Hand, HandSteps
    <3>2. \A u \in Tasks : Filled(u) \subseteq Contributors
      BY DEF Filled
    <3> QED
      BY <1>2, <1>3, <3>1, <3>2 DEF Works
  <2> QED
    BY <1>2, <1>3, <2>1, HandsFrame
<1>5. ApplyHolds' /\ ContributorsWithinPlaces'
  BY <1>2, <1>3, ApplyFrame
<1> QED
  BY <1>1, <1>4, <1>5

\* A handler that begins while no other works on the contributor's submissions of
\* the campaign is the only one.
LEMMA SubmissionBegins ==
    ASSUME ReviewInv, NEW h \in Hands, NEW t \in Tasks, NEW c \in Contributors,
           CreateSubmission(h, t, c)
    PROVE  ReviewInv'
<1> DEFINE m == [step |-> "lookup", task |-> t, by |-> c, places |-> 0]
<1>1. m \in Hand /\ m.step = "lookup" /\ m.task = t /\ m.by = c
  BY ReviewAssumption DEF ReviewInv, TypeOK, Hand, HandSteps
<1>2. /\ hand' = [hand EXCEPT ![h] = m] /\ UNCHANGED <<env, app, sub, payout, review>>
      /\ raced' = raced \cup (IF Submitting(t, c) THEN {SubmitRace(t, c)} ELSE {})
      /\ app[t][c] = "APPROVED"
  BY DEF CreateSubmission, Note, Race, SubmitRace
<1>3. raced \subseteq raced' /\ raced' \subseteq Races
  BY <1>2 DEF Races, ReviewInv, TypeOK, SubmitRace
<1>4. hand'[h] = m /\ \A g \in Hands : g # h => hand'[g] = hand[g]
  BY <1>1, <1>2, HandSlot DEF ReviewInv
<1> HIDE DEF m
<1>5. c \in Filled(t)
  BY <1>2 DEF Filled
<1>6. SubmitHolds'
  <2> SUFFICES ASSUME NEW u \in Tasks, NEW d \in Contributors, SubmitRace(u, d) \notin raced'
               PROVE  SubmitsAlone(u, d)' /\ Completes(u, d)'
    BY DEF SubmitHolds, SubmitRace
  <2>1. SubmitsAlone(u, d) /\ Completes(u, d)
    BY <1>3 DEF ReviewInv, SubmitHolds, SubmitRace
  <2>2. Of(u, d)' = Of(u, d)
    BY <1>2 DEF Of
  <2>3. Unraced(u, d)' \subseteq Unraced(u, d)
    BY <1>3, <2>2 DEF Unraced, ReviewRace
  <2>4. \A g \in Hands : Submits(g, u, d)' /\ g # h => Submits(g, u, d) /\ hand'[g] = hand[g]
    BY <1>4 DEF Submits
  <2>5. hand'[h].step = "lookup"
    BY <1>1, <1>4
  <2>6. Submits(h, u, d)' => \A g \in Hands : ~Submits(g, u, d)
    BY <1>1, <1>2, <1>4 DEF Submits, Submitting
  <2>7. SubmitsAlone(u, d)'
    BY <1>2, <2>1, <2>3, <2>4, <2>5, <2>6 DEF SubmitsAlone
  <2>8. \A s \in Subs : (Awaited(s) => Awaited(s)') /\ Reviewing(s)' = Reviewing(s)
    <3>1. \A s \in Subs : Awaited(s) => Awaited(s)'
      BY <1>2, <1>3 DEF Awaited
    <3>2. \A s \in Subs : Reviewing(s)' = Reviewing(s)
      BY <1>2 DEF Reviewing
    <3> QED
      BY <3>1, <3>2
  <2>9. Of(u, d) \subseteq Subs
    BY DEF Of
  <2> QED
    BY <1>2, <2>1, <2>2, <2>4, <2>5, <2>7, <2>8, <2>9 DEF Completes
<1> QED
  BY <1>1, <1>2, <1>3, <1>5, <1>6, SubmissionMoves DEF ReviewInv

\* A handler that creates a submission has found the earlier ones rejected.
LEMMA SubmissionLookedUp ==
    ASSUME ReviewInv, NEW h \in Hands, LookupSubmission(h)
    PROVE  ReviewInv'
<1>1. PICK m \in Hand : m = [hand[h] EXCEPT !.step = "create"]
  BY NextStep DEF ReviewInv, HandSteps
<1>2. m.step = "create" /\ m.task = hand[h].task /\ m.by = hand[h].by
  BY <1>1, NextStep DEF ReviewInv, HandSteps
<1>3. /\ hand' = [hand EXCEPT ![h] = m] /\ UNCHANGED <<env, app, sub, payout, review, raced>>
      /\ hand[h].step = "lookup"
      /\ \A s \in Of(hand[h].task, hand[h].by) : sub[s].status = "REJECTED"
  BY <1>1 DEF LookupSubmission, GoHand
<1>4. hand'[h] = m /\ \A g \in Hands : g # h => hand'[g] = hand[g]
  BY <1>1, <1>3, HandSlot DEF ReviewInv
<1>5. m.task \in Tasks /\ m.by \in Filled(m.task)
  BY <1>2, <1>3 DEF ReviewInv, HandsHold
<1>6. SubmitHolds'
  <2> SUFFICES ASSUME NEW u \in Tasks, NEW d \in Contributors, SubmitRace(u, d) \notin raced'
               PROVE  SubmitsAlone(u, d)' /\ Completes(u, d)'
    BY DEF SubmitHolds, SubmitRace
  <2>1. SubmitsAlone(u, d) /\ Completes(u, d)
    BY <1>3 DEF ReviewInv, SubmitHolds, SubmitRace
  <2>2. Of(u, d)' = Of(u, d) /\ Unraced(u, d)' = Unraced(u, d) /\ Unraced(u, d) \subseteq Of(u, d)
    BY <1>3 DEF Of, Unraced
  <2>3. \A g \in Hands : /\ Submits(g, u, d)' = Submits(g, u, d)
                         /\ g # h => hand'[g] = hand[g]
    BY <1>2, <1>3, <1>4 DEF Submits
  <2>4. Submits(h, u, d) => \A s \in Of(u, d) : sub[s].status = "REJECTED"
    BY <1>3 DEF Submits
  <2>5. SubmitsAlone(u, d)'
    BY <1>3, <2>1, <2>2, <2>3, <2>4 DEF SubmitsAlone
  <2>6. Completes(u, d)'
    BY <1>2, <1>3, <1>4, <2>1, <2>2, <2>3 DEF Completes, Awaited, Reviewing
  <2> QED
    BY <2>5, <2>6
<1> QED
  BY <1>2, <1>3, <1>5, <1>6, SubmissionMoves DEF ReviewInv, TypeOK

\* A new submission awaits its review; without overlap it is the contributor's
\* only one that was not rejected.
LEMMA SubmissionInserted ==
    ASSUME ReviewInv, NEW h \in Hands, NEW s \in Subs, InsertSubmission(h, s)
    PROVE  ReviewInv'
<1>1. PICK m \in Hand : m = [hand[h] EXCEPT !.step = "complete"]
  BY NextStep DEF ReviewInv, HandSteps
<1>2. m.step = "complete" /\ m.task = hand[h].task /\ m.by = hand[h].by
  BY <1>1, NextStep DEF ReviewInv, HandSteps
<1>3. PICK t \in Tasks, c \in Contributors :
          t = hand[h].task /\ c = hand[h].by /\ c \in Filled(t)
  BY DEF ReviewInv, HandsHold, InsertSubmission
<1>4. PICK n : n = [status |-> "PENDING", task |-> t, by |-> c]
  OBVIOUS
<1>5. n \in Submission /\ n.status = "PENDING" /\ n.task = t /\ n.by = c
  BY <1>4 DEF Submission
<1>6. /\ hand' = [hand EXCEPT ![h] = m] /\ UNCHANGED <<env, app, payout, review, raced>>
      /\ hand[h].step = "create" /\ sub' = [sub EXCEPT ![s] = n] /\ sub[s].status = "NONE"
  BY <1>1, <1>3, <1>4 DEF InsertSubmission, GoHand
<1>7. hand'[h] = m /\ \A g \in Hands : g # h => hand'[g] = hand[g]
  BY <1>1, <1>6, HandSlot DEF ReviewInv
<1>8. sub'[s] = n /\ \A u \in Subs : u # s => sub'[u] = sub[u]
  BY <1>6 DEF ReviewInv, TypeOK
<1>9. TypeOK'
  BY <1>1, <1>5, <1>6, HandSlot DEF ReviewInv, TypeOK, env
<1>10. \A u \in Tasks : /\ Filled(u)' = Filled(u) /\ mostPlaces'[u] = mostPlaces[u]
                        /\ mostPlaces[u] \in Nat /\ places'[u] <= mostPlaces'[u]
  <2>1. \A u \in Tasks : Filled(u)' = Filled(u)
    BY <1>6 DEF Filled
  <2> QED
    BY <1>6, <2>1, ReviewFields DEF ReviewInv, ApplyHolds, env
<1>11. HandsHold'
  <2>1. Works(h)'
    BY <1>2, <1>3, <1>7, <1>10 DEF Works
  <2> QED
    BY <1>7, <1>10, <2>1, HandsFrame
<1>12. ApplyHolds' /\ ContributorsWithinPlaces'
  BY <1>2, <1>6, <1>7, <1>10, ApplyFrame
<1>13. \A u \in Subs : \/ sub[u].status = "NONE"
                       \/ sub'[u].status = sub[u].status /\ sub'[u].task = sub[u].task
  BY <1>6, <1>8
<1>14. JudgeHolds' /\ PaidOnceWhenVerified' /\ PayHolds' /\ PayoutsWithinPlaces' /\ ReviewsHold'
  BY <1>6, <1>10, <1>13, JudgeFrame, PayFrame, ReviewsFrame
<1>15. SubsHold'
  <2>1. \A u \in Subs : Reviewing(u)' = Reviewing(u)
    BY <1>6 DEF Reviewing
  <2> QED
    BY <1>3, <1>5, <1>6, <1>8, <1>10, <2>1 DEF ReviewInv, SubsHold
<1>16. SubmitHolds'
  <2> SUFFICES ASSUME NEW u \in Tasks, NEW d \in Contributors, SubmitRace(u, d) \notin raced'
               PROVE  SubmitsAlone(u, d)' /\ Completes(u, d)'
    BY DEF SubmitHolds, SubmitRace
  <2>1. SubmitsAlone(u, d) /\ Completes(u, d)
    BY <1>6 DEF ReviewInv, SubmitHolds, SubmitRace
  <2>2. \A g \in Hands : /\ Submits(g, u, d)' = Submits(g, u, d)
                         /\ g # h => hand'[g] = hand[g]
    BY <1>2, <1>6, <1>7 DEF Submits
  <2>3. Submits(h, u, d) <=> u = t /\ d = c
    BY <1>3, <1>6 DEF Submits
  <2>4. s \notin Of(u, d) /\ Of(u, d) \subseteq Subs
    BY <1>6 DEF Of
  <2>5. \A x \in Of(u, d) : x \in Of(u, d)' /\ sub'[x] = sub[x]
    BY <1>8, <2>4 DEF Of
  <2>6. Of(u, d)' \subseteq Of(u, d) \cup {s}
    BY <1>8 DEF Of
  <2>7. s \in Of(u, d)' => u = t /\ d = c
    BY <1>5, <1>8 DEF Of
  <2>8. Unraced(u, d)' \subseteq Unraced(u, d) \cup {s} /\ Unraced(u, d)' \subseteq Of(u, d)'
    BY <1>6, <2>6 DEF Unraced, ReviewRace
  <2>9. \A x \in Subs : Reviewing(x)' = Reviewing(x)
    BY <1>6 DEF Reviewing
  <2>10. \A x \in Of(u, d) : Awaited(x) => Awaited(x)'
    BY <1>6, <2>5 DEF Awaited
  <2>11. CASE u = t /\ d = c
    <3>1. \A g \in Hands : Submits(g, u, d) => g = h
      BY <2>1, <2>3, <2>11 DEF SubmitsAlone
    <3>2. \A x \in Unraced(u, d) : sub[x].status = "REJECTED" /\ sub'[x] = sub[x]
      BY <1>6, <2>1, <2>3, <2>5, <2>11 DEF SubmitsAlone, Unraced
    <3>3. SubmitsAlone(u, d)'
      BY <1>2, <1>7, <2>2, <2>8, <3>1, <3>2 DEF SubmitsAlone
    <3>4. s \in Of(u, d)' /\ sub'[s].status = "PENDING" /\ ~Reviewing(s)'
      BY <1>5, <1>6, <1>8, <2>9, <2>11 DEF Of, ReviewInv, SubsHold
    <3>5. Completes(u, d)'
      BY <3>4 DEF Completes, Awaited
    <3> QED
      BY <3>3, <3>5
  <2>12. CASE ~(u = t /\ d = c)
    <3>1. Unraced(u, d)' \subseteq Unraced(u, d)
      BY <2>7, <2>8, <2>12
    <3>2. \A x \in Unraced(u, d) : sub'[x] = sub[x]
      BY <2>5 DEF Unraced
    <3>3. \A g \in Hands : Submits(g, u, d)' => Submits(g, u, d) /\ hand'[g] = hand[g]
      BY <2>2, <2>3, <2>12
    <3>4. SubmitsAlone(u, d)'
      BY <2>1, <3>1, <3>2, <3>3 DEF SubmitsAlone
    <3>5. Completes(u, d)'
      BY <1>6, <2>1, <2>4, <2>5, <2>9, <2>10, <3>3 DEF Completes
    <3> QED
      BY <3>4, <3>5
  <2> QED
    BY <2>11, <2>12
<1> QED
  BY <1>9, <1>11, <1>12, <1>14, <1>15, <1>16 DEF ReviewInv

\* The application is completed while its new submission awaits a review.
LEMMA ApplicationCompleted ==
    ASSUME ReviewInv, NEW h \in Hands, CompleteApplication(h)
    PROVE  ReviewInv'
<1>1. PICK t \in Tasks, c \in Contributors :
          t = hand[h].task /\ c = hand[h].by /\ c \in Filled(t)
  BY DEF ReviewInv, HandsHold, CompleteApplication
<1>2. /\ hand' = [hand EXCEPT ![h] = IdleHand] /\ UNCHANGED <<env, sub, payout, review, raced>>
      /\ hand[h].step = "complete" /\ app' = [app EXCEPT ![t][c] = "COMPLETED"]
  BY <1>1 DEF CompleteApplication, LeaveHand
<1>3. hand'[h] = IdleHand /\ \A g \in Hands : g # h => hand'[g] = hand[g]
  BY <1>2, HandSlot, IdleHolds DEF ReviewInv
<1>4. \A u \in Tasks, d \in Contributors :
          app'[u][d] = IF u = t /\ d = c THEN "COMPLETED" ELSE app[u][d]
  BY <1>2 DEF ReviewInv, TypeOK
<1>5. TypeOK'
  <2>1. app' \in [Tasks -> [Contributors -> Application]]
    BY <1>2 DEF ReviewInv, TypeOK, Application
  <2> QED
    BY <1>2, <2>1, HandSlot, IdleHolds DEF ReviewInv, TypeOK, env
<1>6. \A u \in Tasks : /\ Filled(u)' = Filled(u) /\ mostPlaces'[u] = mostPlaces[u]
                       /\ mostPlaces[u] \in Nat /\ places'[u] <= mostPlaces'[u]
  <2>1. \A u \in Tasks : Filled(u)' = Filled(u)
    BY <1>1, <1>4 DEF Filled
  <2> QED
    BY <1>2, <2>1, ReviewFields DEF ReviewInv, ApplyHolds, env
<1>7. HandsHold' /\ SubsHold' /\ ReviewsHold'
  BY <1>2, <1>3, <1>6, IdleHolds, HandsFrame, SubsFrame, ReviewsFrame
<1>8. ApplyHolds' /\ ContributorsWithinPlaces'
  BY <1>2, <1>3, <1>6, IdleHolds, ApplyFrame
<1>9. JudgeHolds' /\ PaidOnceWhenVerified' /\ PayHolds' /\ PayoutsWithinPlaces'
  BY <1>2, <1>6, JudgeFrame, PayFrame
<1>10. SubmitHolds'
  <2> SUFFICES ASSUME NEW u \in Tasks, NEW d \in Contributors, SubmitRace(u, d) \notin raced'
               PROVE  SubmitsAlone(u, d)' /\ Completes(u, d)'
    BY DEF SubmitHolds, SubmitRace
  <2>1. SubmitsAlone(u, d) /\ Completes(u, d)
    BY <1>2 DEF ReviewInv, SubmitHolds, SubmitRace
  <2>2. Of(u, d)' = Of(u, d) /\ Unraced(u, d)' = Unraced(u, d)
    BY <1>2 DEF Of, Unraced
  <2>3. \A g \in Hands : Submits(g, u, d)' => Submits(g, u, d) /\ hand'[g] = hand[g]
    BY <1>3, IdleHolds DEF Submits
  <2>4. SubmitsAlone(u, d)'
    BY <1>2, <2>1, <2>2, <2>3 DEF SubmitsAlone
  <2>5. \A x \in Subs : Reviewing(x)' = Reviewing(x) /\ Awaited(x)' = Awaited(x)
    BY <1>2 DEF Reviewing, Awaited
  <2>6. Of(u, d) \subseteq Subs
    BY DEF Of
  <2>7. \A g \in Hands : Submits(g, u, d)' /\ hand'[g].step = "complete" =>
            \E x \in Of(u, d)' : sub'[x].status = "PENDING" /\ ~Reviewing(x)'
    BY <1>2, <2>1, <2>2, <2>3, <2>5, <2>6 DEF Completes
  <2>8. app'[u][d] = "COMPLETED" => \E x \in Of(u, d)' : Awaited(x)'
    <3>1. CASE u = t /\ d = c
      <4>1. Submits(h, u, d)
        BY <1>1, <1>2, <3>1 DEF Submits
      <4>2. PICK x \in Of(u, d) : sub[x].status = "PENDING"
        BY <1>2, <2>1, <4>1 DEF Completes
      <4> QED
        BY <2>2, <2>5, <2>6, <4>2 DEF Awaited
    <3>2. CASE ~(u = t /\ d = c)
      BY <1>4, <2>1, <2>2, <2>5, <2>6, <3>2 DEF Completes
    <3> QED
      BY <3>1, <3>2
  <2> QED
    BY <2>4, <2>7, <2>8 DEF Completes
<1> QED
  BY <1>5, <1>7, <1>8, <1>9, <1>10 DEF ReviewInv

\* A contributor's handler that ends early leaves everything as it is.
LEMMA HandDrops ==
    ASSUME ReviewInv, NEW h \in Hands, DropHand(h)
    PROVE  ReviewInv'
<1>1. hand' = [hand EXCEPT ![h] = IdleHand] /\ UNCHANGED <<env, app, sub, payout, review, raced>>
  BY DEF DropHand, LeaveHand
<1>2. hand'[h] = IdleHand /\ \A g \in Hands : g # h => hand'[g] = hand[g]
  BY <1>1, HandSlot, IdleHolds DEF ReviewInv
<1>3. SubmitHolds'
  BY <1>1, <1>2, IdleHolds, SubmitFrame
<1> QED
  BY <1>1, <1>3, IdleHolds, SubmissionMoves DEF ReviewInv, TypeOK

-----------------------------------------------------------------------------
(* Reviews                                                                  *)

\* A submission under review was made by somebody who has a place.
LEMMA UnderReview ==
    ASSUME ReviewInv, NEW v \in Reviews, review[v].step # "idle"
    PROVE  \E s \in Subs : /\ s = review[v].sub /\ sub[s].status # "NONE"
                           /\ sub[s].task \in Tasks /\ sub[s].by \in Contributors
                           /\ sub[s].by \in Filled(sub[s].task)
<1>1. PICK s \in Subs : s = review[v].sub
  BY DEF ReviewInv, ReviewsHold
<1>2. sub[s].status # "NONE"
  BY <1>1 DEF ReviewInv, SubsHold, Reviewing
<1> QED
  BY <1>1, <1>2 DEF ReviewInv, SubsHold

\* What a step of a review leaves alone.
LEMMA ReviewMoves ==
    ASSUME ReviewInv, NEW v \in Reviews, NEW s \in Subs, sub[s].status # "NONE",
           NEW m \in ReviewJob, review' = [review EXCEPT ![v] = m],
           m.sub = IF m.step = "idle" THEN NoSub ELSE s,
           m.step = "free" => m.places <= mostPlaces[sub[s].task],
           raced \subseteq raced', raced' \subseteq Races, UNCHANGED <<env, hand>>,
           app' \in [Tasks -> [Contributors -> Application]],
           \A t \in Tasks : Filled(t)' = Filled(t),
           sub' \in [Subs -> Submission],
           \A u \in Subs : /\ sub'[u].task = sub[u].task /\ sub'[u].by = sub[u].by
                           /\ sub'[u].status = "NONE" <=> sub[u].status = "NONE",
           payout' \in [Subs -> Nat],
           \A u \in Subs : sub[u].status = "NONE" => payout'[u] = payout[u]
    PROVE  /\ TypeOK' /\ HandsHold' /\ SubsHold' /\ ReviewsHold'
           /\ ApplyHolds' /\ ContributorsWithinPlaces'
<1>1. review'[v] = m /\ \A w \in Reviews : w # v => review'[w] = review[w]
  BY ReviewSlot DEF ReviewInv
<1>2. TypeOK'
  BY ReviewSlot DEF ReviewInv, TypeOK, env
<1>3. \A u \in Tasks : /\ mostPlaces'[u] = mostPlaces[u] /\ mostPlaces[u] \in Nat
                       /\ places'[u] <= mostPlaces'[u]
  BY ReviewFields DEF ReviewInv, ApplyHolds, env
<1>4. HandsHold' /\ ApplyHolds' /\ ContributorsWithinPlaces'
  BY <1>3, HandsFrame, ApplyFrame
<1>5. SubsHold'
  <2>1. \A u \in Subs : sub[u].status = "NONE" => ~Reviewing(u)'
    <3> SUFFICES ASSUME NEW u \in Subs, sub[u].status = "NONE", NEW w \in Reviews,
                        review'[w].sub = u
                 PROVE  FALSE
      BY DEF Reviewing
    <3>1. w # v
      BY <1>1, ReviewAssumption
    <3> QED
      BY <1>1, <3>1 DEF ReviewInv, SubsHold, Reviewing
  <2> QED
    BY <2>1 DEF ReviewInv, SubsHold
<1>6. ReviewsHold'
  <2>1. Reads(v)'
    BY <1>1, <1>3 DEF Reads, ReviewInv, SubsHold
  <2> QED
    BY <1>1, <1>3, <2>1, ReviewsFrame
<1> QED
  BY <1>2, <1>4, <1>5, <1>6

\* What a review that is alone finds.
Judged(v, s) ==
    /\ review[v].step \in {"approve", "reject"} => sub[s].status = "PENDING"
    /\ review[v].step \in {"issued", "free", "credit"} =>
          sub[s].status = "VERIFIED" /\ payout[s] = 0
    /\ review[v].step = "reopen" => sub[s].status = "REJECTED"

\* A step of a review of one submission concerns no other.
LEMMA JudgeMoves ==
    ASSUME ReviewInv, NEW v \in Reviews, NEW s \in Subs, NEW m \in ReviewJob,
           review' = [review EXCEPT ![v] = m], m.sub \in {s, NoSub},
           review[v].sub \in {s, NoSub}, raced \subseteq raced',
           \A u \in Subs : u # s => sub'[u] = sub[u] /\ payout'[u] = payout[u],
           ReviewRace(s) \notin raced' =>
              /\ \A w \in Reviews : w # v => review[w].sub # s
              /\ m.sub = s => Judged(v, s)'
              /\ payout'[s] <= IF sub'[s].status = "VERIFIED" THEN 1 ELSE 0
    PROVE  JudgeHolds' /\ PaidOnceWhenVerified'
<1> SUFFICES ASSUME NEW u \in Subs, ReviewRace(u) \notin raced'
             PROVE  JudgedAlone(u)' /\ payout'[u] <= IF sub'[u].status = "VERIFIED" THEN 1 ELSE 0
  BY DEF JudgeHolds, PaidOnceWhenVerified, ReviewRace
<1>1. review'[v] = m /\ \A w \in Reviews : w # v => review'[w] = review[w]
  BY ReviewSlot DEF ReviewInv
<1>2. CASE u = s
  <2>1. \A w \in Reviews : review'[w].sub = s => w = v
    BY <1>1, <1>2
  <2>2. m.sub = s => Judged(v, s)'
    BY <1>2
  <2>3. JudgedAlone(s)'
    BY <1>1, <2>1, <2>2 DEF JudgedAlone, Judged
  <2> QED
    BY <1>2, <2>3
<1>3. CASE u # s
  <2>1. JudgedAlone(u) /\ payout[u] <= IF sub[u].status = "VERIFIED" THEN 1 ELSE 0
    BY DEF ReviewInv, JudgeHolds, PaidOnceWhenVerified, ReviewRace
  <2>2. \A w \in Reviews : review'[w].sub = u => review'[w] = review[w] /\ review[w].sub = u
    BY <1>1, <1>3, ReviewAssumption
  <2>3. sub'[u] = sub[u] /\ payout'[u] = payout[u]
    BY <1>3
  <2>4. JudgedAlone(u)'
    BY <2>1, <2>2, <2>3 DEF JudgedAlone
  <2> QED
    BY <2>1, <2>3, <2>4
<1> QED
  BY <1>2, <1>3

\* Submissions of a contributor that a step of a review does not open.
LEMMA SubmitKeeps ==
    ASSUME ReviewInv, NEW t \in Tasks, NEW c \in Contributors, SubmitRace(t, c) \notin raced',
           raced \subseteq raced', UNCHANGED <<sub, hand>>,
           \A s \in Subs : ~Reviewing(s) => ~Reviewing(s)',
           app'[t][c] = "COMPLETED" => /\ app[t][c] = "COMPLETED"
                                       /\ \A s \in Of(t, c) : Awaited(s) => Awaited(s)'
    PROVE  SubmitsAlone(t, c)' /\ Completes(t, c)'
<1>1. SubmitsAlone(t, c) /\ Completes(t, c)
  BY DEF ReviewInv, SubmitHolds, SubmitRace
<1>2. Of(t, c)' = Of(t, c) /\ Of(t, c) \subseteq Subs
  BY DEF Of
<1>3. Unraced(t, c)' \subseteq Unraced(t, c)
  BY <1>2 DEF Unraced, ReviewRace
<1>4. \A h \in Hands : Submits(h, t, c)' = Submits(h, t, c)
  BY DEF Submits
<1>5. SubmitsAlone(t, c)'
  BY <1>1, <1>3, <1>4 DEF SubmitsAlone
<1>6. Completes(t, c)'
  BY <1>1, <1>2, <1>4 DEF Completes
<1> QED
  BY <1>5, <1>6

\* A review that begins while no other of its submission is in flight is the only
\* one; no handler still has to complete the application of its submission.
LEMMA ReviewOpens ==
    ASSUME ReviewInv, NEW v \in Reviews, NEW s \in Subs, NEW step \in {"approve", "reject"},
           Open(v, s, step)
    PROVE  ReviewInv'
<1>1. PICK m : m = [step |-> step, sub |-> s, places |-> 0]
  OBVIOUS
<1>2. m \in ReviewJob /\ m.step = step /\ m.sub = s
  BY <1>1, ReviewAssumption DEF ReviewJob, ReviewSteps
<1>3. PICK t \in Tasks, c \in Contributors : t = sub[s].task /\ c = sub[s].by
  BY DEF Open, ReviewInv, SubsHold
<1>4. /\ review' = [review EXCEPT ![v] = m] /\ UNCHANGED <<env, app, sub, payout, hand>>
      /\ review[v].step = "idle" /\ sub[s].status = "PENDING"
      /\ raced' = raced \cup (IF Reviewing(s) THEN {ReviewRace(s)} ELSE {})
                        \cup (IF Submitting(t, c) THEN {SubmitRace(t, c)} ELSE {})
  BY <1>1, <1>3 DEF Open, Race, ReviewRace, SubmitRace
<1>5. raced \subseteq raced' /\ raced' \subseteq Races
  BY <1>4 DEF Races, ReviewInv, TypeOK, ReviewRace, SubmitRace
<1>6. review'[v] = m /\ \A w \in Reviews : w # v => review'[w] = review[w]
  BY <1>2, <1>4, ReviewSlot DEF ReviewInv
<1>7. \A u \in Tasks : /\ Filled(u)' = Filled(u) /\ mostPlaces'[u] = mostPlaces[u]
                       /\ mostPlaces[u] \in Nat
  <2>1. \A u \in Tasks : Filled(u)' = Filled(u)
    BY <1>4 DEF Filled
  <2> QED
    BY <1>4, <2>1, ReviewFields DEF ReviewInv, env
<1>8. /\ TypeOK' /\ HandsHold' /\ SubsHold' /\ ReviewsHold'
      /\ ApplyHolds' /\ ContributorsWithinPlaces'
  <2>1. /\ app' \in [Tasks -> [Contributors -> Application]] /\ sub' \in [Subs -> Submission]
        /\ payout' \in [Subs -> Nat]
    BY <1>4 DEF ReviewInv, TypeOK
  <2> QED
    BY <1>2, <1>4, <1>5, <1>7, <2>1, ReviewMoves
<1>9. PayHolds' /\ PayoutsWithinPlaces'
  BY <1>2, <1>4, <1>5, <1>6, <1>7, PayFrame
<1>10. JudgeHolds' /\ PaidOnceWhenVerified'
  <2>1. review[v].sub = NoSub
    BY <1>4 DEF ReviewInv, ReviewsHold
  <2>2. ASSUME ReviewRace(s) \notin raced'
        PROVE  /\ \A w \in Reviews : w # v => review[w].sub # s
               /\ Judged(v, s)' /\ payout'[s] <= IF sub'[s].status = "VERIFIED" THEN 1 ELSE 0
    <3>1. \A w \in Reviews : review[w].sub # s
      BY <1>4, <2>2 DEF Reviewing
    <3>2. Judged(v, s)'
      BY <1>2, <1>4, <1>6 DEF Judged
    <3>3. payout[s] <= IF sub[s].status = "VERIFIED" THEN 1 ELSE 0
      BY <1>5, <2>2 DEF ReviewInv, PaidOnceWhenVerified, ReviewRace
    <3> QED
      BY <1>4, <3>1, <3>2, <3>3
  <2> QED
    BY <1>2, <1>4, <1>5, <2>1, <2>2, JudgeMoves
<1>11. SubmitHolds'
  <2> SUFFICES ASSUME NEW u \in Tasks, NEW d \in Contributors, SubmitRace(u, d) \notin raced'
               PROVE  SubmitsAlone(u, d)' /\ Completes(u, d)'
    BY DEF SubmitHolds, SubmitRace
  <2>1. SubmitsAlone(u, d) /\ Completes(u, d)
    BY <1>5 DEF ReviewInv, SubmitHolds, SubmitRace
  <2>2. Of(u, d)' = Of(u, d) /\ Of(u, d) \subseteq Subs
    BY <1>4 DEF Of
  <2>3. Unraced(u, d)' \subseteq Unraced(u, d)
    BY <1>5, <2>2 DEF Unraced, ReviewRace
  <2>4. \A h \in Hands : Submits(h, u, d)' = Submits(h, u, d) /\ hand'[h] = hand[h]
    BY <1>4 DEF Submits
  <2>5. SubmitsAlone(u, d)'
    BY <1>4, <2>1, <2>3, <2>4 DEF SubmitsAlone
  <2>6. \A x \in Subs : x # s /\ ~Reviewing(x) => ~Reviewing(x)'
    BY <1>2, <1>6 DEF Reviewing
  <2>7. ASSUME NEW h \in Hands, Submits(h, u, d), hand[h].step = "complete"
        PROVE  \E x \in Of(u, d) : sub[x].status = "PENDING" /\ ~Reviewing(x)'
    <3>1. PICK x \in Of(u, d) : sub[x].status = "PENDING" /\ ~Reviewing(x)
      BY <2>1, <2>7 DEF Completes
    <3>2. x # s
      <4>1. CASE u = t /\ d = c
        BY <1>4, <2>7, <4>1 DEF Submitting, Submits
      <4>2. CASE ~(u = t /\ d = c)
        BY <1>3, <3>1, <4>2 DEF Of
      <4> QED
        BY <4>1, <4>2
    <3> QED
      BY <2>2, <2>6, <3>1, <3>2
  <2>8. \A x \in Subs : Awaited(x) => Awaited(x)'
    BY <1>4, <1>5, <1>6 DEF Awaited
  <2> QED
    BY <1>4, <2>1, <2>2, <2>4, <2>5, <2>7, <2>8 DEF Completes
<1> QED
  BY <1>8, <1>9, <1>10, <1>11 DEF ReviewInv

\* A submission that is verified or rejected is no longer to be judged.
LEMMA SubmissionJudged ==
    ASSUME ReviewInv, NEW v \in Reviews, Approve(v) \/ Reject(v)
    PROVE  ReviewInv'
<1>1. PICK step \in ReviewSteps, status \in {"VERIFIED", "REJECTED"} :
          /\ review[v].step \in {"approve", "reject"}
          /\ sub' = [sub EXCEPT ![review[v].sub].status = status]
          /\ review' = [review EXCEPT ![v].step = step]
          /\ UNCHANGED <<env, app, payout, hand, raced>>
          /\ \/ step = "issued" /\ status = "VERIFIED"
             \/ step = "reopen" /\ status = "REJECTED"
  BY DEF Approve, Reject, GoReview, ReviewSteps
<1>2. PICK s \in Subs, t \in Tasks, c \in Contributors :
          /\ s = review[v].sub /\ sub[s].status # "NONE" /\ t = sub[s].task /\ c = sub[s].by
  BY <1>1, UnderReview
<1>3. PICK m : m = [review[v] EXCEPT !.step = step]
  OBVIOUS
<1>4. m \in ReviewJob /\ m.step = step /\ m.sub = s
  BY <1>2, <1>3, NextStep DEF ReviewInv
<1>5. review' = [review EXCEPT ![v] = m]
  BY <1>1, <1>3
<1>6. review'[v] = m /\ \A w \in Reviews : w # v => review'[w] = review[w]
  BY <1>4, <1>5, ReviewSlot DEF ReviewInv
<1>7. PICK n : n = [sub[s] EXCEPT !.status = status]
  OBVIOUS
<1>8. n \in Submission /\ n.status = status /\ n.task = t /\ n.by = c
  BY <1>2, <1>7, ReviewFields DEF ReviewInv, Submission
<1>9. /\ sub' = [sub EXCEPT ![s] = n] /\ sub' \in [Subs -> Submission] /\ sub'[s] = n
      /\ \A u \in Subs : u # s => sub'[u] = sub[u]
  BY <1>1, <1>2, <1>7, <1>8 DEF ReviewInv, TypeOK
<1>10. \A u \in Subs : /\ sub'[u].task = sub[u].task /\ sub'[u].by = sub[u].by
                       /\ sub'[u].status = "NONE" <=> sub[u].status = "NONE"
  BY <1>1, <1>2, <1>8, <1>9
<1>11. \A u \in Tasks : /\ Filled(u)' = Filled(u) /\ mostPlaces'[u] = mostPlaces[u]
                        /\ mostPlaces[u] \in Nat
  <2>1. \A u \in Tasks : Filled(u)' = Filled(u)
    BY <1>1 DEF Filled
  <2> QED
    BY <1>1, <2>1, ReviewFields DEF ReviewInv, env
<1>12. /\ TypeOK' /\ HandsHold' /\ SubsHold' /\ ReviewsHold'
       /\ ApplyHolds' /\ ContributorsWithinPlaces'
  <2>1. /\ app' \in [Tasks -> [Contributors -> Application]] /\ payout' \in [Subs -> Nat]
        /\ raced \subseteq raced' /\ raced' \subseteq Races
        /\ UNCHANGED <<env, hand>> /\ UNCHANGED payout
    BY <1>1 DEF ReviewInv, TypeOK
  <2>2. /\ sub[s].status # "NONE" /\ m.step # "free"
        /\ m.sub = IF m.step = "idle" THEN NoSub ELSE s
    BY <1>1, <1>2, <1>4
  <2>3. \A u \in Subs : sub[u].status = "NONE" => payout'[u] = payout[u]
    BY <2>1
  <2>4. \A u \in Tasks : Filled(u)' = Filled(u)
    BY <1>11
  <2> QED
    BY ONLY ReviewInv, v \in Reviews, s \in Subs, <1>4, <1>5, <1>9, <1>10, <2>1, <2>2, <2>3,
            <2>4, ReviewMoves
<1>13. PayHolds' /\ PayoutsWithinPlaces'
  BY <1>1, <1>4, <1>6, <1>10, <1>11, PayFrame
<1>14. ReviewRace(s) \notin raced => sub[s].status = "PENDING"
  BY <1>1, <1>2 DEF ReviewInv, JudgeHolds, JudgedAlone
<1>15. JudgeHolds' /\ PaidOnceWhenVerified'
  <2>1. ASSUME ReviewRace(s) \notin raced'
        PROVE  /\ \A w \in Reviews : w # v => review[w].sub # s
               /\ Judged(v, s)' /\ payout'[s] <= IF sub'[s].status = "VERIFIED" THEN 1 ELSE 0
    <3>1. \A w \in Reviews : w # v => review[w].sub # s
      BY <1>1, <1>2, <2>1 DEF ReviewInv, JudgeHolds, JudgedAlone
    <3>2. payout[s] = 0
      <4>1. payout[s] <= 0
        BY <1>1, <1>14, <2>1 DEF ReviewInv, PaidOnceWhenVerified, ReviewRace
      <4> QED
        BY <4>1, ReviewFields DEF ReviewInv
    <3>3. Judged(v, s)'
      BY <1>1, <1>4, <1>6, <1>8, <1>9, <3>2 DEF Judged
    <3> QED
      BY <1>1, <3>1, <3>2, <3>3
  <2>2. review[v].sub \in {s, NoSub} /\ m.sub \in {s, NoSub} /\ raced \subseteq raced'
    BY <1>1, <1>2, <1>4
  <2>3. \A u \in Subs : u # s => sub'[u] = sub[u] /\ payout'[u] = payout[u]
    BY <1>1, <1>9
  <2> QED
    BY <1>4, <1>5, <2>1, <2>2, <2>3, JudgeMoves
<1>16. SubmitHolds'
  <2> SUFFICES ASSUME NEW u \in Tasks, NEW d \in Contributors, SubmitRace(u, d) \notin raced
               PROVE  SubmitsAlone(u, d)' /\ Completes(u, d)'
    BY <1>1 DEF SubmitHolds, SubmitRace
  <2>1. SubmitsAlone(u, d) /\ Completes(u, d)
    BY DEF ReviewInv, SubmitHolds, SubmitRace
  <2>2. Of(u, d)' = Of(u, d) /\ Of(u, d) \subseteq Subs
    BY <1>10 DEF Of
  <2>3. Unraced(u, d)' = Unraced(u, d) /\ Unraced(u, d) \subseteq Subs
    BY <1>1, <2>2 DEF Unraced
  <2>4. \A h \in Hands : Submits(h, u, d)' = Submits(h, u, d) /\ hand'[h] = hand[h]
    BY <1>1 DEF Submits
  <2>5. \A x \in Unraced(u, d) : sub[x].status = "REJECTED" => sub'[x].status = "REJECTED"
    BY <1>9, <1>14, <2>3 DEF Unraced
  <2>6. SubmitsAlone(u, d)'
    BY <2>1, <2>3, <2>4, <2>5 DEF SubmitsAlone
  <2>7. \A x \in Subs : Reviewing(x)' = Reviewing(x)
    <3>1. \A w \in Reviews : review'[w].sub = review[w].sub
      BY <1>2, <1>4, <1>6
    <3> QED
      BY <3>1 DEF Reviewing
  <2>8. Reviewing(s)
    BY <1>2 DEF Reviewing
  <2>9. \A h \in Hands : Submits(h, u, d)' /\ hand'[h].step = "complete" =>
            \E x \in Of(u, d)' : sub'[x].status = "PENDING" /\ ~Reviewing(x)'
    BY <1>9, <2>1, <2>2, <2>4, <2>7, <2>8 DEF Completes
  <2>10. \A x \in Subs : Awaited(x) => Awaited(x)'
    <3> SUFFICES ASSUME NEW x \in Subs, Awaited(x) PROVE Awaited(x)'
      OBVIOUS
    <3>1. CASE x = s
      BY <1>1, <1>4, <1>6, <1>8, <1>9, <3>1 DEF Awaited
    <3>2. CASE x # s
      BY <1>1, <1>2, <1>6, <1>9, <3>2 DEF Awaited
    <3> QED
      BY <3>1, <3>2
  <2> QED
    BY <1>1, <2>1, <2>2, <2>6, <2>9, <2>10 DEF Completes
<1> QED
  BY <1>12, <1>13, <1>15, <1>16 DEF ReviewInv

\* A review that ends, and records its death between a rejection and the reopening of
\* the application, leaves everything as it is.
LEMMA ReviewEnds ==
    ASSUME ReviewInv, NEW v \in Reviews, review[v].step # "idle",
           review' = [review EXCEPT ![v] = IdleReview],
           UNCHANGED <<env, app, sub, payout, hand>>,
           raced \subseteq raced', raced' \subseteq Races,
           review[v].step = "reopen" => [what |-> "death", sub |-> review[v].sub] \in raced'
    PROVE  ReviewInv'
<1>1. PICK s \in Subs : s = review[v].sub /\ sub[s].status # "NONE"
  BY UnderReview
<1>2. review'[v] = IdleReview /\ \A w \in Reviews : w # v => review'[w] = review[w]
  BY IdleHolds, ReviewSlot DEF ReviewInv
<1>3. \A u \in Tasks : /\ Filled(u)' = Filled(u) /\ mostPlaces'[u] = mostPlaces[u]
                       /\ mostPlaces[u] \in Nat
  <2>1. \A u \in Tasks : Filled(u)' = Filled(u)
    BY DEF Filled
  <2> QED
    BY <2>1, ReviewFields DEF ReviewInv, env
<1>4. /\ TypeOK' /\ HandsHold' /\ SubsHold' /\ ReviewsHold'
      /\ ApplyHolds' /\ ContributorsWithinPlaces'
  <2>1. /\ app' \in [Tasks -> [Contributors -> Application]] /\ sub' \in [Subs -> Submission]
        /\ payout' \in [Subs -> Nat]
    BY DEF ReviewInv, TypeOK
  <2> QED
    BY <1>1, <1>3, <2>1, IdleHolds, ReviewMoves
<1>5. JudgeHolds' /\ PaidOnceWhenVerified' /\ PayHolds' /\ PayoutsWithinPlaces'
  BY <1>2, <1>3, IdleHolds, JudgeFrame, PayFrame
<1>6. SubmitHolds'
  <2>1. \A x \in Subs : ~Reviewing(x) => ~Reviewing(x)'
    BY <1>2, IdleHolds, ReviewAssumption DEF Reviewing
  <2>2. \A x \in Subs : Awaited(x) => Awaited(x)'
    BY <1>2 DEF Awaited
  <2>3. \A t \in Tasks, c \in Contributors : Of(t, c) \subseteq Subs /\ app'[t][c] = app[t][c]
    BY DEF Of
  <2> QED
    BY <2>1, <2>2, <2>3, SubmitKeeps DEF SubmitHolds, SubmitRace
<1> QED
  BY <1>4, <1>5, <1>6 DEF ReviewInv

\* What a step of a payout leaves alone, and what it has to show of the payouts.
LEMMA PayoutMoves ==
    ASSUME ReviewInv, NEW v \in Reviews, NEW s \in Subs, NEW m \in ReviewJob,
           s = review[v].sub, review[v].step \in {"issued", "free", "credit"},
           review' = [review EXCEPT ![v] = m], m.step \notin {"approve", "reject", "reopen"},
           m.sub = IF m.step = "idle" THEN NoSub ELSE s,
           m.step = "free" => m.places <= mostPlaces[sub[s].task],
           raced \subseteq raced', raced' \subseteq Races, UNCHANGED <<env, app, sub, hand>>,
           NEW p \in Nat, payout' = [payout EXCEPT ![s] = p],
           p = payout[s] \/ (p = payout[s] + 1 /\ m.step = "idle" /\ review[v].step = "credit")
    PROVE  /\ TypeOK' /\ HandsHold' /\ SubsHold' /\ ReviewsHold'
           /\ ApplyHolds' /\ ContributorsWithinPlaces'
           /\ JudgeHolds' /\ PaidOnceWhenVerified' /\ SubmitHolds'
<1>1. sub[s].status # "NONE"
  BY UnderReview
<1>2. review'[v] = m /\ \A w \in Reviews : w # v => review'[w] = review[w]
  BY ReviewSlot DEF ReviewInv
<1>3. /\ payout' \in [Subs -> Nat] /\ payout'[s] = p /\ payout[s] \in Nat
      /\ \A u \in Subs : u # s => payout'[u] = payout[u]
  BY DEF ReviewInv, TypeOK
<1>4. \A u \in Tasks : Filled(u)' = Filled(u)
  BY DEF Filled
<1>5. /\ TypeOK' /\ HandsHold' /\ SubsHold' /\ ReviewsHold'
      /\ ApplyHolds' /\ ContributorsWithinPlaces'
  <2>1. /\ app' \in [Tasks -> [Contributors -> Application]] /\ sub' \in [Subs -> Submission]
        /\ UNCHANGED <<env, hand>>
    BY DEF ReviewInv, TypeOK
  <2>2. \A u \in Subs : sub[u].status = "NONE" => payout'[u] = payout[u]
    BY <1>1, <1>3
  <2>3. \A u \in Subs : /\ sub'[u].task = sub[u].task /\ sub'[u].by = sub[u].by
                        /\ sub'[u].status = "NONE" <=> sub[u].status = "NONE"
    OBVIOUS
  <2> QED
    BY <1>1, <1>3, <1>4, <2>1, <2>2, <2>3, ReviewMoves
<1>6. JudgeHolds' /\ PaidOnceWhenVerified'
  <2>1. ASSUME ReviewRace(s) \notin raced'
        PROVE  /\ \A w \in Reviews : w # v => review[w].sub # s
               /\ m.sub = s => Judged(v, s)'
               /\ payout'[s] <= IF sub'[s].status = "VERIFIED" THEN 1 ELSE 0
    <3>1. JudgedAlone(s) /\ payout[s] <= IF sub[s].status = "VERIFIED" THEN 1 ELSE 0
      BY <2>1 DEF ReviewInv, JudgeHolds, PaidOnceWhenVerified, ReviewRace
    <3>2. sub[s].status = "VERIFIED" /\ payout[s] = 0
      BY <3>1 DEF JudgedAlone
    <3>3. payout'[s] <= IF sub'[s].status = "VERIFIED" THEN 1 ELSE 0
      BY <1>3, <3>2
    <3>4. m.sub = s => Judged(v, s)'
      <4>1. m.sub = s => m.step # "idle"
        BY ReviewAssumption
      <4>2. m.step # "idle" => p = payout[s]
        OBVIOUS
      <4> QED
        BY <1>2, <1>3, <3>2, <4>1, <4>2 DEF Judged
    <3>5. \A w \in Reviews : w # v => review[w].sub # s
      BY <3>1 DEF JudgedAlone
    <3> QED
      BY <3>3, <3>4, <3>5
  <2>2. \A u \in Subs : u # s => sub'[u] = sub[u] /\ payout'[u] = payout[u]
    BY <1>3
  <2>3. m.sub \in {s, NoSub} /\ review[v].sub \in {s, NoSub}
    OBVIOUS
  <2> QED
    BY <2>1, <2>2, <2>3, JudgeMoves
<1>7. SubmitHolds'
  <2>1. \A w \in Reviews : /\ review'[w].sub \in {review[w].sub, NoSub}
                           /\ review[w].step = "reopen" => review'[w] = review[w]
    BY <1>2
  <2> QED
    BY <2>1, SubmitFrame
<1> QED
  BY <1>5, <1>6, <1>7

\* A submission that was not paid is going to be; without overlap it is the only one
\* of its campaign.
LEMMA PayoutFound ==
    ASSUME ReviewInv, NEW v \in Reviews, FindPayout(v)
    PROVE  ReviewInv'
<1>1. PICK s \in Subs, t \in Tasks : s = review[v].sub /\ t = sub[s].task
  BY UnderReview DEF FindPayout
<1>2. review[v].step = "issued" /\ UNCHANGED <<env, app, sub, payout, hand>>
  BY DEF FindPayout
<1>3. CASE payout[s] > 0
  <2>1. review' = [review EXCEPT ![v] = IdleReview] /\ raced' = raced
    BY <1>1, <1>3 DEF FindPayout, LeaveReview
  <2> QED
    BY <1>2, <2>1, ReviewEnds DEF ReviewInv, TypeOK
<1>4. CASE ~(payout[s] > 0)
  <2>1. PICK m : m = [review[v] EXCEPT !.step = "free", !.places = places[t]]
    OBVIOUS
  <2>2. /\ m \in ReviewJob /\ m.step = "free" /\ m.sub = s /\ m.places = places[t]
    <3>1. PICK r \in ReviewJob : r = review[v]
      BY ReviewFields DEF ReviewInv
    <3>2. PICK k \in 0 .. MaxPlaces : k = places[t]
      BY ReviewAssumption DEF ReviewInv, TypeOK
    <3>3. m = [r EXCEPT !.step = "free", !.places = k]
      BY <2>1, <3>1, <3>2
    <3> QED
      BY <1>1, <3>1, <3>2, <3>3 DEF ReviewJob, ReviewSteps
  <2>3. /\ review' = [review EXCEPT ![v] = m]
        /\ raced' = raced \cup (IF Paying(t) THEN {[what |-> "payout", task |-> t]} ELSE {})
    BY <1>1, <1>4, <2>1 DEF FindPayout, Note, Race
  <2>4. raced \subseteq raced' /\ raced' \subseteq Races
    BY <2>3 DEF Races, ReviewInv, TypeOK
  <2>5. payout[s] = 0 /\ payout' = [payout EXCEPT ![s] = 0]
    BY <1>2, <1>4, ReviewFields DEF ReviewInv, TypeOK
  <2>6. places[t] <= mostPlaces[t]
    BY DEF ReviewInv, ApplyHolds
  <2>7. /\ TypeOK' /\ HandsHold' /\ SubsHold' /\ ReviewsHold'
        /\ ApplyHolds' /\ ContributorsWithinPlaces'
        /\ JudgeHolds' /\ PaidOnceWhenVerified' /\ SubmitHolds'
    <3>1. /\ s = review[v].sub /\ review[v].step \in {"issued", "free", "credit"}
          /\ m.step \notin {"approve", "reject", "reopen"}
          /\ m.sub = IF m.step = "idle" THEN NoSub ELSE s
          /\ m.places <= mostPlaces[sub[s].task] /\ 0 \in Nat /\ 0 = payout[s]
          /\ UNCHANGED <<env, app, sub, hand>>
      BY <1>1, <1>2, <2>2, <2>5, <2>6
    <3> QED
      BY ONLY ReviewInv, v \in Reviews, s \in Subs, <2>2, <2>3, <2>4, <2>5, <3>1, PayoutMoves
  <2>8. review'[v] = m /\ \A w \in Reviews : w # v => review'[w] = review[w]
    BY <2>2, <2>3, ReviewSlot DEF ReviewInv
  <2>9. PayHolds' /\ PayoutsWithinPlaces'
    <3> SUFFICES ASSUME NEW u \in Tasks
                 PROVE  /\ IsFiniteSet(Paid(u)')
                        /\ [what |-> "payout", task |-> u] \notin raced' =>
                              PaysAlone(u)' /\ Cardinality(Paid(u)') <= mostPlaces'[u]
      BY DEF PayHolds, PayoutsWithinPlaces
    <3>1. Paid(u)' = Paid(u) /\ mostPlaces'[u] = mostPlaces[u]
      BY <1>2 DEF Paid, env
    <3>2. ASSUME [what |-> "payout", task |-> u] \notin raced'
          PROVE  PaysAlone(u)' /\ Cardinality(Paid(u)') <= mostPlaces'[u]
      <4>1. PaysAlone(u) /\ Cardinality(Paid(u)) <= mostPlaces[u]
        BY <2>4, <3>2 DEF ReviewInv, PayHolds, PayoutsWithinPlaces
      <4>2. \A w \in Reviews : w # v => Pays(w, u)' = Pays(w, u)
        BY <1>2, <2>8 DEF Pays
      <4>3. Pays(v, u)' <=> u = t
        BY <1>1, <1>2, <2>2, <2>8 DEF Pays
      <4>4. u = t => \A w \in Reviews : ~Pays(w, u)
        BY <2>3, <3>2 DEF Paying, Pays
      <4>5. review'[v].step = "free"
        BY <2>2, <2>8
      <4>6. PaysAlone(u)'
        BY <2>8, <3>1, <4>1, <4>2, <4>3, <4>4, <4>5 DEF PaysAlone
      <4> QED
        BY <3>1, <4>1, <4>6
    <3> QED
      BY <3>1, <3>2 DEF ReviewInv, PayHolds
  <2> QED
    BY <2>7, <2>9 DEF ReviewInv
<1> QED
  BY <1>3, <1>4

\* A payout that is going to be credited has a place left, unless it is not alone.
LEMMA PayoutsCounted ==
    ASSUME ReviewInv, NEW v \in Reviews, CountPayouts(v)
    PROVE  ReviewInv'
<1>1. PICK s \in Subs, t \in Tasks : s = review[v].sub /\ t = sub[s].task
  BY UnderReview DEF CountPayouts
<1>2. /\ review[v].step = "free" /\ UNCHANGED <<env, app, sub, payout, hand, raced>>
      /\ Cardinality(Paid(t)) < review[v].places
  BY <1>1 DEF CountPayouts
<1>3. PICK m : m = [review[v] EXCEPT !.step = "credit", !.places = 0]
  OBVIOUS
<1>4. m \in ReviewJob /\ m.step = "credit" /\ m.sub = s
  <2>1. PICK r \in ReviewJob : r = review[v]
    BY ReviewFields DEF ReviewInv
  <2>2. 0 \in 0 .. MaxPlaces /\ m = [r EXCEPT !.step = "credit", !.places = 0]
    BY <1>3, <2>1, ReviewAssumption
  <2> QED
    BY <1>1, <2>1, <2>2 DEF ReviewJob, ReviewSteps
<1>5. review' = [review EXCEPT ![v] = m]
  BY <1>3 DEF CountPayouts
<1>6. review'[v] = m /\ \A w \in Reviews : w # v => review'[w] = review[w]
  BY <1>4, <1>5, ReviewSlot DEF ReviewInv
<1>7. review[v].places <= mostPlaces[t]
  BY <1>1, <1>2 DEF ReviewInv, ReviewsHold
<1>8. Pays(v, t)
  BY <1>1, <1>2 DEF Pays
<1>9. \A u \in Tasks : /\ Paid(u)' = Paid(u) /\ mostPlaces'[u] = mostPlaces[u]
                       /\ IsFiniteSet(Paid(u)) /\ mostPlaces[u] \in Nat
                       /\ Cardinality(Paid(u)) \in Nat
  <2>1. \A u \in Tasks : Paid(u)' = Paid(u) /\ IsFiniteSet(Paid(u))
    BY <1>2 DEF Paid, ReviewInv, PayHolds
  <2> QED
    BY <1>2, <2>1, ReviewFields, FS_CardinalityType DEF ReviewInv, env
<1>10. review[v].places \in Nat
  BY ReviewFields, ReviewAssumption DEF ReviewInv
<1>11. PayHolds' /\ PayoutsWithinPlaces'
  <2> SUFFICES ASSUME NEW u \in Tasks, [what |-> "payout", task |-> u] \notin raced
               PROVE  PaysAlone(u)' /\ Cardinality(Paid(u)') <= mostPlaces'[u]
    BY <1>2, <1>9 DEF PayHolds, PayoutsWithinPlaces
  <2>1. PaysAlone(u) /\ Cardinality(Paid(u)) <= mostPlaces[u]
    BY DEF ReviewInv, PayHolds, PayoutsWithinPlaces
  <2>2. \A w \in Reviews : w # v => Pays(w, u)' = Pays(w, u)
    BY <1>2, <1>6 DEF Pays
  <2>3. Pays(v, u)' = Pays(v, u)
    BY <1>1, <1>2, <1>4, <1>6 DEF Pays
  <2>4. Pays(v, u) => Cardinality(Paid(u)) < mostPlaces[u]
    BY <1>1, <1>2, <1>7, <1>9, <1>10 DEF Pays
  <2>5. PaysAlone(u)'
    BY <1>6, <1>9, <2>1, <2>2, <2>3, <2>4 DEF PaysAlone
  <2> QED
    BY <1>9, <2>1, <2>5
<1>12. PICK p \in Nat : p = payout[s] /\ payout' = [payout EXCEPT ![s] = p]
  BY <1>2 DEF ReviewInv, TypeOK
<1>13. /\ TypeOK' /\ HandsHold' /\ SubsHold' /\ ReviewsHold'
       /\ ApplyHolds' /\ ContributorsWithinPlaces'
       /\ JudgeHolds' /\ PaidOnceWhenVerified' /\ SubmitHolds'
  <2>1. /\ review[v].step \in {"issued", "free", "credit"}
        /\ m.step \notin {"approve", "reject", "reopen", "free"}
        /\ m.sub = IF m.step = "idle" THEN NoSub ELSE s
        /\ raced \subseteq raced' /\ raced' \subseteq Races /\ UNCHANGED <<env, app, sub, hand>>
    BY <1>2, <1>4 DEF ReviewInv, TypeOK
  <2> QED
    BY ONLY ReviewInv, v \in Reviews, <1>1, <1>4, <1>5, <1>12, <2>1, PayoutMoves
<1> QED
  BY <1>11, <1>13 DEF ReviewInv

\* Without overlap a payout is the first of its submission and takes a place that was
\* left.
LEMMA PayoutCredited ==
    ASSUME ReviewInv, NEW v \in Reviews, Credit(v)
    PROVE  ReviewInv'
<1>1. PICK s \in Subs, t \in Tasks : s = review[v].sub /\ t = sub[s].task
  BY UnderReview DEF Credit
<1>2. review[v].step = "credit" /\ UNCHANGED <<env, app, sub, hand, raced>>
  BY DEF Credit
<1>3. review' = [review EXCEPT ![v] = IdleReview]
  BY DEF Credit, LeaveReview
<1>4. review'[v] = IdleReview /\ \A w \in Reviews : w # v => review'[w] = review[w]
  BY <1>3, IdleHolds, ReviewSlot DEF ReviewInv
<1>5. PICK p \in Nat : /\ payout[s] \in Nat /\ p = payout[s] + 1
                       /\ payout' = [payout EXCEPT ![s] = p]
  <2>1. payout[s] \in Nat
    BY ReviewFields DEF ReviewInv
  <2>2. payout' = [payout EXCEPT ![s] = payout[s] + 1]
    BY <1>1 DEF Credit
  <2>3. PICK p : p = payout[s] + 1
    OBVIOUS
  <2>4. p \in Nat /\ payout' = [payout EXCEPT ![s] = p]
    BY <2>1, <2>2, <2>3
  <2> QED
    BY <2>1, <2>3, <2>4
<1>6. payout'[s] = p /\ \A u \in Subs : u # s => payout'[u] = payout[u]
  BY <1>5 DEF ReviewInv, TypeOK
<1>7. /\ TypeOK' /\ HandsHold' /\ SubsHold' /\ ReviewsHold'
      /\ ApplyHolds' /\ ContributorsWithinPlaces'
      /\ JudgeHolds' /\ PaidOnceWhenVerified' /\ SubmitHolds'
  <2>1. /\ review[v].step \in {"issued", "free", "credit"}
        /\ IdleReview.step \notin {"approve", "reject", "reopen", "free"}
        /\ IdleReview.sub = IF IdleReview.step = "idle" THEN NoSub ELSE s
        /\ raced \subseteq raced' /\ raced' \subseteq Races /\ UNCHANGED <<env, app, sub, hand>>
        /\ p = payout[s] + 1 /\ IdleReview.step = "idle" /\ IdleReview \in ReviewJob
    BY <1>2, <1>5, IdleHolds DEF ReviewInv, TypeOK
  <2> QED
    BY ONLY ReviewInv, v \in Reviews, <1>1, <1>2, <1>3, <1>5, <2>1, PayoutMoves
<1>8. \A u \in Tasks : /\ Paid(u) \subseteq Paid(u)' /\ Paid(u)' \subseteq Paid(u) \cup {s}
                       /\ u # t => Paid(u)' = Paid(u)
  BY <1>1, <1>2, <1>5, <1>6 DEF Paid
<1>9. PayHolds' /\ PayoutsWithinPlaces'
  <2> SUFFICES ASSUME NEW u \in Tasks
               PROVE  /\ IsFiniteSet(Paid(u)')
                      /\ [what |-> "payout", task |-> u] \notin raced =>
                            PaysAlone(u)' /\ Cardinality(Paid(u)') <= mostPlaces'[u]
    BY <1>2 DEF PayHolds, PayoutsWithinPlaces
  <2>1. /\ IsFiniteSet(Paid(u)') /\ Cardinality(Paid(u)') <= Cardinality(Paid(u)) + 1
        /\ Cardinality(Paid(u)) \in Nat /\ Cardinality(Paid(u)') \in Nat
    BY <1>8, OneMore DEF ReviewInv, PayHolds
  <2>2. mostPlaces'[u] = mostPlaces[u] /\ mostPlaces[u] \in Nat
    BY <1>2, ReviewFields DEF ReviewInv, env
  <2>3. ASSUME [what |-> "payout", task |-> u] \notin raced
        PROVE  PaysAlone(u)' /\ Cardinality(Paid(u)') <= mostPlaces'[u]
    <3>1. PaysAlone(u) /\ Cardinality(Paid(u)) <= mostPlaces[u]
      BY <2>3 DEF ReviewInv, PayHolds, PayoutsWithinPlaces
    <3>2. \A w \in Reviews : Pays(w, u)' => w # v /\ Pays(w, u) /\ review'[w] = review[w]
      BY <1>2, <1>4, IdleHolds DEF Pays
    <3>3. CASE u = t
      <4>1. Pays(v, u)
        BY <1>1, <1>2, <3>3 DEF Pays
      <4>2. Cardinality(Paid(u)) < mostPlaces[u]
        BY <1>2, <3>1, <4>1 DEF PaysAlone
      <4>3. \A w \in Reviews : ~Pays(w, u)'
        BY <3>1, <3>2, <4>1 DEF PaysAlone
      <4> QED
        BY <2>1, <2>2, <4>2, <4>3 DEF PaysAlone
    <3>4. CASE u # t
      <4>1. Paid(u)' = Paid(u)
        BY <1>8, <3>4
      <4>2. PaysAlone(u)'
        BY <2>2, <3>1, <3>2, <4>1 DEF PaysAlone
      <4> QED
        BY <2>2, <3>1, <4>1, <4>2
    <3> QED
      BY <3>3, <3>4
  <2> QED
    BY <2>1, <2>3
<1> QED
  BY <1>7, <1>9 DEF ReviewInv

\* The application is approved again: its contributor had a place all along.
LEMMA ApplicationReopened ==
    ASSUME ReviewInv, NEW v \in Reviews, Reopen(v)
    PROVE  ReviewInv'
<1>1. PICK s \in Subs, t \in Tasks, c \in Contributors :
          /\ s = review[v].sub /\ sub[s].status # "NONE" /\ t = sub[s].task /\ c = sub[s].by
          /\ c \in Filled(t)
  BY UnderReview DEF Reopen
<1>2. /\ review[v].step = "reopen" /\ UNCHANGED <<env, sub, payout, hand, raced>>
      /\ review' = [review EXCEPT ![v] = IdleReview]
      /\ app' = [app EXCEPT ![t][c] = "APPROVED"]
  BY <1>1 DEF Reopen, LeaveReview
<1>3. review'[v] = IdleReview /\ \A w \in Reviews : w # v => review'[w] = review[w]
  BY <1>2, IdleHolds, ReviewSlot DEF ReviewInv
<1>4. \A u \in Tasks, d \in Contributors :
          app'[u][d] = IF u = t /\ d = c THEN "APPROVED" ELSE app[u][d]
  BY <1>2 DEF ReviewInv, TypeOK
<1>5. \A u \in Tasks : /\ Filled(u)' = Filled(u) /\ mostPlaces'[u] = mostPlaces[u]
                       /\ mostPlaces[u] \in Nat
  <2>1. \A u \in Tasks : Filled(u)' = Filled(u)
    BY <1>1, <1>4 DEF Filled
  <2> QED
    BY <1>2, <2>1, ReviewFields DEF ReviewInv, env
<1>6. /\ TypeOK' /\ HandsHold' /\ SubsHold' /\ ReviewsHold'
      /\ ApplyHolds' /\ ContributorsWithinPlaces'
  <2>1. app' \in [Tasks -> [Contributors -> Application]]
    BY <1>2 DEF ReviewInv, TypeOK, Application
  <2>2. /\ sub' \in [Subs -> Submission] /\ payout' \in [Subs -> Nat]
        /\ raced \subseteq raced' /\ raced' \subseteq Races /\ UNCHANGED <<env, hand>>
        /\ UNCHANGED <<sub, payout>>
    BY <1>2 DEF ReviewInv, TypeOK
  <2> QED
    BY <1>1, <1>2, <1>5, <2>1, <2>2, IdleHolds, ReviewMoves
<1>7. JudgeHolds' /\ PaidOnceWhenVerified' /\ PayHolds' /\ PayoutsWithinPlaces'
  BY <1>2, <1>3, <1>5, IdleHolds, JudgeFrame, PayFrame
<1>8. SubmitHolds'
  <2> SUFFICES ASSUME NEW u \in Tasks, NEW d \in Contributors, SubmitRace(u, d) \notin raced'
               PROVE  SubmitsAlone(u, d)' /\ Completes(u, d)'
    BY DEF SubmitHolds, SubmitRace
  <2>1. \A x \in Subs : ~Reviewing(x) => ~Reviewing(x)'
    BY <1>3, IdleHolds, ReviewAssumption DEF Reviewing
  <2>2. app'[u][d] = "COMPLETED" => /\ app[u][d] = "COMPLETED"
                                    /\ \A x \in Of(u, d) : Awaited(x) => Awaited(x)'
    <3> SUFFICES ASSUME app'[u][d] = "COMPLETED", NEW x \in Of(u, d), Awaited(x)
                 PROVE  app[u][d] = "COMPLETED" /\ Awaited(x)'
      BY <1>4
    <3>1. ~(u = t /\ d = c) /\ app[u][d] = "COMPLETED"
      BY <1>4
    <3>2. x # s
      BY <1>1, <3>1 DEF Of
    <3>3. Awaited(x)'
      BY <1>1, <1>2, <1>3, <3>2 DEF Awaited
    <3> QED
      BY <3>1, <3>3
  <2> QED
    BY <1>2, <2>1, <2>2, SubmitKeeps
<1> QED
  BY <1>6, <1>7, <1>8 DEF ReviewInv

\* A review that is dropped between a rejection and the reopening of the application is
\* recorded.
LEMMA ReviewDrops ==
    ASSUME ReviewInv, NEW v \in Reviews, DropReview(v)
    PROVE  ReviewInv'
<1>1. PICK s \in Subs : s = review[v].sub
  BY UnderReview DEF DropReview
<1>2. /\ review[v].step # "idle" /\ review' = [review EXCEPT ![v] = IdleReview]
      /\ UNCHANGED <<env, app, sub, payout, hand>>
      /\ raced' = raced \cup (IF review[v].step = "reopen" THEN {[what |-> "death", sub |-> s]}
                              ELSE {})
  BY <1>1 DEF DropReview, LeaveReview, Note, Race
<1>3. raced \subseteq raced' /\ raced' \subseteq Races
  BY <1>2 DEF Races, ReviewInv, TypeOK
<1> QED
  BY <1>1, <1>2, <1>3, ReviewEnds

-----------------------------------------------------------------------------
(* The theorems                                                             *)

\* Nobody works at first.
LEMMA ReviewInvInit == ASSUME Init PROVE ReviewInv
<1> USE DEF Init
<1>1. 1 .. MaxPlaces \subseteq Nat /\ \A n \in 1 .. MaxPlaces : n > 0
  BY ReviewAssumption
<1>2. TypeOK
  BY IdleHolds DEF TypeOK, Application, Submission, Races
<1>3. \A h \in Hands : hand[h].step = "idle"
  BY IdleHolds
<1>4. \A v \in Reviews : review[v].step = "idle" /\ review[v].sub = NoSub
  BY IdleHolds
<1>5. \A t \in Tasks : Filled(t) = {} /\ Paid(t) = {}
  BY DEF Filled, Paid
<1>6. \A s \in Subs : sub[s].status = "NONE" /\ sub[s].task = NoTask /\ payout[s] = 0
  OBVIOUS
<1>7. \A s \in Subs : ~Reviewing(s)
  BY <1>4, ReviewAssumption DEF Reviewing
<1>8. \A t \in Tasks : mostPlaces[t] = places[t] /\ places[t] \in Nat
  BY <1>1
<1>9. HandsHold /\ SubsHold /\ ReviewsHold
  BY <1>3, <1>4, <1>6, <1>7 DEF HandsHold, SubsHold, ReviewsHold
<1>10. ApplyHolds /\ ContributorsWithinPlaces
  <2>1. \A t \in Tasks : /\ places[t] <= mostPlaces[t] /\ IsFiniteSet(Filled(t))
                         /\ Cardinality(Filled(t)) <= mostPlaces[t]
    BY ONLY <1>5, <1>8, FS_EmptySet
  <2> QED
    BY ONLY <1>3, <2>1 DEF ApplyHolds, AppliesAlone, ContributorsWithinPlaces
<1>11. JudgeHolds /\ PaidOnceWhenVerified
  BY <1>6, <1>7 DEF JudgeHolds, JudgedAlone, Reviewing, PaidOnceWhenVerified
<1>12. PayHolds /\ PayoutsWithinPlaces
  <2>1. \A t \in Tasks : IsFiniteSet(Paid(t)) /\ Cardinality(Paid(t)) <= mostPlaces[t]
    BY ONLY <1>5, <1>8, FS_EmptySet
  <2> QED
    BY ONLY <1>4, <2>1 DEF PayHolds, PaysAlone, Pays, PayoutsWithinPlaces
<1>13. SubmitHolds
  <2>1. \A t \in Tasks, c \in Contributors : Of(t, c) = {} /\ app[t][c] = "NONE"
    BY <1>6 DEF Of
  <2> QED
    BY <1>3, <2>1 DEF SubmitHolds, SubmitsAlone, Completes, Submits, Unraced
<1> QED
  BY <1>2, <1>9, <1>10, <1>11, <1>12, <1>13 DEF ReviewInv

\* No step of any handler breaks the invariant.
LEMMA ReviewStep == ASSUME ReviewInv, [Next]_vars PROVE ReviewInv'
<1>1. CASE UNCHANGED vars
  <2>1. UNCHANGED <<live, places, mostPlaces, app, sub, payout, hand, review, raced>>
    BY <1>1 DEF vars, env
  <2>2. TypeOK'
    BY <2>1 DEF ReviewInv, TypeOK
  <2>3. \A t \in Tasks : /\ Filled(t)' = Filled(t) /\ mostPlaces'[t] = mostPlaces[t]
                         /\ mostPlaces[t] \in Nat /\ places'[t] <= mostPlaces'[t]
    <3>1. \A t \in Tasks : Filled(t)' = Filled(t)
      BY <2>1 DEF Filled
    <3> QED
      BY <2>1, <3>1, ReviewFields DEF ReviewInv, ApplyHolds
  <2>4. HandsHold' /\ SubsHold' /\ ReviewsHold' /\ ApplyHolds' /\ ContributorsWithinPlaces'
    BY <2>1, <2>3, HandsFrame, SubsFrame, ReviewsFrame, ApplyFrame
  <2>5. JudgeHolds' /\ PaidOnceWhenVerified' /\ PayHolds' /\ PayoutsWithinPlaces' /\ SubmitHolds'
    BY <2>1, <2>3, JudgeFrame, PayFrame, SubmitFrame
  <2> QED
    BY <2>2, <2>4, <2>5 DEF ReviewInv
<1>2. CASE Campaign
  BY <1>2, StatusChanges, PlacesChange DEF Campaign
<1>3. ASSUME NEW h \in Hands, Contribute(h) PROVE ReviewInv'
  BY <1>3, ApplicationBegins, ApplicationsCounted, ApplicationInserted, SubmissionBegins,
     SubmissionLookedUp, SubmissionInserted, ApplicationCompleted, HandDrops DEF Contribute
<1>4. ASSUME NEW v \in Reviews, Judge(v) PROVE ReviewInv'
  BY <1>4, ReviewOpens, SubmissionJudged, PayoutFound, PayoutsCounted, PayoutCredited,
     ApplicationReopened, ReviewDrops DEF Judge, Decide, VerifySubmission, RejectSubmission
<1> QED
  BY <1>1, <1>2, <1>3, <1>4 DEF Next

\* What every handler knows of the rows it works on holds in every reachable state.
THEOREM ReviewInvariant == Spec => []ReviewInv
<1> QED
  BY ReviewInvInit, ReviewStep, PTL DEF Spec

\* Every row and every handler has the fields the schema and the code give it.
THEOREM ReviewTypes == Spec => []TypeOK
<1>1. ReviewInv => TypeOK
  BY DEF ReviewInv
<1> QED
  BY <1>1, ReviewInvariant, PTL

\* A campaign whose applications never overlapped has no more approved contributors
\* than it ever had places (applyForTask).
THEOREM NoMoreContributorsThanPlaces == Spec => []ContributorsWithinPlaces
<1>1. ReviewInv => ContributorsWithinPlaces
  BY DEF ReviewInv
<1> QED
  BY <1>1, ReviewInvariant, PTL

\* A submission whose reviews never overlapped is paid once at most, and only when it
\* was approved (verifySubmission, rejectSubmission, processPayout).
THEOREM PaidOnce == Spec => []PaidOnceWhenVerified
<1>1. ReviewInv => PaidOnceWhenVerified
  BY DEF ReviewInv
<1> QED
  BY <1>1, ReviewInvariant, PTL

\* A campaign whose payouts never overlapped pays no more contributors than it ever had
\* places (processPayout).
THEOREM NoMorePayoutsThanPlaces == Spec => []PayoutsWithinPlaces
<1>1. ReviewInv => PayoutsWithinPlaces
  BY DEF ReviewInv
<1> QED
  BY <1>1, ReviewInvariant, PTL

\* A contributor is paid once at most by a campaign, whatever is rejected and submitted
\* again in between (createSubmission, verifySubmission, rejectSubmission).
THEOREM OnePayoutForContributor == Spec => []ContributorPaidOnce
<1>1. ASSUME ReviewInv PROVE ContributorPaidOnce
  <2> SUFFICES ASSUME NEW s \in Subs, NEW u \in Subs, payout[s] > 0, payout[u] > 0,
                      sub[s].task = sub[u].task, sub[s].by = sub[u].by,
                      SubmitRace(sub[s].task, sub[s].by) \notin raced,
                      ReviewRace(s) \notin raced, ReviewRace(u) \notin raced
               PROVE  s = u
    BY DEF ContributorPaidOnce, SubmitRace, ReviewRace
  <2>1. payout[s] \in Nat /\ payout[u] \in Nat
    BY <1>1, ReviewFields DEF ReviewInv
  <2>2. sub[s].status = "VERIFIED" /\ sub[u].status = "VERIFIED"
    BY <1>1, <2>1 DEF ReviewInv, PaidOnceWhenVerified, ReviewRace
  <2>3. PICK t \in Tasks, c \in Contributors : t = sub[s].task /\ c = sub[s].by
    BY <1>1, <2>2 DEF ReviewInv, SubsHold
  <2>4. s \in Unraced(t, c) /\ u \in Unraced(t, c)
    BY <2>2, <2>3 DEF Unraced, Of
  <2>5. SubmitsAlone(t, c)
    BY <1>1, <2>3 DEF ReviewInv, SubmitHolds
  <2> QED
    BY <2>2, <2>4, <2>5 DEF SubmitsAlone
<1> QED
  BY <1>1, ReviewInvariant, PTL

\* A contributor all of whose submissions were rejected may submit again: no application
\* is stuck unless the process died at the one step that reopens it (rejectSubmission).
THEOREM RejectionReopens == Spec => []RejectedMayResubmit
<1>1. ASSUME ReviewInv PROVE RejectedMayResubmit
  <2> SUFFICES ASSUME NEW t \in Tasks, NEW c \in Contributors, Of(t, c) # {},
                      \A s \in Of(t, c) : /\ sub[s].status = "REJECTED" /\ ~Reviewing(s)
                                          /\ [what |-> "death", sub |-> s] \notin raced,
                      SubmitRace(t, c) \notin raced
               PROVE  app[t][c] = "APPROVED"
    BY DEF RejectedMayResubmit, SubmitRace
  <2>1. PICK s \in Of(t, c) : TRUE
    OBVIOUS
  <2>2. c \in Filled(t)
    BY <1>1, <2>1 DEF Of, ReviewInv, SubsHold
  <2>3. app[t][c] \in {"APPROVED", "COMPLETED"}
    BY <2>2 DEF Filled
  <2>4. Completes(t, c)
    BY <1>1 DEF ReviewInv, SubmitHolds
  <2>5. \A x \in Of(t, c) : ~Awaited(x)
    BY DEF Awaited, Reviewing
  <2> QED
    BY <2>3, <2>4, <2>5 DEF Completes
<1> QED
  BY <1>1, ReviewInvariant, PTL

-----------------------------------------------------------------------------
(* The refinement: every step of a handler is a step of Rewards             *)

\* A step that writes no row, or none that is promised anything.
LEMMA NothingPromised ==
    ASSUME raced \subseteq raced', UNCHANGED <<mostPlaces, sub, payout>>
    PROVE  Promised!RewardsNext
<1>1. Promised!Excuse
  BY DEF Promised!Excuse
<1> QED
  BY <1>1 DEF Promised!RewardsNext

\* Places are counted at their most, so that an edit widens the room or changes nothing.
LEMMA PlacesWiden ==
    ASSUME ReviewInv, NEW t \in Tasks, NEW n \in 1 .. MaxPlaces, ChangePlaces(t, n)
    PROVE  Promised!RewardsNext
<1>1. /\ mostPlaces \in [Tasks -> 1 .. MaxPlaces] /\ mostPlaces[t] \in Nat /\ n \in Nat
      /\ mostPlaces' = [mostPlaces EXCEPT ![t] = IF n > @ THEN n ELSE @]
      /\ UNCHANGED <<sub, payout, raced>>
  BY ReviewAssumption, ReviewFields DEF ReviewInv, TypeOK, ChangePlaces
<1>2. CASE n > mostPlaces[t]
  <2>1. /\ mostPlaces' = [mostPlaces EXCEPT ![t] = n] /\ mostPlaces'[t] = n
    BY <1>1, <1>2
  <2>2. Promised!Widen(t)
    BY <1>1, <1>2, <2>1 DEF Promised!Widen
  <2> QED
    BY <2>2 DEF Promised!RewardsNext
<1>3. CASE ~(n > mostPlaces[t])
  <2>1. mostPlaces' = mostPlaces
    BY <1>1, <1>3
  <2> QED
    BY <1>1, <2>1, NothingPromised
<1> QED
  BY <1>2, <1>3

\* A contributor alone on his submission finds all earlier ones rejected.
LEMMA SubmissionMade ==
    ASSUME ReviewInv, NEW h \in Hands, NEW s \in Subs, InsertSubmission(h, s)
    PROVE  Promised!RewardsNext
<1> DEFINE t == hand[h].task
           c == hand[h].by
<1>1. /\ hand[h].step = "create" /\ sub[s].status = "NONE"
      /\ sub' = [sub EXCEPT ![s] = [status |-> "PENDING", task |-> t, by |-> c]]
      /\ UNCHANGED <<mostPlaces, payout, raced>>
  BY DEF InsertSubmission, env
<1>2. t \in Tasks /\ c \in Contributors
  BY <1>1 DEF ReviewInv, HandsHold
<1>3. ASSUME SubmitRace(t, c) \notin raced,
             NEW u \in Of(t, c), ReviewRace(u) \notin raced
      PROVE  sub[u].status = "REJECTED"
  <2>1. SubmitsAlone(t, c)
    BY <1>2, <1>3 DEF ReviewInv, SubmitHolds
  <2>2. Submits(h, t, c) /\ u \in Unraced(t, c)
    BY <1>1, <1>3 DEF Submits, Unraced
  <2> QED
    BY <1>1, <2>1, <2>2 DEF SubmitsAlone
<1>4. \/ <<t, c>> \in {p \in Tasks \X Contributors : SubmitRace(p[1], p[2]) \in raced}
      \/ \A u \in Promised!Made(t, c) \ {x \in Subs : ReviewRace(x) \in raced} :
            sub[u].status = "REJECTED"
  <2>1. CASE SubmitRace(t, c) \in raced
    BY <1>2, <2>1
  <2>2. CASE SubmitRace(t, c) \notin raced
    BY <1>3, <2>2 DEF Promised!Made, Of
  <2> QED
    BY <2>1, <2>2
<1>5. Promised!Make(s, t, c)
  BY <1>1, <1>4 DEF Promised!Make
<1> QED
  BY <1>2, <1>5 DEF Promised!RewardsNext

\* A reviewer alone on a submission finds it pending.
LEMMA SubmissionVerdict ==
    ASSUME ReviewInv, NEW v \in Reviews, Approve(v) \/ Reject(v)
    PROVE  Promised!RewardsNext
<1> DEFINE s == review[v].sub
<1>1. PICK verdict \in {"VERIFIED", "REJECTED"} :
          /\ review[v].step \in {"approve", "reject"}
          /\ sub' = [sub EXCEPT ![s].status = verdict]
          /\ UNCHANGED <<mostPlaces, payout, raced>>
  BY DEF Approve, Reject, env
<1>2. s \in Subs /\ Reviewing(s)
  BY <1>1 DEF ReviewInv, ReviewsHold, Reviewing
<1>3. sub[s].status # "NONE"
  BY <1>2 DEF ReviewInv, SubsHold
<1>4. s \in {x \in Subs : ReviewRace(x) \in raced} \/ sub[s].status = "PENDING"
  BY <1>1, <1>2 DEF ReviewInv, JudgeHolds, JudgedAlone
<1>5. Promised!Judge(s, verdict)
  BY <1>1, <1>3, <1>4 DEF Promised!Judge
<1> QED
  BY <1>1, <1>2, <1>5 DEF Promised!RewardsNext

\* The instance counts as the module does.
LEMMA SameCount == \A S : Promised!Cardinality(S) = Cardinality(S)
BY ONLY DEF Promised!Cardinality, Cardinality

\* A payout alone finds an approved submission that was not paid, and a place.
LEMMA SubmissionRewarded ==
    ASSUME ReviewInv, NEW v \in Reviews, Credit(v)
    PROVE  Promised!RewardsNext
<1> DEFINE s == review[v].sub
           t == sub[s].task
<1>1. /\ review[v].step = "credit" /\ payout' = [payout EXCEPT ![s] = @ + 1]
      /\ UNCHANGED <<mostPlaces, sub, raced>>
  BY DEF Credit, env
<1>2. s \in Subs /\ Reviewing(s)
  BY <1>1 DEF ReviewInv, ReviewsHold, Reviewing
<1>3. sub[s].status # "NONE" /\ t \in Tasks
  BY <1>2 DEF ReviewInv, SubsHold
<1>4. \/ s \in {x \in Subs : ReviewRace(x) \in raced}
      \/ sub[s].status = "VERIFIED" /\ payout[s] = 0
  BY <1>1, <1>2 DEF ReviewInv, JudgeHolds, JudgedAlone
<1>5. \/ t \in {x \in Tasks : [what |-> "payout", task |-> x] \in raced}
      \/ Cardinality(Promised!Rewarded(t)) < mostPlaces[t]
  <2>1. Pays(v, t)
    BY <1>1 DEF Pays
  <2>2. [what |-> "payout", task |-> t] \notin raced => Cardinality(Paid(t)) < mostPlaces[t]
    BY <1>1, <1>3, <2>1 DEF ReviewInv, PayHolds, PaysAlone
  <2>3. Promised!Rewarded(t) = Paid(t)
    BY DEF Promised!Rewarded, Paid
  <2> QED
    BY <1>3, <2>2, <2>3
<1>6. Promised!Pay(s)
  BY <1>1, <1>3, <1>4, <1>5, SameCount DEF Promised!Pay
<1> QED
  BY <1>2, <1>6 DEF Promised!RewardsNext

\* The steps of a contributor's handler.
LEMMA HandRewards ==
    ASSUME ReviewInv, NEW h \in Hands, Contribute(h)
    PROVE  Promised!RewardsNext
<1>1. \/ \E s \in Subs : InsertSubmission(h, s)
      \/ UNCHANGED <<mostPlaces, sub, payout>> /\ raced \subseteq raced'
  BY DEF Contribute, ApplyForTask, CreateSubmission, CountApplications, InsertApplication,
         LookupSubmission, CompleteApplication, DropHand, Note, env
<1> QED
  BY <1>1, SubmissionMade, NothingPromised

\* The steps of a reviewer's handler.
LEMMA ReviewRewards ==
    ASSUME ReviewInv, NEW v \in Reviews, Judge(v)
    PROVE  Promised!RewardsNext
<1>1. \/ Approve(v) \/ Reject(v) \/ Credit(v)
      \/ UNCHANGED <<mostPlaces, sub, payout>> /\ raced \subseteq raced'
  BY DEF Judge, Decide, VerifySubmission, RejectSubmission, Open, FindPayout, CountPayouts, Reopen,
         DropReview, Note, env
<1> QED
  BY <1>1, SubmissionVerdict, SubmissionRewarded, NothingPromised

\* Every step is a step of the promises.
LEMMA RewardsStep ==
    ASSUME ReviewInv, [Next]_vars
    PROVE  [Promised!RewardsNext]_(Promised!rewardVars)
<1>1. CASE UNCHANGED vars
  BY <1>1, NothingPromised DEF vars, env
<1>2. ASSUME NEW t \in Tasks, ChangeStatus(t) PROVE Promised!RewardsNext
  BY <1>2, NothingPromised DEF ChangeStatus
<1>3. CASE Campaign
  BY <1>2, <1>3, PlacesWiden DEF Campaign
<1> QED
  BY <1>1, <1>3, HandRewards, ReviewRewards DEF Next

\* No handler has begun, and nobody claims anything.
LEMMA RewardsStart == Init => Promised!RewardsInit
<1> SUFFICES ASSUME Init PROVE Promised!RewardsInit
  OBVIOUS
<1>1. mostPlaces \in [Tasks -> Nat]
  BY ReviewInvInit, ReviewFields DEF ReviewInv, TypeOK
<1> QED
  BY <1>1 DEF Init, Promised!RewardsInit

\* The separate statements of submitting, judging and paying implement the promises of
\* Rewards (createSubmission, verifySubmission, rejectSubmission, processPayout).
THEOREM ReviewingIsAtomic == Spec => JudgesAndPaysOnce
<1>1. ReviewInv /\ [Next]_vars => [Promised!RewardsNext]_(Promised!rewardVars)
  BY RewardsStep
<1> QED
  BY <1>1, RewardsStart, ReviewInvariant, PTL DEF Spec, JudgesAndPaysOnce, Promised!RewardsSpec

-----------------------------------------------------------------------------
(* What follows from the promises alone                                     *)

AllPaid(cl, rw, t) == {s \in Subs : cl[s].task = t /\ rw[s] > 0}

ClaimsTyped(cl, rw) == cl \in [Subs -> Promised!Claim] /\ rw \in [Subs -> Nat]

ClaimsKept(cl, rw, ct) ==
    \A s \in Subs : /\ cl[s].status = "NONE" => rw[s] = 0
                    /\ s \notin ct => rw[s] <= IF cl[s].status = "VERIFIED" THEN 1 ELSE 0

\* Of one person's claims on a campaign one at most is not refused.
Upheld(cl, s) == cl[s].status \in {"PENDING", "VERIFIED"}

OneAtATime(cl, ct, ha) ==
    \A s, u \in Subs \ ct :
        /\ Upheld(cl, s) /\ Upheld(cl, u)
        /\ cl[s].task = cl[u].task /\ cl[s].by = cl[u].by
        /\ <<cl[s].task, cl[s].by>> \notin ha
        => s = u

AllRefused(cl, ct, t, c) ==
    \A u \in Subs \ ct : cl[u].task = t /\ cl[u].by = c => ~Upheld(cl, u)

RoomKept(rm, cl, rw, cr) ==
    /\ rm \in [Tasks -> Nat]
    /\ \A t \in Tasks \ cr : /\ IsFiniteSet(AllPaid(cl, rw, t))
                             /\ Cardinality(AllPaid(cl, rw, t)) <= rm[t]

Contested == {s \in Subs : ReviewRace(s) \in raced}
Hasty == {p \in Tasks \X Contributors : SubmitRace(p[1], p[2]) \in raced}
Crowded == {t \in Tasks : [what |-> "payout", task |-> t] \in raced}

PromisesInv ==
    /\ ClaimsTyped(sub, payout) /\ ClaimsKept(sub, payout, Contested)
    /\ OneAtATime(sub, Contested, Hasty)
    /\ RoomKept(mostPlaces, sub, payout, Crowded)

\* A new claim is not rewarded yet, and the others of its maker are refused.
LEMMA MakeKept ==
    ASSUME NEW rm, NEW cl, NEW cl1, NEW rw, NEW ct, NEW ha, NEW cr,
           ClaimsTyped(cl, rw), ClaimsKept(cl, rw, ct), OneAtATime(cl, ct, ha),
           RoomKept(rm, cl, rw, cr),
           NEW s \in Subs, NEW t \in Tasks, NEW c \in Contributors, cl[s].status = "NONE",
           <<t, c>> \in ha \/ AllRefused(cl, ct, t, c),
           cl1 = [cl EXCEPT ![s] = [status |-> "PENDING", task |-> t, by |-> c]]
    PROVE  /\ ClaimsTyped(cl1, rw) /\ ClaimsKept(cl1, rw, ct)
           /\ OneAtATime(cl1, ct, ha) /\ RoomKept(rm, cl1, rw, cr)
<1>1. /\ cl1 \in [Subs -> Promised!Claim]
      /\ cl1[s].status = "PENDING" /\ cl1[s].task = t /\ cl1[s].by = c
      /\ \A u \in Subs : u # s => cl1[u] = cl[u]
  BY DEF ClaimsTyped, Promised!Claim
<1>2. rw[s] = 0 /\ \A u \in Subs : rw[u] \in Nat
  BY DEF ClaimsKept, ClaimsTyped
<1>3. ClaimsTyped(cl1, rw)
  BY <1>1 DEF ClaimsTyped
<1>4. ClaimsKept(cl1, rw, ct)
  BY <1>1, <1>2 DEF ClaimsKept
<1>5. OneAtATime(cl1, ct, ha)
  <2> SUFFICES ASSUME NEW a \in Subs \ ct, NEW b \in Subs \ ct,
                      Upheld(cl1, a), Upheld(cl1, b),
                      cl1[a].task = cl1[b].task, cl1[a].by = cl1[b].by,
                      <<cl1[a].task, cl1[a].by>> \notin ha
               PROVE  a = b
    BY DEF OneAtATime
  <2>1. CASE a # s /\ b # s
    <3>1. cl1[a] = cl[a] /\ cl1[b] = cl[b]
      BY <1>1, <2>1
    <3> QED
      BY <3>1 DEF OneAtATime, Upheld
  <2>2. CASE a = s /\ b # s
    <3>1. cl[b].task = t /\ cl[b].by = c /\ Upheld(cl, b) /\ <<t, c>> \notin ha
      BY <1>1, <2>2 DEF Upheld
    <3> QED
      BY <3>1 DEF AllRefused
  <2>3. CASE b = s /\ a # s
    <3>1. cl[a].task = t /\ cl[a].by = c /\ Upheld(cl, a) /\ <<t, c>> \notin ha
      BY <1>1, <2>3 DEF Upheld
    <3> QED
      BY <3>1 DEF AllRefused
  <2> QED
    BY <2>1, <2>2, <2>3
<1>6. RoomKept(rm, cl1, rw, cr)
  <2>1. \A x \in Tasks : AllPaid(cl1, rw, x) = AllPaid(cl, rw, x)
    BY <1>1, <1>2 DEF AllPaid
  <2> QED
    BY <2>1 DEF RoomKept
<1> QED
  BY <1>3, <1>4, <1>5, <1>6

\* A verdict is given on a claim that was not rewarded.
LEMMA JudgeKept ==
    ASSUME NEW rm, NEW cl, NEW cl1, NEW rw, NEW ct, NEW ha, NEW cr,
           ClaimsTyped(cl, rw), ClaimsKept(cl, rw, ct), OneAtATime(cl, ct, ha),
           RoomKept(rm, cl, rw, cr),
           NEW s \in Subs, NEW verdict \in {"VERIFIED", "REJECTED"}, cl[s].status # "NONE",
           s \in ct \/ cl[s].status = "PENDING", cl1 = [cl EXCEPT ![s].status = verdict]
    PROVE  /\ ClaimsTyped(cl1, rw) /\ ClaimsKept(cl1, rw, ct)
           /\ OneAtATime(cl1, ct, ha) /\ RoomKept(rm, cl1, rw, cr)
<1>1. /\ cl1 \in [Subs -> Promised!Claim]
      /\ cl1[s].status = verdict /\ cl1[s].task = cl[s].task /\ cl1[s].by = cl[s].by
      /\ \A u \in Subs : u # s => cl1[u] = cl[u]
  BY DEF ClaimsTyped, Promised!Claim
<1>2. \A u \in Subs : rw[u] \in Nat
  BY DEF ClaimsTyped
<1>3. ClaimsTyped(cl1, rw)
  BY <1>1 DEF ClaimsTyped
<1>4. ClaimsKept(cl1, rw, ct)
  BY <1>1, <1>2 DEF ClaimsKept
<1>5. OneAtATime(cl1, ct, ha)
  <2> SUFFICES ASSUME NEW a \in Subs \ ct, NEW b \in Subs \ ct,
                      Upheld(cl1, a), Upheld(cl1, b),
                      cl1[a].task = cl1[b].task, cl1[a].by = cl1[b].by,
                      <<cl1[a].task, cl1[a].by>> \notin ha
               PROVE  a = b
    BY DEF OneAtATime
  <2>1. \A u \in Subs \ ct : /\ Upheld(cl1, u) => Upheld(cl, u)
                             /\ cl1[u].task = cl[u].task /\ cl1[u].by = cl[u].by
    BY <1>1 DEF Upheld
  <2> QED
    BY <2>1 DEF OneAtATime
<1>6. RoomKept(rm, cl1, rw, cr)
  <2>1. \A x \in Tasks : AllPaid(cl1, rw, x) = AllPaid(cl, rw, x)
    BY <1>1 DEF AllPaid
  <2> QED
    BY <2>1 DEF RoomKept
<1> QED
  BY <1>3, <1>4, <1>5, <1>6

\* An accepted claim is rewarded into a place that is left.
LEMMA PayKept ==
    ASSUME NEW rm, NEW cl, NEW rw, NEW rw1, NEW ct, NEW cr,
           ClaimsTyped(cl, rw), ClaimsKept(cl, rw, ct), RoomKept(rm, cl, rw, cr),
           NEW s \in Subs, cl[s].status # "NONE",
           s \in ct \/ (cl[s].status = "VERIFIED" /\ rw[s] = 0),
           cl[s].task \in cr \/ Cardinality(AllPaid(cl, rw, cl[s].task)) < rm[cl[s].task],
           rw1 = [rw EXCEPT ![s] = @ + 1]
    PROVE  ClaimsTyped(cl, rw1) /\ ClaimsKept(cl, rw1, ct) /\ RoomKept(rm, cl, rw1, cr)
<1>1. /\ rw1 \in [Subs -> Nat] /\ rw1[s] = rw[s] + 1 /\ rw[s] \in Nat
      /\ \A u \in Subs : u # s => rw1[u] = rw[u]
  BY DEF ClaimsTyped
<1>2. ClaimsTyped(cl, rw1)
  BY <1>1 DEF ClaimsTyped
<1>3. ClaimsKept(cl, rw1, ct)
  BY <1>1 DEF ClaimsKept
<1>4. ASSUME NEW t \in Tasks, t \notin cr
      PROVE  /\ IsFiniteSet(AllPaid(cl, rw1, t))
             /\ Cardinality(AllPaid(cl, rw1, t)) <= rm[t]
  <2>1. /\ IsFiniteSet(AllPaid(cl, rw, t)) /\ Cardinality(AllPaid(cl, rw, t)) <= rm[t]
        /\ rm[t] \in Nat
    BY <1>4 DEF RoomKept
  <2>2. CASE cl[s].task = t
    <3>1. /\ AllPaid(cl, rw1, t) \subseteq AllPaid(cl, rw, t) \cup {s}
          /\ AllPaid(cl, rw, t) \subseteq AllPaid(cl, rw1, t)
      BY <1>1 DEF AllPaid
    <3>2. /\ IsFiniteSet(AllPaid(cl, rw1, t))
          /\ Cardinality(AllPaid(cl, rw1, t)) <= Cardinality(AllPaid(cl, rw, t)) + 1
          /\ Cardinality(AllPaid(cl, rw, t)) \in Nat
          /\ Cardinality(AllPaid(cl, rw1, t)) \in Nat
      BY <2>1, <3>1, OneMore
    <3>3. Cardinality(AllPaid(cl, rw, t)) < rm[t]
      BY <1>4, <2>2
    <3> QED
      BY <2>1, <3>2, <3>3
  <2>3. CASE cl[s].task # t
    <3>1. AllPaid(cl, rw1, t) = AllPaid(cl, rw, t)
      BY <1>1, <2>3 DEF AllPaid
    <3> QED
      BY <2>1, <3>1
  <2> QED
    BY <2>2, <2>3
<1>5. RoomKept(rm, cl, rw1, cr)
  BY <1>4 DEF RoomKept
<1> QED
  BY <1>2, <1>3, <1>5

\* What is promised of fewer claims, people and campaigns holds of them.
LEMMA ExcuseKept ==
    ASSUME NEW rm, NEW cl, NEW rw, NEW ct, NEW ct1, NEW ha, NEW ha1, NEW cr, NEW cr1,
           ClaimsKept(cl, rw, ct), OneAtATime(cl, ct, ha), RoomKept(rm, cl, rw, cr),
           ct \subseteq ct1, ha \subseteq ha1, cr \subseteq cr1
    PROVE  ClaimsKept(cl, rw, ct1) /\ OneAtATime(cl, ct1, ha1) /\ RoomKept(rm, cl, rw, cr1)
<1>1. ClaimsKept(cl, rw, ct1)
  BY DEF ClaimsKept
<1>2. OneAtATime(cl, ct1, ha1)
  BY DEF OneAtATime
<1>3. RoomKept(rm, cl, rw, cr1)
  BY DEF RoomKept
<1> QED
  BY <1>1, <1>2, <1>3

\* More room is room enough.
LEMMA WidenKept ==
    ASSUME NEW rm, NEW rm1, NEW cl, NEW rw, NEW cr, RoomKept(rm, cl, rw, cr),
           rm1 \in [Tasks -> Nat], \A t \in Tasks : rm1[t] >= rm[t]
    PROVE  RoomKept(rm1, cl, rw, cr)
<1> SUFFICES ASSUME NEW t \in Tasks \ cr
             PROVE  /\ IsFiniteSet(AllPaid(cl, rw, t))
                    /\ Cardinality(AllPaid(cl, rw, t)) <= rm1[t]
  BY DEF RoomKept
<1>1. /\ IsFiniteSet(AllPaid(cl, rw, t)) /\ Cardinality(AllPaid(cl, rw, t)) <= rm[t]
      /\ rm[t] \in Nat
  BY DEF RoomKept
<1>2. Cardinality(AllPaid(cl, rw, t)) \in Nat
  BY <1>1, FS_CardinalityType
<1>3. rm1[t] \in Nat /\ rm1[t] >= rm[t]
  OBVIOUS
<1> QED
  BY <1>1, <1>2, <1>3

\* One case per action of the promises.
LEMMA PromisesKept ==
    ASSUME PromisesInv, [Promised!RewardsNext]_(Promised!rewardVars)
    PROVE  /\ PromisesInv'
           /\ \A s \in Subs : /\ payout'[s] >= payout[s]
                              /\ s \notin Contested /\ sub[s].status \in {"VERIFIED", "REJECTED"}
                                    => sub'[s] = sub[s]
<1> DEFINE Stands == \A s \in Subs :
                         /\ payout'[s] >= payout[s]
                         /\ s \notin Contested /\ sub[s].status \in {"VERIFIED", "REJECTED"}
                               => sub'[s] = sub[s]
<1>1. /\ ClaimsTyped(sub, payout) /\ ClaimsKept(sub, payout, Contested)
      /\ OneAtATime(sub, Contested, Hasty) /\ RoomKept(mostPlaces, sub, payout, Crowded)
  BY DEF PromisesInv
<1>2. /\ \A s \in Subs : payout[s] \in Nat
      /\ sub \in [Subs -> Promised!Claim] /\ payout \in [Subs -> Nat]
  BY <1>1 DEF ClaimsTyped
<1>3. ASSUME NEW t \in Tasks, Promised!Widen(t) PROVE PromisesInv' /\ Stands
  <2>1. /\ mostPlaces' = [mostPlaces EXCEPT ![t] = mostPlaces'[t]]
        /\ mostPlaces'[t] \in Nat /\ mostPlaces'[t] > mostPlaces[t]
        /\ sub' = sub /\ payout' = payout
        /\ Contested' = Contested /\ Hasty' = Hasty /\ Crowded' = Crowded
    BY <1>3 DEF Promised!Widen, Contested, Hasty, Crowded
  <2>2. mostPlaces \in [Tasks -> Nat]
    BY <1>1 DEF RoomKept
  <2>3. mostPlaces' \in [Tasks -> Nat] /\ \A x \in Tasks : mostPlaces'[x] >= mostPlaces[x]
    <3> SUFFICES ASSUME NEW x \in Tasks PROVE mostPlaces'[x] >= mostPlaces[x]
      BY <2>1, <2>2
    <3>1. CASE x = t
      BY <2>1, <2>2, <3>1
    <3>2. CASE x # t
      BY <2>1, <2>2, <3>2
    <3> QED
      BY <3>1, <3>2
  <2>4. RoomKept(mostPlaces', sub, payout, Crowded)
    BY <1>1, <2>3, WidenKept
  <2> QED
    BY <1>1, <1>2, <2>1, <2>4 DEF PromisesInv
<1>4. ASSUME NEW s \in Subs, NEW t \in Tasks, NEW c \in Contributors, Promised!Make(s, t, c)
      PROVE  PromisesInv' /\ Stands
  <2>1. /\ sub[s].status = "NONE"
        /\ <<t, c>> \in Hasty \/ AllRefused(sub, Contested, t, c)
        /\ sub' = [sub EXCEPT ![s] = [status |-> "PENDING", task |-> t, by |-> c]]
        /\ mostPlaces' = mostPlaces /\ payout' = payout
        /\ Contested' = Contested /\ Hasty' = Hasty /\ Crowded' = Crowded
    BY <1>4 DEF Promised!Make, Promised!Made, AllRefused, Upheld, Contested, Hasty, Crowded
  <2>2. /\ ClaimsTyped(sub', payout) /\ ClaimsKept(sub', payout, Contested)
        /\ OneAtATime(sub', Contested, Hasty) /\ RoomKept(mostPlaces, sub', payout, Crowded)
    BY <1>1, <2>1, MakeKept
  <2>3. PromisesInv'
    BY <2>1, <2>2 DEF PromisesInv
  <2> QED
    BY <1>2, <2>1, <2>3
<1>5. ASSUME NEW s \in Subs, NEW verdict \in {"VERIFIED", "REJECTED"}, Promised!Judge(s, verdict)
      PROVE  PromisesInv' /\ Stands
  <2>1. /\ sub[s].status # "NONE" /\ (s \in Contested \/ sub[s].status = "PENDING")
        /\ sub' = [sub EXCEPT ![s].status = verdict]
        /\ mostPlaces' = mostPlaces /\ payout' = payout
        /\ Contested' = Contested /\ Hasty' = Hasty /\ Crowded' = Crowded
    BY <1>5 DEF Promised!Judge, Contested, Hasty, Crowded
  <2>2. /\ ClaimsTyped(sub', payout) /\ ClaimsKept(sub', payout, Contested)
        /\ OneAtATime(sub', Contested, Hasty) /\ RoomKept(mostPlaces, sub', payout, Crowded)
    BY <1>1, <2>1, JudgeKept
  <2>3. PromisesInv'
    BY <2>1, <2>2 DEF PromisesInv
  <2>4. \A u \in Subs : u # s => sub'[u] = sub[u]
    BY <1>2, <2>1
  <2> QED
    BY <1>2, <2>1, <2>3, <2>4
<1>6. ASSUME NEW s \in Subs, Promised!Pay(s) PROVE PromisesInv' /\ Stands
  <2>1. /\ sub[s].status # "NONE"
        /\ s \in Contested \/ (sub[s].status = "VERIFIED" /\ payout[s] = 0)
        /\ sub[s].task \in Crowded
           \/ Cardinality(AllPaid(sub, payout, sub[s].task)) < mostPlaces[sub[s].task]
        /\ payout' = [payout EXCEPT ![s] = @ + 1]
        /\ mostPlaces' = mostPlaces /\ sub' = sub
        /\ Contested' = Contested /\ Hasty' = Hasty /\ Crowded' = Crowded
    BY <1>6, SameCount DEF Promised!Pay, Promised!Rewarded, AllPaid, Contested, Hasty, Crowded
  <2>2. /\ ClaimsTyped(sub, payout') /\ ClaimsKept(sub, payout', Contested)
        /\ RoomKept(mostPlaces, sub, payout', Crowded)
    BY <1>1, <2>1, PayKept
  <2>3. PromisesInv'
    BY <1>1, <2>1, <2>2 DEF PromisesInv
  <2>4. \A u \in Subs : payout'[u] >= payout[u]
    BY <1>2, <2>1
  <2> QED
    BY <2>1, <2>3, <2>4
<1>7. CASE Promised!Excuse \/ UNCHANGED Promised!rewardVars
  <2>1. /\ Contested \subseteq Contested' /\ Hasty \subseteq Hasty' /\ Crowded \subseteq Crowded'
        /\ mostPlaces' = mostPlaces /\ sub' = sub /\ payout' = payout
    BY <1>7 DEF Promised!Excuse, Promised!rewardVars, Contested, Hasty, Crowded
  <2>2. /\ ClaimsKept(sub, payout, Contested') /\ OneAtATime(sub, Contested', Hasty')
        /\ RoomKept(mostPlaces, sub, payout, Crowded')
    BY <1>1, <2>1, ExcuseKept
  <2>3. PromisesInv'
    BY <1>1, <2>1, <2>2 DEF PromisesInv
  <2> QED
    BY <1>2, <2>1, <2>3
<1> QED
  BY <1>3, <1>4, <1>5, <1>6, <1>7 DEF Promised!RewardsNext

\* Nothing is claimed or rewarded at first.
LEMMA PromisesBegin == Promised!RewardsInit => PromisesInv
<1> SUFFICES ASSUME Promised!RewardsInit PROVE PromisesInv
  OBVIOUS
<1>1. /\ mostPlaces \in [Tasks -> Nat] /\ payout = [s \in Subs |-> 0]
      /\ sub = [s \in Subs |-> [status |-> "NONE", task |-> NoTask, by |-> NoOne]]
  BY DEF Promised!RewardsInit
<1>2. \A s \in Subs : sub[s].status = "NONE" /\ payout[s] = 0
  BY <1>1
<1>3. ClaimsTyped(sub, payout)
  BY <1>1 DEF ClaimsTyped, Promised!Claim
<1>4. ClaimsKept(sub, payout, Contested)
  BY <1>2 DEF ClaimsKept
<1>5. OneAtATime(sub, Contested, Hasty)
  BY <1>2 DEF OneAtATime, Upheld
<1>6. RoomKept(mostPlaces, sub, payout, Crowded)
  <2>1. mostPlaces \in [Tasks -> Nat] /\ \A t \in Tasks : AllPaid(sub, payout, t) = {}
    BY <1>1, <1>2 DEF AllPaid
  <2> QED
    BY ONLY <2>1, FS_EmptySet DEF RoomKept
<1> QED
  BY <1>3, <1>4, <1>5, <1>6 DEF PromisesInv

\* A submission is paid once at most and only when approved, a campaign pays no more
\* submissions than it ever had places, and no contributor two of his own: it holds of
\* everything that judges and pays atomically, hence of these handlers.
THEOREM RewardsAreKept == Spec => []Promised!RewardsKept
<1>1. ASSUME PromisesInv PROVE Promised!RewardsKept
  <2>1. /\ \A s \in Subs : payout[s] \in Nat /\ (sub[s].status = "NONE" => payout[s] = 0)
        /\ \A s \in Subs \ Contested :
              payout[s] <= IF sub[s].status = "VERIFIED" THEN 1 ELSE 0
    BY <1>1 DEF PromisesInv, ClaimsTyped, ClaimsKept
  <2>2. \A t \in Tasks \ Crowded : Cardinality(AllPaid(sub, payout, t)) <= mostPlaces[t]
    BY <1>1 DEF PromisesInv, RoomKept
  <2>3. ASSUME NEW s \in Subs \ Contested, NEW u \in Subs \ Contested,
               payout[s] > 0, payout[u] > 0,
               sub[s].task = sub[u].task, sub[s].by = sub[u].by,
               <<sub[s].task, sub[s].by>> \notin Hasty
        PROVE  s = u
    <3>1. sub[s].status = "VERIFIED" /\ sub[u].status = "VERIFIED"
      BY <2>1, <2>3
    <3> QED
      BY <1>1, <2>3, <3>1 DEF PromisesInv, OneAtATime, Upheld
  <2>4. Promised!RewardsTypeOK
    BY <1>1 DEF PromisesInv, ClaimsTyped, RoomKept, Promised!RewardsTypeOK
  <2> QED
    BY <2>1, <2>2, <2>3, <2>4, SameCount
       DEF Promised!RewardsKept, Promised!Rewarded, AllPaid, Contested, Hasty, Crowded
<1> QED
  BY <1>1, PromisesKept, PromisesBegin, ReviewingIsAtomic, PTL
     DEF JudgesAndPaysOnce, Promised!RewardsSpec

\* Unless two reviews of it overlapped, an approved or rejected submission is neither
\* judged nor assigned anew, and a payout is never taken back.
THEOREM VerdictsAreFinal == Spec => Promised!VerdictsStand
<1>1. PromisesInv /\ [Promised!RewardsNext]_(Promised!rewardVars)
         => PromisesInv' /\ [\A s \in Subs :
                /\ payout'[s] >= payout[s]
                /\ s \notin Contested /\ sub[s].status \in {"VERIFIED", "REJECTED"}
                      => sub'[s] = sub[s]]_(Promised!rewardVars)
  BY PromisesKept
<1> QED
  BY <1>1, PromisesBegin, ReviewingIsAtomic, PTL
     DEF JudgesAndPaysOnce, Promised!RewardsSpec, Promised!VerdictsStand, Contested
=============================================================================
