--------------------------- MODULE PlatformProofs ---------------------------
(***************************************************************************)
(* Disputes, option lists, campaign texts, broadcasts, the market, lists     *)
(* read page by page and accounts, for any number of rows, people and        *)
(* handlers in flight.  They share no state, and each has an inductive        *)
(* invariant of its own; the shapes of their rows, and of the prices, are     *)
(* put together at the end.                                                  *)
(***************************************************************************)
EXTENDS Market, Office, PricingProofs, FiniteSetTheorems, SequenceTheorems,
        TLAPS

-----------------------------------------------------------------------------
(* Reputation                                                               *)

Earned(n) == Smaller(Top, Default + Bonus * n)

\* A payout in flight was counted already; when it is the only one of its contributor,
\* and none was lost, the reputation is what the others added.
PayoutAdds(d) ==
    LET c == payout[d].to
    IN  /\ payout[d].step = "idle" => c = NoContributor
        /\ payout[d].step # "idle" =>
              /\ c \in Contributors
              /\ c \notin raced => /\ paid[c] > 0 /\ score[c] = Earned(paid[c] - 1)
                                   /\ \A e \in Payouts : payout[e].to = c => e = d
        /\ payout[d].step = "write" =>
              /\ payout[d].score \in Default .. Top
              /\ c \notin raced => payout[d].score = score[c]

RewardTypeOK ==
    /\ score \in [Contributors -> Default .. Top]
    /\ payout \in [Payouts -> PayoutJob]
    /\ paid \in [Contributors -> 0 .. MaxPaid]
    /\ raced \subseteq Contributors

RewardInv == RewardTypeOK /\ (\A d \in Payouts : PayoutAdds(d)) /\ ReputationIsEarned

\* One more payout adds its points, and never passes the top.
LEMMA EarnedMore ==
    /\ Earned(0) = Default
    /\ \A n \in Nat : Earned(n) \in Default .. Top
    /\ \A n \in Nat : n > 0 => Earned(n) = Smaller(Top, Earned(n - 1) + Bonus)
<1>1. Default \in Nat /\ Top \in Nat /\ Bonus \in Nat /\ Default <= Top
  BY MarketAssumption
<1>2. ASSUME NEW n \in Nat PROVE Bonus * n \in Nat /\ (n > 0 => Bonus * n = Bonus * (n - 1) + Bonus)
  BY <1>1
<1>3. Earned(0) = Default
  BY <1>1 DEF Earned, Smaller
<1>4. ASSUME NEW n \in Nat PROVE Earned(n) \in Default .. Top
  BY <1>1, <1>2 DEF Earned, Smaller
<1>5. ASSUME NEW n \in Nat, n > 0 PROVE Earned(n) = Smaller(Top, Earned(n - 1) + Bonus)
  <2>0. n - 1 \in Nat
    BY <1>5
  <2>1. PICK x \in Nat : x = Bonus * (n - 1)
    BY <1>2, <2>0
  <2>2. Bonus * n = x + Bonus
    BY <1>2, <1>5, <2>1
  <2>3. Earned(n) = Smaller(Top, Default + (x + Bonus)) /\ Earned(n - 1) = Smaller(Top, Default + x)
    BY <2>1, <2>2 DEF Earned
  <2> QED
    BY ONLY <1>1, <2>1, <2>3 DEF Smaller
<1> QED
  BY <1>3, <1>4, <1>5

\* What the rows of payouts in flight and scores hold.
LEMMA RewardFields ==
    ASSUME RewardTypeOK
    PROVE  /\ \A d \in Payouts : /\ payout[d] \in PayoutJob /\ payout[d].score \in Nat
                                 /\ payout[d].step \in {"idle", "read", "write"}
           /\ \A c \in Contributors : /\ score[c] \in Default .. Top
                                      /\ paid[c] \in Nat /\ paid[c] <= MaxPaid
           /\ IdlePayout \in PayoutJob /\ IdlePayout.step = "idle" /\ IdlePayout.to = NoContributor
           /\ MaxPaid \in Nat /\ Default \in Nat /\ Top \in Nat /\ Bonus \in Nat /\ Default <= Top
           /\ NoContributor \notin Contributors
  BY MarketAssumption DEF RewardTypeOK, PayoutJob, IdlePayout

\* At signup everybody has the default score and nobody is paid.
LEMMA RewardStart == ASSUME MarketInit PROVE RewardInv
<1>1. RewardTypeOK
  BY MarketAssumption DEF MarketInit, RewardTypeOK, PayoutJob, IdlePayout
<1>2. \A d \in Payouts : payout[d].step = "idle" /\ payout[d].to = NoContributor
  BY DEF MarketInit, IdlePayout
<1>3. \A d \in Payouts : PayoutAdds(d)
  BY <1>2 DEF PayoutAdds
<1>4. ReputationIsEarned
  BY EarnedMore DEF MarketInit, ReputationIsEarned, Earned
<1> QED
  BY <1>1, <1>3, <1>4 DEF RewardInv

\* The credit: of two payouts at once the contributor is remembered.
LEMMA PayoutMade ==
    ASSUME RewardInv, NEW d \in Payouts, NEW c \in Contributors, Pay(d, c)
    PROVE  RewardInv'
<1>1. PICK n \in PayoutJob : n = [step |-> "read", to |-> c, score |-> 0]
  BY DEF PayoutJob
<1>2. n.step = "read" /\ n.to = c
  BY <1>1
<1>3. /\ payout[d].step = "idle" /\ payout' = [payout EXCEPT ![d] = n] /\ score' = score
      /\ paid[c] < MaxPaid /\ paid' = [paid EXCEPT ![c] = @ + 1]
      /\ raced' = IF Raising(c) THEN raced \cup {c} ELSE raced
  BY <1>1 DEF Pay
<1>4. /\ payout'[d] = n /\ payout' \in [Payouts -> PayoutJob]
      /\ \A e \in Payouts : e # d => payout'[e] = payout[e]
  BY <1>1, <1>3 DEF RewardInv, RewardTypeOK
<1>5. /\ paid'[c] = paid[c] + 1 /\ paid' \in [Contributors -> 0 .. MaxPaid]
      /\ \A x \in Contributors : x # c => paid'[x] = paid[x]
  BY <1>3, RewardFields DEF RewardInv, RewardTypeOK
<1>6. RewardTypeOK'
  BY <1>3, <1>4, <1>5 DEF RewardInv, RewardTypeOK
<1>7. payout[d].to = NoContributor
  BY <1>3 DEF RewardInv, PayoutAdds
<1>8. ASSUME c \notin raced' PROVE ~Raising(c) /\ c \notin raced /\ score[c] = Earned(paid[c])
  BY <1>3, <1>8 DEF RewardInv, ReputationIsEarned, Earned
<1>9. ASSUME NEW e \in Payouts PROVE PayoutAdds(e)'
  <2>1. CASE e = d
    <3>1. payout'[e].step = "read" /\ payout'[e].to = c
      BY <1>2, <1>4, <2>1
    <3>2. c \notin raced' => /\ paid'[c] > 0 /\ score'[c] = Earned(paid'[c] - 1)
                             /\ \A x \in Payouts : payout'[x].to = c => x = e
      <4> SUFFICES ASSUME c \notin raced'
                   PROVE  /\ paid'[c] > 0 /\ score'[c] = Earned(paid'[c] - 1)
                          /\ \A x \in Payouts : payout'[x].to = c => x = e
        OBVIOUS
      <4>1. paid[c] \in Nat /\ paid'[c] = paid[c] + 1
        BY <1>5, RewardFields DEF RewardInv
      <4>2. paid'[c] - 1 = paid[c] /\ paid'[c] > 0
        BY ONLY <4>1
      <4> QED
        BY <1>3, <1>4, <1>8, <2>1, <4>2 DEF Raising
    <3> QED
      BY <3>1, <3>2 DEF PayoutAdds
  <2>2. CASE e # d
    <3>1. payout'[e] = payout[e] /\ PayoutAdds(e)
      BY <1>4, <2>2 DEF RewardInv
    <3>2. payout[e].to # c \/ c \in raced'
      BY <1>3 DEF Raising
    <3>3. \A x \in Contributors : x \notin raced' => x \notin raced
      BY <1>3
    <3>4. \A x \in Payouts : payout'[x].to \in {payout[x].to, c}
      BY <1>2, <1>4
    <3>5. payout[e].to \in Contributors /\ payout[e].to # c => paid'[payout[e].to] = paid[payout[e].to]
      BY <1>5
    <3> QED
      BY <1>3, <3>1, <3>2, <3>3, <3>4, <3>5 DEF PayoutAdds
  <2> QED
    BY <2>1, <2>2
<1>10. ReputationIsEarned'
  <2> SUFFICES ASSUME NEW x \in Contributors, ~Raising(x)', x \notin raced'
               PROVE  score'[x] = Smaller(Top, Default + Bonus * paid'[x])
    BY DEF ReputationIsEarned
  <2>1. x # c
    BY <1>2, <1>4 DEF Raising
  <2>2. ~Raising(x)
    BY <1>3, <1>4, <1>7, RewardFields DEF Raising, RewardInv
  <2> QED
    BY <1>3, <1>5, <2>1, <2>2 DEF RewardInv, ReputationIsEarned
<1> QED
  BY <1>6, <1>9, <1>10 DEF RewardInv

\* The score is read once the credit is written.
LEMMA ScoreRead ==
    ASSUME RewardInv, NEW d \in Payouts, ReadScore(d)
    PROVE  RewardInv'
<1>1. PICK c \in Contributors : c = payout[d].to
  BY DEF ReadScore, RewardInv, PayoutAdds
<1>2. PICK r \in PayoutJob : r = payout[d]
  BY RewardFields DEF RewardInv
<1>3. PICK n : n = [r EXCEPT !.step = "write", !.score = score[c]]
  OBVIOUS
<1>4. n.step = "write" /\ n.score = score[c] /\ n.to = c /\ n \in PayoutJob
  <2>1. score[c] \in Nat
    BY RewardFields DEF RewardInv
  <2>2. n.step = "write" /\ n.score = score[c] /\ n.to = r.to
    BY <1>2, <1>3 DEF PayoutJob
  <2>3. n \in PayoutJob
    BY <1>2, <1>3, <2>1 DEF PayoutJob
  <2> QED
    BY <1>1, <1>2, <2>2, <2>3
<1>5. /\ payout' = [payout EXCEPT ![d] = n] /\ UNCHANGED <<score, paid, raced>>
      /\ payout[d].step = "read"
  BY <1>1, <1>2, <1>3 DEF ReadScore
<1>6. /\ payout'[d] = n /\ payout' \in [Payouts -> PayoutJob]
      /\ \A e \in Payouts : e # d => payout'[e] = payout[e]
  BY <1>4, <1>5 DEF RewardInv, RewardTypeOK
<1>7. \A e \in Payouts : payout'[e].to = payout[e].to
  BY <1>1, <1>4, <1>6
<1>8. RewardTypeOK'
  BY <1>5, <1>6 DEF RewardInv, RewardTypeOK
<1>9. ASSUME NEW e \in Payouts PROVE PayoutAdds(e)'
  <2>1. PayoutAdds(e)
    BY DEF RewardInv
  <2>2. CASE e = d
    BY <1>1, <1>4, <1>5, <1>6, <1>7, <2>1, <2>2, RewardFields DEF PayoutAdds, RewardInv
  <2>3. CASE e # d
    BY <1>5, <1>6, <1>7, <2>1, <2>3 DEF PayoutAdds
  <2> QED
    BY <2>2, <2>3
<1>10. ReputationIsEarned'
  BY <1>5, <1>7 DEF RewardInv, ReputationIsEarned, Raising
<1> QED
  BY <1>8, <1>9, <1>10 DEF RewardInv

\* The score is written back, with the points: a lone payout has read the last one.
LEMMA ScoreWritten ==
    ASSUME RewardInv, NEW d \in Payouts, WriteScore(d)
    PROVE  RewardInv'
<1>1. PICK c \in Contributors : c = payout[d].to
  BY DEF WriteScore, RewardInv, PayoutAdds
<1>2. PICK s : s = Smaller(Top, payout[d].score + Bonus)
  OBVIOUS
<1>3. /\ payout[d].step = "write" /\ payout' = [payout EXCEPT ![d] = IdlePayout]
      /\ score' = [score EXCEPT ![c] = s] /\ UNCHANGED <<paid, raced>>
  BY <1>1, <1>2 DEF WriteScore
<1>4. PICK old \in Default .. Top : old = payout[d].score /\ (c \notin raced => old = score[c])
  BY <1>1, <1>3 DEF RewardInv, PayoutAdds
<1>5. s \in Default .. Top
  BY <1>2, <1>4, RewardFields DEF Smaller, RewardInv
<1>6. /\ payout'[d] = IdlePayout /\ payout' \in [Payouts -> PayoutJob]
      /\ \A e \in Payouts : e # d => payout'[e] = payout[e]
  BY <1>3, RewardFields DEF RewardInv, RewardTypeOK
<1>7. /\ score'[c] = s /\ score' \in [Contributors -> Default .. Top]
      /\ \A x \in Contributors : x # c => score'[x] = score[x]
  BY <1>3, <1>5 DEF RewardInv, RewardTypeOK
<1>8. RewardTypeOK'
  BY <1>3, <1>6, <1>7 DEF RewardInv, RewardTypeOK
<1>9. ASSUME c \notin raced
      PROVE  s = Earned(paid[c]) /\ \A e \in Payouts : payout[e].to = c => e = d
  <2>1. /\ paid[c] > 0 /\ score[c] = Earned(paid[c] - 1)
        /\ \A e \in Payouts : payout[e].to = c => e = d
    BY <1>1, <1>3, <1>9 DEF RewardInv, PayoutAdds
  <2>2. s = Smaller(Top, Earned(paid[c] - 1) + Bonus)
    BY <1>2, <1>4, <1>9, <2>1
  <2>3. paid[c] \in Nat
    BY RewardFields DEF RewardInv
  <2> QED
    BY <2>1, <2>2, <2>3, EarnedMore
<1>10. ASSUME NEW e \in Payouts PROVE PayoutAdds(e)'
  <2>1. CASE e = d
    BY <1>6, <2>1, RewardFields DEF PayoutAdds, RewardInv
  <2>2. CASE e # d
    <3>1. payout'[e] = payout[e] /\ PayoutAdds(e)
      BY <1>6, <2>2 DEF RewardInv
    <3>2. payout[e].to = c => c \in raced
      BY <1>9, <2>2
    <3>3. \A x \in Payouts : payout'[x].to = payout[x].to \/ payout'[x].to = NoContributor
      BY <1>6, RewardFields DEF RewardInv
    <3>4. payout[e].to \in Contributors /\ payout[e].to # c => score'[payout[e].to] = score[payout[e].to]
      BY <1>7
    <3> QED
      BY <1>3, <3>1, <3>2, <3>3, <3>4, RewardFields DEF PayoutAdds, RewardInv
  <2> QED
    BY <2>1, <2>2
<1>11. ReputationIsEarned'
  <2> SUFFICES ASSUME NEW x \in Contributors, ~Raising(x)', x \notin raced'
               PROVE  score'[x] = Smaller(Top, Default + Bonus * paid'[x])
    BY DEF ReputationIsEarned
  <2>1. CASE x = c
    BY <1>3, <1>7, <1>9, <2>1 DEF Earned
  <2>2. CASE x # c
    <3>1. ~Raising(x)
      BY <1>1, <1>6, <2>2 DEF Raising
    <3> QED
      BY <1>3, <1>7, <2>2, <3>1 DEF RewardInv, ReputationIsEarned
  <2> QED
    BY <2>1, <2>2
<1> QED
  BY <1>8, <1>10, <1>11 DEF RewardInv

\* A payout that dies half way has its contributor remembered.
LEMMA PayoutDropped ==
    ASSUME RewardInv, NEW d \in Payouts, DropPayout(d)
    PROVE  RewardInv'
<1>1. PICK c \in Contributors : c = payout[d].to
  BY DEF DropPayout, RewardInv, PayoutAdds
<1>2. /\ payout' = [payout EXCEPT ![d] = IdlePayout] /\ raced' = raced \cup {c}
      /\ UNCHANGED <<score, paid>>
  BY <1>1 DEF DropPayout
<1>3. /\ payout'[d] = IdlePayout /\ payout' \in [Payouts -> PayoutJob]
      /\ \A e \in Payouts : e # d => payout'[e] = payout[e]
  BY <1>2, RewardFields DEF RewardInv, RewardTypeOK
<1>4. RewardTypeOK'
  BY <1>2, <1>3 DEF RewardInv, RewardTypeOK
<1>5. ASSUME NEW e \in Payouts PROVE PayoutAdds(e)'
  <2>1. PayoutAdds(e)
    BY DEF RewardInv
  <2>2. \A x \in Payouts : payout'[x].to = payout[x].to \/ payout'[x].to = NoContributor
    BY <1>3, RewardFields DEF RewardInv
  <2>3. CASE e = d
    BY <1>3, <2>3, RewardFields DEF PayoutAdds, RewardInv
  <2>4. CASE e # d
    BY <1>2, <1>3, <2>1, <2>2, <2>4, RewardFields DEF PayoutAdds, RewardInv
  <2> QED
    BY <2>3, <2>4
<1>6. ReputationIsEarned'
  <2> SUFFICES ASSUME NEW x \in Contributors, ~Raising(x)', x \notin raced'
               PROVE  score'[x] = Smaller(Top, Default + Bonus * paid'[x])
    BY DEF ReputationIsEarned
  <2>1. x # c /\ ~Raising(x)
    BY <1>1, <1>2, <1>3 DEF Raising
  <2> QED
    BY <1>2, <2>1 DEF RewardInv, ReputationIsEarned
<1> QED
  BY <1>4, <1>5, <1>6 DEF RewardInv

\* A step that pays and raises nothing.
LEMMA RewardFrame ==
    ASSUME RewardInv, UNCHANGED <<score, payout, paid, raced>>
    PROVE  RewardInv'
  BY DEF RewardInv, RewardTypeOK, PayoutAdds, ReputationIsEarned, Raising

\* Every step of the market keeps the reputations earned.
LEMMA RewardStep == ASSUME RewardInv, [MarketNext]_marketVars PROVE RewardInv'
<1>1. CASE UNCHANGED <<score, payout, paid, raced>>
  BY <1>1, RewardFrame
<1>2. CASE UNCHANGED marketVars
  BY <1>1, <1>2 DEF marketVars
<1>3. ASSUME NEW t \in Tasks, NEW x \in Targets, EditTask(t, x) PROVE RewardInv'
  BY <1>1, <1>3 DEF EditTask
<1>4. ASSUME NEW t \in Tasks, ChangeStatus(t) PROVE RewardInv'
  BY <1>1, <1>4 DEF ChangeStatus
<1>5. ASSUME NEW c \in Contributors, NEW x \in Profiles, EditProfile(c, x) PROVE RewardInv'
  BY <1>1, <1>5 DEF EditProfile
<1>6. ASSUME NEW h \in Appliers, Apply(h) PROVE RewardInv'
  BY <1>1, <1>6 DEF Apply, ApplyForTask, CheckRequirements, CountPlaces, InsertApplication,
                    DropApplier
<1>7. ASSUME NEW d \in Payouts, Reward(d) PROVE RewardInv'
  BY <1>7, PayoutMade, ScoreRead, ScoreWritten, PayoutDropped DEF Reward
<1> QED
  BY <1>2, <1>3, <1>4, <1>5, <1>6, <1>7 DEF MarketNext

\* What payouts in flight know of the scores, in every state.
THEOREM RewardInvariant == MarketSpec => []RewardInv
<1> QED
  BY RewardStart, RewardStep, PTL DEF MarketSpec

\* A reputation is what signup gave and every payout added, up to the top, unless two
\* payouts of the contributor overlapped or one died (updateReputationScore).
THEOREM ReputationEarned == MarketSpec => []ReputationIsEarned
<1>1. RewardInv => ReputationIsEarned
  BY DEF RewardInv
<1> QED
  BY <1>1, RewardInvariant, PTL

-----------------------------------------------------------------------------
(* Applications                                                             *)

\* Unless something moved under it, an application in flight has the campaign as it is,
\* and what it was told on the page, or found out since, still holds.
ApplierKnows(h) ==
    LET a == applier[h]
    IN  /\ a.step = "idle" => a.task = NoTask /\ a.by = NoContributor
        /\ a.step # "idle" =>
              /\ a.task \in Tasks /\ a.by \in Contributors
              /\ h \notin moved => a.task \in live /\ a.target = target[a.task]
              /\ h \notin moved /\ a.told =>
                    Meets(profile[a.by], target[a.task]) /\ app[a.task][a.by] = "NONE"
        /\ a.step \in {"count", "insert"} /\ h \notin moved =>
              Meets(profile[a.by], target[a.task])

MatchTypeOK ==
    /\ target \in [Tasks -> Targets] /\ live \subseteq Tasks
    /\ profile \in [Contributors -> Profiles]
    /\ app \in [Tasks -> [Contributors -> {"NONE", "APPROVED"}]]
    /\ applier \in [Appliers -> Applying]
    /\ moved \subseteq Appliers

MatchInv == MatchTypeOK /\ \A h \in Appliers : ApplierKnows(h)

\* What the rows of applications in flight hold.
LEMMA ApplierFields ==
    ASSUME MatchTypeOK
    PROVE  /\ \A h \in Appliers : /\ applier[h] \in Applying /\ applier[h].target \in Targets
                                  /\ applier[h].step \in {"idle", "check", "count", "insert"}
           /\ \A t \in Tasks : target[t] \in Targets
           /\ NotApplying \in Applying /\ NotApplying.step = "idle"
           /\ NotApplying.task = NoTask /\ NotApplying.by = NoContributor
           /\ NoTask \notin Tasks /\ NoContributor \notin Contributors
<1>1. AnyTarget \in Targets
  BY MarketAssumption DEF AnyTarget
<1> QED
  BY <1>1, MarketAssumption DEF MatchTypeOK, Applying, NotApplying

\* At first nobody applies.
LEMMA MatchStart == ASSUME MarketInit PROVE MatchInv
<1>1. AnyTarget \in Targets
  BY MarketAssumption DEF AnyTarget
<1>2. MatchTypeOK
  BY <1>1 DEF MarketInit, MatchTypeOK, Applying, NotApplying
<1>3. \A h \in Appliers : ApplierKnows(h)
  BY DEF MarketInit, ApplierKnows, NotApplying
<1> QED
  BY <1>2, <1>3 DEF MatchInv

\* What creators, contributors and staff change meanwhile is remembered of every
\* application it is about.
LEMMA MarketMoves ==
    ASSUME MatchInv, MatchTypeOK', NEW moves \in SUBSET Appliers, moved' = moved \cup moves,
           UNCHANGED <<app, applier>>,
           \A h \in Appliers \ moves :
              /\ applier[h].task \in Tasks =>
                    /\ target'[applier[h].task] = target[applier[h].task]
                    /\ applier[h].task \in live => applier[h].task \in live'
              /\ applier[h].by \in Contributors => profile'[applier[h].by] = profile[applier[h].by]
    PROVE  MatchInv'
<1> SUFFICES ASSUME NEW h \in Appliers PROVE ApplierKnows(h)'
  BY DEF MatchInv
<1>1. ApplierKnows(h) /\ applier'[h] = applier[h] /\ app' = app
  BY DEF MatchInv
<1>2. h \notin moved' => h \notin moved /\ h \notin moves
  OBVIOUS
<1> QED
  BY <1>1, <1>2, ApplierFields DEF ApplierKnows, MatchInv

\* An application in flight goes on, or ends, with what it knows.
LEMMA ApplierMoves ==
    ASSUME MatchInv, NEW h \in Appliers, NEW n \in Applying, applier' = [applier EXCEPT ![h] = n],
           moved' \in {moved, moved \ {h}}, UNCHANGED <<target, live, profile, app>>,
           ApplierKnows(h)'
    PROVE  MatchInv'
<1>1. \A g \in Appliers : g # h => applier'[g] = applier[g]
  BY DEF MatchInv, MatchTypeOK
<1>2. MatchTypeOK'
  BY DEF MatchInv, MatchTypeOK
<1>3. ASSUME NEW g \in Appliers, g # h PROVE ApplierKnows(g)'
  BY <1>1, <1>3 DEF MatchInv, ApplierKnows
<1> QED
  BY <1>2, <1>3 DEF MatchInv

\* The contributor applies: the handler has the campaign as it is, and was told the
\* truth by the page.
LEMMA Applied ==
    ASSUME MatchInv, NEW h \in Appliers, NEW t \in Tasks, NEW c \in Contributors,
           ApplyForTask(h, t, c)
    PROVE  MatchInv'
<1>1. CanApply(t, c) \in BOOLEAN
  BY DEF CanApply
<1>2. PICK n : n = [step |-> "check", task |-> t, by |-> c, target |-> target[t],
                    told |-> CanApply(t, c)]
  OBVIOUS
<1>3. n \in Applying
  <2>1. target[t] \in Targets
    BY ApplierFields DEF MatchInv
  <2> QED
    BY ONLY <1>1, <1>2, <2>1, t \in Tasks, c \in Contributors DEF Applying
<1>4. n.step = "check" /\ n.task = t /\ n.by = c /\ n.target = target[t]
  BY <1>2
<1>5. n.told <=> CanApply(t, c)
  BY <1>2
<1>6. /\ t \in live /\ applier' = [applier EXCEPT ![h] = n] /\ moved' = moved \ {h}
      /\ UNCHANGED <<target, live, profile, app>>
  BY <1>2 DEF ApplyForTask
<1>7. applier'[h] = n
  BY <1>6 DEF MatchInv, MatchTypeOK
<1>8. ApplierKnows(h)'
  BY <1>4, <1>5, <1>6, <1>7 DEF ApplierKnows, CanApply
<1> QED
  BY <1>3, <1>6, <1>8, ApplierMoves

\* A check that passes brings an application to the next step.
LEMMA ApplierPasses ==
    ASSUME MatchInv, NEW h \in Appliers, applier[h].step # "idle",
           NEW step \in {"count", "insert"}, applier' = [applier EXCEPT ![h].step = step],
           h \notin moved => Meets(profile[applier[h].by], target[applier[h].task]),
           UNCHANGED <<target, live, profile, app, moved>>
    PROVE  MatchInv'
<1>1. PICK r \in Applying : r = applier[h]
  BY ApplierFields DEF MatchInv
<1>2. PICK n : n = [r EXCEPT !.step = step]
  OBVIOUS
<1>3. n.step = step /\ n.task = r.task /\ n.by = r.by /\ n.target = r.target
  BY <1>2 DEF Applying
<1>4. n.told = r.told
  BY <1>2 DEF Applying
<1>5. n \in Applying
  BY <1>2 DEF Applying
<1>6. applier' = [applier EXCEPT ![h] = n] /\ applier'[h] = n
  BY <1>1, <1>2 DEF MatchInv, MatchTypeOK
<1>7. ApplierKnows(h)'
  BY <1>1, <1>3, <1>4, <1>6 DEF ApplierKnows, MatchInv
<1> QED
  BY <1>5, <1>6, <1>7, ApplierMoves

\* An application that is refused, or dies, leaves nothing.
LEMMA ApplierEnds ==
    ASSUME MatchInv, NEW h \in Appliers, DropApplier(h)
    PROVE  MatchInv'
<1>1. /\ applier' = [applier EXCEPT ![h] = NotApplying] /\ moved' = moved \ {h}
      /\ UNCHANGED <<target, live, profile, app>>
  BY DEF DropApplier
<1>2. applier'[h] = NotApplying
  BY <1>1 DEF MatchInv, MatchTypeOK
<1>3. ApplierKnows(h)'
  BY <1>2, ApplierFields DEF ApplierKnows, MatchInv
<1> QED
  BY <1>1, <1>3, ApplierMoves, ApplierFields DEF MatchInv

\* The application is written, approved as every reputation is above the threshold; of
\* others by the same contributor for the same campaign it is remembered.
LEMMA ApplicationInserted ==
    ASSUME MatchInv, RewardInv, NEW h \in Appliers, InsertApplication(h)
    PROVE  MatchInv'
<1>1. PICK t \in Tasks, c \in Contributors : t = applier[h].task /\ c = applier[h].by
  BY DEF InsertApplication, MatchInv, ApplierKnows
<1>2. MeetsMinimumReputation(c)
  <2>1. score[c] \in Default .. Top
    BY RewardFields DEF RewardInv
  <2> QED
    BY <2>1, MarketAssumption DEF MeetsMinimumReputation, GetReputationScore
<1>3. /\ app' = [app EXCEPT ![t][c] = "APPROVED"] /\ applier' = [applier EXCEPT ![h] = NotApplying]
      /\ moved' = (moved \ {h}) \cup
                     {g \in Appliers \ {h} : applier[g].task = t /\ applier[g].by = c}
      /\ UNCHANGED <<target, live, profile>>
  BY <1>1, <1>2 DEF InsertApplication
<1>4. /\ applier'[h] = NotApplying /\ applier' \in [Appliers -> Applying]
      /\ \A g \in Appliers : g # h => applier'[g] = applier[g]
  BY <1>3, ApplierFields DEF MatchInv, MatchTypeOK
<1>5. /\ app' \in [Tasks -> [Contributors -> {"NONE", "APPROVED"}]]
      /\ \A u \in Tasks, x \in Contributors : u # t \/ x # c => app'[u][x] = app[u][x]
  BY <1>3 DEF MatchInv, MatchTypeOK
<1>6. MatchTypeOK'
  BY <1>3, <1>4, <1>5 DEF MatchInv, MatchTypeOK
<1>7. ASSUME NEW g \in Appliers PROVE ApplierKnows(g)'
  <2>1. CASE g = h
    BY <1>4, <2>1, ApplierFields DEF ApplierKnows, MatchInv
  <2>2. CASE g # h
    <3>1. ApplierKnows(g) /\ applier'[g] = applier[g]
      BY <1>4, <2>2 DEF MatchInv
    <3>2. g \notin moved' => g \notin moved /\ (applier[g].task # t \/ applier[g].by # c)
      BY <1>3, <2>2
    <3> QED
      BY <1>3, <1>5, <3>1, <3>2 DEF ApplierKnows
  <2> QED
    BY <2>1, <2>2
<1> QED
  BY <1>6, <1>7 DEF MatchInv

\* What creators, contributors and staff change is one of the changes above.
LEMMA MarketChanges ==
    ASSUME MatchInv, \/ \E t \in Tasks, x \in Targets : EditTask(t, x)
                     \/ \E t \in Tasks : ChangeStatus(t)
                     \/ \E c \in Contributors, x \in Profiles : EditProfile(c, x)
    PROVE  MatchInv'
<1>1. ASSUME NEW t \in Tasks, NEW x \in Targets, EditTask(t, x) PROVE MatchInv'
  <2>1. PICK moves \in SUBSET Appliers : moves = {h \in Appliers : applier[h].task = t}
    OBVIOUS
  <2>2. /\ target' = [target EXCEPT ![t] = x] /\ moved' = moved \cup moves
        /\ UNCHANGED <<live, profile, app, applier>>
    BY <1>1, <2>1 DEF EditTask
  <2>3. MatchTypeOK' /\ \A u \in Tasks : u # t => target'[u] = target[u]
    BY <2>2 DEF MatchInv, MatchTypeOK
  <2> QED
    BY <2>1, <2>2, <2>3, MarketMoves
<1>2. ASSUME NEW t \in Tasks, ChangeStatus(t) PROVE MatchInv'
  <2>1. PICK moves \in SUBSET Appliers : moves = {h \in Appliers : applier[h].task = t}
    OBVIOUS
  <2>2. /\ live' \in {live \ {t}, live \cup {t}} /\ moved' = moved \cup moves
        /\ UNCHANGED <<target, profile, app, applier>>
    BY <1>2, <2>1 DEF ChangeStatus
  <2>3. MatchTypeOK' /\ \A u \in Tasks : u # t /\ u \in live => u \in live'
    BY <2>2 DEF MatchInv, MatchTypeOK
  <2> QED
    BY <2>1, <2>2, <2>3, MarketMoves
<1>3. ASSUME NEW c \in Contributors, NEW x \in Profiles, EditProfile(c, x) PROVE MatchInv'
  <2>1. PICK moves \in SUBSET Appliers : moves = {h \in Appliers : applier[h].by = c}
    OBVIOUS
  <2>2. /\ profile' = [profile EXCEPT ![c] = x] /\ moved' = moved \cup moves
        /\ UNCHANGED <<target, live, app, applier>>
    BY <1>3, <2>1 DEF EditProfile
  <2>3. MatchTypeOK' /\ \A y \in Contributors : y # c => profile'[y] = profile[y]
    BY <2>2 DEF MatchInv, MatchTypeOK
  <2> QED
    BY <2>1, <2>2, <2>3, MarketMoves
<1> QED
  BY <1>1, <1>2, <1>3

\* Every step keeps what applications in flight know.
LEMMA MatchStep == ASSUME MatchInv, RewardInv, [MarketNext]_marketVars PROVE MatchInv'
<1>1. CASE UNCHANGED <<target, live, profile, app, applier, moved>>
  BY <1>1 DEF MatchInv, MatchTypeOK, ApplierKnows
<1>2. CASE UNCHANGED marketVars
  BY <1>1, <1>2 DEF marketVars
<1>3. ASSUME NEW h \in Appliers, Apply(h) PROVE MatchInv'
  <2>1. CASE CheckRequirements(h)
    <3>1. /\ applier[h].step = "check" /\ Meets(profile[applier[h].by], applier[h].target)
          /\ applier' = [applier EXCEPT ![h].step = "count"]
          /\ UNCHANGED <<target, live, profile, app, moved>>
      BY <2>1 DEF CheckRequirements
    <3>2. h \notin moved => applier[h].target = target[applier[h].task]
      BY <3>1 DEF MatchInv, ApplierKnows
    <3> QED
      BY <3>1, <3>2, ApplierPasses
  <2>2. CASE CountPlaces(h)
    <3>1. /\ applier[h].step = "count" /\ applier' = [applier EXCEPT ![h].step = "insert"]
          /\ UNCHANGED <<target, live, profile, app, moved>>
      BY <2>2 DEF CountPlaces
    <3>2. h \notin moved => Meets(profile[applier[h].by], target[applier[h].task])
      BY <3>1 DEF MatchInv, ApplierKnows
    <3> QED
      BY <3>1, <3>2, ApplierPasses
  <2> QED
    BY <1>3, <2>1, <2>2, Applied, ApplicationInserted, ApplierEnds DEF Apply
<1>4. ASSUME NEW d \in Payouts, Reward(d) PROVE MatchInv'
  BY <1>1, <1>4 DEF Reward, Pay, ReadScore, WriteScore, DropPayout
<1> QED
  BY <1>2, <1>3, <1>4, MarketChanges DEF MarketNext

\* What applications in flight know of campaigns and profiles, in every state.
THEOREM MarketInvariant == MarketSpec => [](MatchInv /\ RewardInv)
<1> QED
  BY MatchStart, RewardStart, MatchStep, RewardStep, PTL DEF MarketSpec

\* Every variable of the market has its type.
THEOREM MarketTypes == MarketSpec => []MarketTypeOK
<1>1. MatchInv /\ RewardInv => MarketTypeOK
  BY MarketAssumption DEF MatchInv, RewardInv, MatchTypeOK, RewardTypeOK, MarketTypeOK
<1> QED
  BY <1>1, MarketInvariant, PTL

\* As shipped, no application waits for an approval that no endpoint gives
\* (applyForTask, meetsMinimumReputation).
THEOREM EveryApplicationApproved == MarketSpec => []NobodyWaits
<1>1. MatchInv => NobodyWaits
  BY DEF MatchInv, MatchTypeOK, NobodyWaits
<1> QED
  BY <1>1, MarketInvariant, PTL

\* Whom the job page told to apply is refused only when others have the places, or
\* something changed since (buildMarketplaceEligibility, applyForTask).
THEOREM PageTruth == MarketSpec => []PageTellsTruth
<1>1. MatchInv => PageTellsTruth
  <2> SUFFICES ASSUME MatchInv, NEW h \in Appliers, applier[h].told, Refused(h), h \notin moved
               PROVE  Cardinality(Filled(applier[h].task) \ {applier[h].by}) >= Places
    BY DEF PageTellsTruth
  <2>1. applier[h].step \in {"check", "count"}
    BY DEF Refused
  <2>2. /\ applier[h].by \in Contributors /\ applier[h].target = target[applier[h].task]
        /\ Meets(profile[applier[h].by], target[applier[h].task])
        /\ app[applier[h].task][applier[h].by] = "NONE"
    BY <2>1 DEF MatchInv, ApplierKnows
  <2>3. Cardinality(Filled(applier[h].task)) >= Places
    BY <2>2 DEF Refused
  <2>4. Filled(applier[h].task) \ {applier[h].by} = Filled(applier[h].task)
    BY <2>2 DEF Filled
  <2> QED
    BY <2>3, <2>4
<1> QED
  BY <1>1, MarketInvariant, PTL

\* Age and interests, once the audience is read.
LEMMA AudienceMet ==
    ASSUME NEW p, NEW t \in Targets,
           MeetsAge(p.age, t.audience), MeetsInterests(p.interests, t.audience)
    PROVE  OfAge(p, t) /\ Interested(p, t)
<1> DEFINE topics == Topics(t.audience)
           shared == {i \in topics : Cares(p, i)}
           cold == {i \in topics : ~Cares(p, i)}
<1>1. t.audience.from \in Nat /\ t.audience.to \in Nat
  BY MarketAssumption
<1>2. OfAge(p, t)
  <2>1. ASSUME t.audience.ages = "range" PROVE p.age >= t.audience.from /\ p.age <= t.audience.to
    BY <1>1, <2>1 DEF MeetsAge, HasRange, AgeRange
  <2>2. ASSUME t.audience.ages = "plus" PROVE p.age >= t.audience.from
    BY <1>1, <2>2 DEF MeetsAge, HasRange, AgeRange
  <2>3. ASSUME t.audience.ages = "single", t.audience.from \in 13 .. 65
        PROVE  p.age \in 13 .. 65 /\ p.age - t.audience.from \in (-5) .. 5
    BY <1>1, <2>3 DEF MeetsAge, HasRange, AgeRange, Larger, Smaller
  <2> QED
    BY <2>1, <2>2, <2>3 DEF OfAge, MeetsAge
<1>3. p.interests # {} /\ 2 * Cardinality(shared) >= Cardinality(topics)
  BY DEF MeetsInterests, Cares
<1>4. IsFiniteSet(topics) /\ shared \subseteq topics /\ cold = topics \ shared
  BY MarketAssumption, FS_Subset DEF Topics
<1> HIDE DEF topics, shared, cold
<1>5. /\ Cardinality(topics) \in Nat /\ Cardinality(shared) \in Nat
      /\ Cardinality(cold) = Cardinality(topics) - Cardinality(topics \cap shared)
  BY <1>4, FS_CardinalityType, FS_Difference, FS_Subset
<1>6. topics \cap shared = shared
  BY <1>4
<1>7. Cardinality(cold) = Cardinality(topics) - Cardinality(shared)
  BY <1>5, <1>6
<1>8. Cardinality(cold) <= Cardinality(shared)
  BY <1>3, <1>5, <1>7
<1> QED
  BY <1>2, <1>3, <1>8 DEF Interested, topics, shared, cold

\* The checks of applyForTask let nobody through whom the campaign is not for, but for a
\* blank city or state.
LEMMA MeetsThenSuits == ASSUME NEW p, NEW t \in Targets, Meets(p, t) PROVE Suits(p, t)
<1>1. p.complete
  BY DEF Meets
<1>2. ASSUME t.targeted
      PROVE  /\ t.locations # {} => Resides(p, t) \/ Blank \in {p.city, p.state}
             /\ t.audience.text # Blank => OfAge(p, t) /\ Interested(p, t)
             /\ Present(p, t)
             /\ t.gender # "ALL" => p.gender = t.gender
             /\ t.english
  <2>1. /\ MeetsLocation(p.city, p.state, t.locations) /\ MatchesTargetGender(p.gender, t.gender)
        /\ MeetsPlatforms(p.handles, t.platforms)
        /\ t.audience.text # Blank =>
              MeetsAge(p.age, t.audience) /\ MeetsInterests(p.interests, t.audience)
        /\ t.english
    BY <1>2 DEF Meets
  <2>2. ASSUME t.locations # {}, Blank \notin {p.city, p.state} PROVE Resides(p, t)
    BY <2>1, <2>2 DEF MeetsLocation, Resides
  <2>3. Present(p, t)
    <3>1. \A q \in t.platforms : q \in p.handles \/ Platform(q) \in p.handles
      BY <2>1 DEF MeetsPlatforms
    <3>2. \A q : Platform(Platform(q)) = Platform(q)
      BY DEF Platform
    <3> QED
      BY <3>1, <3>2 DEF Present
  <2> QED
    BY <2>1, <2>2, <2>3, AudienceMet DEF MatchesTargetGender
<1> QED
  BY <1>1, <1>2 DEF Suits

\* Only contributors a campaign is aimed at - by place, age, interests, platforms, gender
\* and language - come to work on it, and only while it is active, unless something
\* changed while they applied (applyForTask).
THEOREM OnlySuitableApply == MarketSpec => ApplicantsSuit
<1>1. MatchInv /\ [MarketNext]_marketVars =>
        [\A h \in Appliers : \A t \in Tasks :
            applier[h].step = "insert" /\ applier[h].task = t /\ app'[t] # app[t] =>
               (t \in live /\ Suits(profile[applier[h].by], target[t])) \/ h \in moved]_marketVars
  <2> SUFFICES ASSUME MatchInv, NEW h \in Appliers, NEW t \in Tasks, h \notin moved,
                      applier[h].step = "insert", applier[h].task = t
               PROVE  t \in live /\ Suits(profile[applier[h].by], target[t])
    OBVIOUS
  <2>1. t \in live /\ Meets(profile[applier[h].by], target[t])
    BY DEF MatchInv, ApplierKnows
  <2>2. target[t] \in Targets
    BY DEF MatchInv, MatchTypeOK
  <2> QED
    BY <2>1, <2>2, MeetsThenSuits
<1> QED
  BY <1>1, MarketInvariant, PTL DEF MarketSpec, ApplicantsSuit

-----------------------------------------------------------------------------
(* Accounts                                                                 *)

\* The handler h has begun to change what p's account says about a matter.
Works(h, p, m) == hand[h].who = p /\ m \in About(hand[h].op) /\ hand[h].step # "create"

\* Nothing is under way, and the account agrees with what its owner, the audit log and
\* the referrals say.
Clear(p, m) ==
    CASE m = "pass" -> knows[p].own => account[p].pass = knows[p].pass
      [] m = "code" -> account[p].role = "USER" =>
            account[p].code = IF account[p].verified THEN NoSecret ELSE knows[p].code
      [] m = "status" -> /\ account[p].status = "SUSPENDED" <=> trail[p] = "SUSPENDED"
                         /\ account[p].role # "USER" => trail[p] # "NONE"
      [] m = "referral" -> \A r \in People : <<r, p>> \in referrals <=> account[p].refBy = r

\* What a handler that is alone has still to say, or has not begun to change.
Due(h, m) ==
    LET j == hand[h]  p == hand[h].who
    IN  CASE m = "pass" -> /\ j.step = "set" => Clear(p, m)
                           /\ j.step \in {"answer", "mail"} =>
                                 /\ account[p].pass = j.secret
                                 /\ knows[p].own <=> j.op # "reset"
          [] m = "code" -> /\ j.step \in {"recode", "verify"} => Clear(p, m)
                           /\ j.step = "recode" => ~account[p].verified
                           /\ j.step \in {"stub", "refer", "answer"} =>
                                 ~account[p].verified /\ account[p].code = j.secret
          [] m = "status" -> /\ j.step = "status" => Clear(p, m)
                             /\ j.step = "audit" => account[p].status = StatusOf(j.op)
          [] m = "referral" -> /\ j.step \in {"adopt", "answer"} => Clear(p, m)
                               /\ j.step = "adopt" => account[p].refBy = NoOne
                               /\ j.step \in {"stub", "refer"} =>
                                     /\ account[p].refBy = j.row.refBy
                                     /\ \A r \in People : <<r, p>> \notin referrals

MatterHolds(p, m) ==
    Exists(p) /\ <<p, m>> \notin strayed =>
        /\ \A g, h \in Hands : Works(g, p, m) /\ Works(h, p, m) => g = h
        /\ \A h \in Hands : Works(h, p, m) => Due(h, m)
        /\ (\A h \in Hands : ~Works(h, p, m)) => Clear(p, m)

Unheard(p) == ~Exists(p) => trail[p] = "NONE" /\ \A r \in People : <<r, p>> \notin referrals

\* The steps of each operation, and what the rows to be created hold.
HandHolds(h) ==
    LET j == hand[h]
    IN  /\ j.step = "idle" => j.op = "none" /\ j.who = NoOne
        /\ j.step # "idle" => j.op # "none" /\ j.who \in People
        /\ j.op = "signup" => j.step \in {"create", "stub", "refer", "answer"}
        /\ j.op = "resend" => j.step \in {"recode", "answer"}
        /\ j.op = "verify" => j.step = "verify"
        /\ j.op \in {"change", "reset"} => j.step \in {"set", "answer"}
        /\ j.op = "forgot" => j.step \in {"set", "mail"}
        /\ j.op \in {"suspend", "unsuspend"} => j.step \in {"status", "audit"}
        /\ j.op = "enlist" => j.step \in {"create", "audit"}
        /\ j.op = "apply" => j.step \in {"adopt", "refer"}
        /\ j.step \notin {"idle", "create"} => Exists(j.who)
        /\ j.step = "create" => /\ j.row.pass = j.secret /\ j.row.status = "ACTIVE"
                                /\ j.op = "signup" => /\ j.row.role = "USER" /\ ~j.row.verified
                                                      /\ j.row.code = j.secret
                                /\ j.op = "enlist" => /\ j.row.role \in {"ADMIN", "SUPERADMIN"}
                                                      /\ j.row.refBy = NoOne
        /\ j.step \in {"refer", "adopt"} => j.row.refBy \in People

AccountsInv ==
    /\ AccountsTypeOK
    /\ \A h \in Hands : HandHolds(h)
    /\ \A p \in People : Unheard(p) /\ \A m \in Matters : MatterHolds(p, m)
    /\ \A p \in People : token[p] # "none" => Exists(p)

\* What each operation is about.
LEMMA AboutOps ==
    /\ About("none") = {} /\ About("signup") = {"code", "referral"}
    /\ About("resend") = {"code"} /\ About("verify") = {"code"}
    /\ About("change") = {"pass"} /\ About("forgot") = {"pass"} /\ About("reset") = {"pass"}
    /\ About("suspend") = {"status"} /\ About("unsuspend") = {"status"}
    /\ About("enlist") = {"status"} /\ About("apply") = {"referral"}
  BY DEF About

\* What rows and handlers hold, one field at a time.
LEMMA AccountFields ==
    ASSUME AccountsTypeOK
    PROVE  /\ \A p \in People : /\ account[p] \in Account /\ account[p].refBy \in Somebody
                                /\ knows[p].pass \in Secret /\ knows[p].code \in Secret
           /\ \A h \in Hands : /\ hand[h] \in Job /\ hand[h].row \in Account
                               /\ hand[h].secret \in Secret /\ hand[h].who \in Somebody
                               /\ hand[h].op \in Ops /\ hand[h].step \in Steps
           /\ NoOne \notin People /\ NoSecret \notin Secrets
<1>1. \A p \in People : account[p] \in Account /\ account[p].refBy \in Somebody
  BY DEF AccountsTypeOK, Account
<1>2. \A p \in People : knows[p].pass \in Secret /\ knows[p].code \in Secret
  BY DEF AccountsTypeOK
<1>3. \A h \in Hands : hand[h] \in Job
  BY DEF AccountsTypeOK
<1>4. \A h \in Hands : /\ hand[h].row \in Account /\ hand[h].secret \in Secret
                       /\ hand[h].who \in Somebody
                       /\ hand[h].op \in Ops /\ hand[h].step \in Steps
  BY <1>3 DEF Job
<1> QED
  BY <1>1, <1>2, <1>3, <1>4, AccountsAssumption

\* No row, and no handler.
LEMMA RowConstants ==
    /\ NewRow \in Account /\ NoRow \in Account /\ Idle \in Job
    /\ NewRow.role = "USER" /\ NewRow.status = "ACTIVE" /\ NewRow.verified = FALSE
    /\ NewRow.refBy = NoOne /\ NoRow.role = "NONE"
    /\ Idle.step = "idle" /\ Idle.op = "none" /\ Idle.who = NoOne
<1>1. NewRow \in Account
  BY DEF NewRow, Account, Secret, Somebody
<1>2. /\ NewRow.role = "USER" /\ NewRow.status = "ACTIVE" /\ NewRow.verified = FALSE
      /\ NewRow.refBy = NoOne
  BY DEF NewRow
<1>3. NoRow \in Account
  BY <1>1 DEF NoRow, Account
<1>4. NoRow.role = "NONE"
  BY <1>1 DEF NoRow, Account
<1>5. Idle \in Job
  BY <1>3 DEF Idle, Job, Secret, Somebody, Ops, Steps
<1>6. Idle.step = "idle" /\ Idle.op = "none" /\ Idle.who = NoOne
  BY DEF Idle
<1> QED
  BY <1>1, <1>2, <1>3, <1>4, <1>5, <1>6

\* A handler goes on to another step.
LEMMA HandGoes ==
    ASSUME AccountsTypeOK, NEW h \in Hands, NEW step \in Steps, Go(h, step)
    PROVE  /\ hand' \in [Hands -> Job]
           /\ hand'[h].step = step /\ hand'[h].op = hand[h].op /\ hand'[h].who = hand[h].who
           /\ hand'[h].row = hand[h].row /\ hand'[h].secret = hand[h].secret
           /\ \A g \in Hands : g # h => hand'[g] = hand[g]
<1>1. PICK r \in Job : r = hand[h]
  BY AccountFields
<1>2. PICK n : n = [r EXCEPT !.step = step]
  OBVIOUS
<1>3. /\ n.step = step /\ n.op = r.op /\ n.who = r.who /\ n.row = r.row /\ n.secret = r.secret
      /\ n \in Job
  BY <1>2 DEF Job
<1>4. hand' = [hand EXCEPT ![h] = n]
  BY <1>1, <1>2 DEF Go
<1>5. /\ hand'[h] = n /\ hand' \in [Hands -> Job]
      /\ \A g \in Hands : g # h => hand'[g] = hand[g]
  BY <1>3, <1>4 DEF AccountsTypeOK
<1> QED
  BY <1>1, <1>3, <1>5

\* A handler ends.
LEMMA HandEnds ==
    ASSUME AccountsTypeOK, NEW h \in Hands, Release(h)
    PROVE  /\ hand' \in [Hands -> Job] /\ hand'[h] = Idle
           /\ hand'[h].step = "idle" /\ hand'[h].op = "none" /\ hand'[h].who = NoOne
           /\ \A g \in Hands : g # h => hand'[g] = hand[g]
<1>1. hand' = [hand EXCEPT ![h] = Idle]
  BY DEF Release
<1>2. /\ hand' \in [Hands -> Job] /\ hand'[h] = Idle
      /\ \A g \in Hands : g # h => hand'[g] = hand[g]
  BY <1>1, RowConstants DEF AccountsTypeOK
<1> QED
  BY <1>2, RowConstants

\* The row of a handler's user is written.
LEMMA RowWritten ==
    ASSUME AccountsTypeOK, NEW h \in Hands, NEW p \in People, hand[h].who = p, NEW n \in Account,
           Put(h, n)
    PROVE  /\ account' \in [People -> Account] /\ account'[p] = n
           /\ \A q \in People : q # p => account'[q] = account[q]
<1>1. account' = [account EXCEPT ![p] = n]
  BY DEF Put
<1> QED
  BY <1>1 DEF AccountsTypeOK

\* The owner is told a password or a code.
LEMMA OwnerTold ==
    ASSUME AccountsTypeOK, NEW p \in People, NEW what \in {"pass", "code"}, NEW s \in Secret,
           Tell(p, what, s)
    PROVE  /\ knows' \in [People -> [pass : Secret, code : Secret, own : BOOLEAN]]
           /\ what = "pass" => knows'[p].pass = s /\ knows'[p].code = knows[p].code
           /\ what = "code" => knows'[p].code = s /\ knows'[p].pass = knows[p].pass
           /\ knows'[p].own = knows[p].own
           /\ \A q \in People : q # p => knows'[q] = knows[q]
<1>1. PICK r \in [pass : Secret, code : Secret, own : BOOLEAN] : r = knows[p]
  BY DEF AccountsTypeOK
<1>2. PICK n : n = [r EXCEPT ![what] = s]
  OBVIOUS
<1>3. /\ n \in [pass : Secret, code : Secret, own : BOOLEAN] /\ n.own = r.own
      /\ what = "pass" => n.pass = s /\ n.code = r.code
      /\ what = "code" => n.code = s /\ n.pass = r.pass
  <2>1. CASE what = "pass"
    BY <1>2, <2>1
  <2>2. CASE what = "code"
    BY <1>2, <2>2
  <2> QED
    BY <2>1, <2>2
<1>4. knows' = [knows EXCEPT ![p] = n]
  BY <1>1, <1>2 DEF Tell
<1>5. /\ knows' \in [People -> [pass : Secret, code : Secret, own : BOOLEAN]] /\ knows'[p] = n
      /\ \A q \in People : q # p => knows'[q] = knows[q]
  BY <1>3, <1>4 DEF AccountsTypeOK
<1> QED
  BY <1>1, <1>3, <1>5

\* What an account says about a matter is not changed.
SameFor(p, m) ==
    CASE m = "pass" -> /\ account'[p].pass = account[p].pass
                       /\ knows'[p].pass = knows[p].pass /\ knows'[p].own = knows[p].own
      [] m = "code" -> /\ account'[p].role = account[p].role /\ account'[p].code = account[p].code
                       /\ account'[p].verified <=> account[p].verified
                       /\ knows'[p].code = knows[p].code
      [] m = "status" -> /\ account'[p].role = account[p].role
                         /\ account'[p].status = account[p].status /\ trail'[p] = trail[p]
      [] m = "referral" -> /\ account'[p].refBy = account[p].refBy
                           /\ \A r \in People : <<r, p>> \in referrals' <=> <<r, p>> \in referrals

\* Then the account agrees when it did, and handlers owe what they owed.
LEMMA SameClear ==
    ASSUME NEW p \in People, NEW m \in Matters, SameFor(p, m)
    PROVE  /\ Clear(p, m)' <=> Clear(p, m)
           /\ \A g \in Hands : hand[g].who = p /\ hand'[g] = hand[g] => (Due(g, m)' <=> Due(g, m))
<1>1. CASE m = "pass"
  BY <1>1 DEF SameFor, Clear, Due
<1>2. CASE m = "code"
  BY <1>2 DEF SameFor, Clear, Due
<1>3. CASE m = "status"
  BY <1>3 DEF SameFor, Clear, Due
<1>4. CASE m = "referral"
  BY <1>4 DEF SameFor, Clear, Due
<1> QED
  BY <1>1, <1>2, <1>3, <1>4 DEF Matters

\* A step of one handler leaves a matter it is not about as it is.
LEMMA MatterKept ==
    ASSUME NEW h \in Hands, NEW p \in People, NEW m \in Matters, MatterHolds(p, m), Exists(p),
           ~Works(h, p, m), ~Works(h, p, m)', \A g \in Hands : g # h => hand'[g] = hand[g],
           strayed \subseteq strayed', SameFor(p, m)
    PROVE  MatterHolds(p, m)'
<1>1. \A g \in Hands : Works(g, p, m)' <=> Works(g, p, m)
  BY DEF Works
<1>2. \A g \in Hands : Works(g, p, m) => hand[g].who = p /\ hand'[g] = hand[g]
  BY DEF Works
<1>3. Clear(p, m)' <=> Clear(p, m)
  BY SameClear
<1>4. \A g \in Hands : Works(g, p, m) => (Due(g, m)' <=> Due(g, m))
  BY <1>2, SameClear
<1> QED
  BY <1>1, <1>3, <1>4 DEF MatterHolds

\* A step of the handler that works on a matter: it owes less, or nothing and is done.
LEMMA MatterMoves ==
    ASSUME NEW h \in Hands, NEW p \in People, NEW m \in Matters, MatterHolds(p, m), Exists(p),
           Works(h, p, m), \A g \in Hands : g # h => hand'[g] = hand[g], strayed \subseteq strayed',
           Due(h, m) /\ <<p, m>> \notin strayed' =>
              /\ Works(h, p, m)' => Due(h, m)'
              /\ ~Works(h, p, m)' => Clear(p, m)'
    PROVE  MatterHolds(p, m)'
<1> SUFFICES ASSUME <<p, m>> \notin strayed'
             PROVE  /\ \A f, g \in Hands : Works(f, p, m)' /\ Works(g, p, m)' => f = g
                    /\ \A g \in Hands : Works(g, p, m)' => Due(g, m)'
                    /\ (\A g \in Hands : ~Works(g, p, m)') => Clear(p, m)'
  BY DEF MatterHolds
<1>1. Due(h, m) /\ \A g \in Hands : Works(g, p, m) => g = h
  BY DEF MatterHolds
<1>2. \A g \in Hands : g # h => ~Works(g, p, m)'
  BY <1>1 DEF Works
<1> QED
  BY <1>1, <1>2

\* A handler begins with a matter that is remembered, or that nobody works on.
LEMMA MatterStarts ==
    ASSUME NEW h \in Hands, NEW p \in People, NEW m \in Matters, MatterHolds(p, m), Exists(p),
           ~Works(h, p, m), Works(h, p, m)', \A g \in Hands : g # h => hand'[g] = hand[g],
           strayed \subseteq strayed',
           <<p, m>> \notin strayed' => \A g \in Hands : ~Works(g, p, m),
           Clear(p, m) => Due(h, m)'
    PROVE  MatterHolds(p, m)'
<1>1. ASSUME NEW g \in Hands, g # h PROVE Works(g, p, m)' <=> Works(g, p, m)
  BY <1>1 DEF Works
<1> QED
  BY <1>1 DEF MatterHolds

\* A step of one handler is about one user.
LEMMA OthersKept ==
    ASSUME AccountsInv, AccountsTypeOK', NEW h \in Hands, NEW p \in People,
           hand[h].who \in {p, NoOne}, hand'[h].who \in {p, NoOne}, token' = token,
           \A g \in Hands : g # h => hand'[g] = hand[g], strayed \subseteq strayed',
           \A q \in People : q # p =>
              /\ account'[q] = account[q] /\ knows'[q] = knows[q] /\ trail'[q] = trail[q]
              /\ \A r \in People : <<r, q>> \in referrals' <=> <<r, q>> \in referrals,
           Exists(p) => Exists(p)', HandHolds(h)', Unheard(p)',
           \A m \in Matters : MatterHolds(p, m)'
    PROVE  AccountsInv'
<1>1. ASSUME NEW g \in Hands, g # h PROVE HandHolds(g)'
  <2>1. HandHolds(g) /\ hand'[g] = hand[g]
    BY <1>1 DEF AccountsInv
  <2>2. \A q \in People : Exists(q) => Exists(q)'
    BY DEF Exists
  <2> QED
    BY <2>1, <2>2 DEF HandHolds
<1>2. ASSUME NEW q \in People, q # p, NEW m \in Matters PROVE MatterHolds(q, m)'
  <2>1. SameFor(q, m)
    BY <1>2 DEF SameFor, Matters
  <2>2. MatterHolds(q, m)
    BY DEF AccountsInv
  <2>3. q # NoOne
    BY AccountsAssumption
  <2>4. ~Works(h, q, m) /\ ~Works(h, q, m)'
    BY <1>2, <2>3 DEF Works
  <2>5. Exists(q)' => Exists(q)
    BY <1>2 DEF Exists
  <2>6. Exists(q) => MatterHolds(q, m)'
    BY <2>1, <2>2, <2>4, MatterKept
  <2> QED
    BY <2>5, <2>6 DEF MatterHolds
<1>3. ASSUME NEW q \in People, q # p PROVE Unheard(q)'
  BY <1>3 DEF AccountsInv, Unheard, Exists
<1>4. \A q \in People : token'[q] # "none" => Exists(q)'
  BY DEF AccountsInv, Exists
<1> QED
  BY <1>1, <1>2, <1>3, <1>4 DEF AccountsInv

\* At first there is the SUPERADMIN that was seeded, and nobody works.
LEMMA AccountsStart == ASSUME AccountsInit PROVE AccountsInv
<1>1. PICK s \in Secrets :
          /\ account = [p \in People |-> IF p = root THEN StaffRow("SUPERADMIN", s) ELSE NoRow]
          /\ knows = [p \in People |-> [pass |-> IF p = root THEN s ELSE NoSecret,
                                        code |-> NoSecret, own |-> TRUE]]
          /\ token = [p \in People |-> "none"]
          /\ trail = [p \in People |-> IF p = root THEN "ACTIVE" ELSE "NONE"]
          /\ referrals = {} /\ hand = [h \in Hands |-> Idle] /\ strayed = {}
  BY DEF AccountsInit
<1>2. PICK top : top = StaffRow("SUPERADMIN", s)
  OBVIOUS
<1>3. /\ top \in Account /\ top.role = "SUPERADMIN" /\ top.status = "ACTIVE"
      /\ top.pass = s /\ top.refBy = NoOne
  <2>1. PICK r \in Account : r = NewRow
    BY RowConstants
  <2>2. top = [r EXCEPT !.role = "SUPERADMIN", !.type = "APPROVER", !.verified = TRUE, !.pass = s]
    BY <1>2, <2>1 DEF StaffRow
  <2>3. /\ top.role = "SUPERADMIN" /\ top.status = r.status /\ top.pass = s /\ top.refBy = r.refBy
    BY <2>2 DEF Account
  <2>4. top \in Account
    BY <2>2 DEF Account, Secret
  <2> QED
    BY <2>1, <2>3, <2>4, RowConstants
<1>4. \A h \in Hands : hand[h] = Idle
  BY <1>1
<1>5. AccountsTypeOK
  <2>1. account \in [People -> Account] /\ hand \in [Hands -> Job]
    BY <1>1, <1>2, <1>3, RowConstants
  <2>2. knows \in [People -> [pass : Secret, code : Secret, own : BOOLEAN]]
    BY <1>1 DEF Secret
  <2> QED
    BY <1>1, <2>1, <2>2 DEF AccountsTypeOK
<1>6. ASSUME NEW h \in Hands PROVE HandHolds(h)
  BY <1>4, RowConstants DEF HandHolds
<1>7. ASSUME NEW p \in People PROVE Unheard(p)
  <2>1. p = root => Exists(p)
    BY <1>1, <1>2, <1>3 DEF Exists
  <2> QED
    BY <1>1, <2>1 DEF Unheard
<1>8. ASSUME NEW p \in People, NEW m \in Matters PROVE MatterHolds(p, m)
  <2> SUFFICES ASSUME Exists(p) PROVE MatterHolds(p, m)
    BY DEF MatterHolds
  <2>1. p = root
    BY <1>1, RowConstants DEF Exists
  <2>2. account[p] = top /\ trail[p] = "ACTIVE" /\ knows[p].pass = s
    BY <1>1, <1>2, <2>1
  <2>3. Clear(p, m)
    <3>1. CASE m = "pass"
      BY <1>3, <2>2, <3>1 DEF Clear
    <3>2. CASE m = "code"
      BY <1>3, <2>2, <3>2 DEF Clear
    <3>3. CASE m = "status"
      BY <1>3, <2>2, <3>3 DEF Clear
    <3>4. CASE m = "referral"
      BY <1>1, <1>3, <2>2, <3>4, AccountsAssumption DEF Clear
    <3> QED
      BY <3>1, <3>2, <3>3, <3>4 DEF Matters
  <2>4. \A h \in Hands : ~Works(h, p, m)
    BY <1>4, RowConstants, AboutOps DEF Works
  <2> QED
    BY <2>3, <2>4 DEF MatterHolds
<1> QED
  BY <1>1, <1>5, <1>6, <1>7, <1>8 DEF AccountsInv

\* A handler begins: what else is at its matter is remembered.
LEMMA Employed ==
    ASSUME AccountsInv, NEW h \in Hands, NEW p \in People, NEW op \in Ops, NEW step \in Steps,
           NEW r \in Account, NEW s \in Secret,
           Employ(h, op, step, p, r, s), UNCHANGED <<account, token, trail, referrals, knows>>,
           op # "none", op \in {"signup", "enlist"} => step = "create",
           op = "resend" => step = "recode" /\ ~account[p].verified,
           op = "verify" => step = "verify", op \in {"change", "reset", "forgot"} => step = "set",
           op \in {"suspend", "unsuspend"} => step = "status",
           op = "apply" => step = "adopt" /\ r.refBy \in People /\ account[p].refBy = NoOne,
           op \notin {"signup", "enlist"} => Exists(p),
           op = "signup" => /\ r.role = "USER" /\ r.status = "ACTIVE" /\ ~r.verified
                            /\ r.pass = s /\ r.code = s,
           op = "enlist" => /\ r.role \in {"ADMIN", "SUPERADMIN"} /\ r.status = "ACTIVE"
                            /\ r.pass = s /\ r.refBy = NoOne
    PROVE  AccountsInv'
<1>1. PICK n : n = [op |-> op, step |-> step, who |-> p, row |-> r, secret |-> s]
  OBVIOUS
<1>2. n \in Job /\ n.op = op /\ n.step = step /\ n.who = p /\ n.row = r /\ n.secret = s
  BY <1>1 DEF Job, Somebody
<1>3. /\ hand[h].step = "idle" /\ hand' = [hand EXCEPT ![h] = n]
      /\ strayed' = strayed \cup
            (IF Exists(p) THEN {p} \X {m \in About(op) : Busy(p, m)} ELSE {})
  BY <1>1 DEF Employ
<1>4. /\ hand'[h] = n /\ hand' \in [Hands -> Job]
      /\ \A g \in Hands : g # h => hand'[g] = hand[g]
  BY <1>2, <1>3 DEF AccountsInv, AccountsTypeOK
<1>5. About(op) \subseteq Matters
  BY AboutOps DEF Ops, Matters
<1>6. strayed \subseteq strayed' /\ strayed' \subseteq People \X Matters
  BY <1>3, <1>5 DEF AccountsInv, AccountsTypeOK
<1>7. AccountsTypeOK'
  BY <1>4, <1>6 DEF AccountsInv, AccountsTypeOK
<1>8. hand[h].who = NoOne /\ NoOne \notin People
  BY <1>3, AccountsAssumption DEF AccountsInv, HandHolds
<1>9. op \in {"signup", "enlist", "resend", "verify", "change", "reset", "forgot",
              "suspend", "unsuspend", "apply"}
  BY DEF Ops
<1>10. HandHolds(h)'
  BY <1>2, <1>4, <1>9 DEF HandHolds, Exists
<1>11. Unheard(p)'
  BY DEF AccountsInv, Unheard, Exists
<1>12. ASSUME NEW m \in Matters PROVE MatterHolds(p, m)'
  <2> SUFFICES ASSUME Exists(p) PROVE MatterHolds(p, m)'
    BY DEF MatterHolds, Exists
  <2>1. MatterHolds(p, m) /\ ~Works(h, p, m)
    BY <1>8 DEF AccountsInv, Works
  <2>2. SameFor(p, m)
    BY DEF SameFor, Matters
  <2>3. CASE Works(h, p, m)'
    <3>1. m \in About(op) /\ step # "create"
      BY <1>2, <1>4, <2>3 DEF Works
    <3>2. ASSUME <<p, m>> \notin strayed', NEW g \in Hands PROVE ~Works(g, p, m)
      <4>1. ~Busy(p, m)
        BY <1>3, <3>1, <3>2
      <4> QED
        BY <4>1 DEF Busy, Works
    <3>3. Clear(p, m)' <=> Clear(p, m)
      BY <2>2, SameClear
    <3>4. Clear(p, m) => Due(h, m)'
      <4>1. hand'[h].who = p /\ hand'[h].step = step /\ hand'[h].op = op
        BY <1>2, <1>4
      <4>2. CASE m = "pass"
        BY <1>9, <3>1, <3>3, <4>1, <4>2, AboutOps DEF Due
      <4>3. CASE m = "code"
        BY <1>9, <3>1, <3>3, <4>1, <4>3, AboutOps DEF Due
      <4>4. CASE m = "status"
        BY <1>9, <3>1, <3>3, <4>1, <4>4, AboutOps DEF Due
      <4>5. CASE m = "referral"
        BY <1>9, <3>1, <3>3, <4>1, <4>5, AboutOps DEF Due
      <4> QED
        BY <4>2, <4>3, <4>4, <4>5 DEF Matters
    <3> QED
      BY <1>4, <1>6, <2>1, <2>3, <3>2, <3>4, MatterStarts
  <2>4. CASE ~Works(h, p, m)'
    BY <1>4, <1>6, <2>1, <2>2, <2>4, MatterKept
  <2> QED
    BY <2>3, <2>4
<1>13. Exists(p) => Exists(p)'
  BY DEF Exists
<1> QED
  BY <1>2, <1>4, <1>6, <1>7, <1>8, <1>10, <1>11, <1>12, <1>13, OthersKept

\* A handler that is not idle has a user, and its operation is at one of its steps.
LEMMA HandBusy ==
    ASSUME AccountsInv, NEW h \in Hands, hand[h].step # "idle"
    PROVE  /\ hand[h].who \in People /\ hand[h].who # NoOne /\ HandHolds(h)
           /\ Unheard(hand[h].who) /\ \A m \in Matters : MatterHolds(hand[h].who, m)
           /\ hand[h].step # "create" => Exists(hand[h].who)
           /\ hand[h].op \in {"signup", "enlist", "resend", "verify", "change", "reset",
                              "forgot", "suspend", "unsuspend", "apply"}
<1>1. hand[h].who \in People /\ hand[h].op # "none" /\ HandHolds(h)
  BY DEF AccountsInv, HandHolds
<1>2. hand[h].op \in Ops /\ hand[h].who # NoOne
  BY <1>1, AccountFields DEF AccountsInv
<1>3. hand[h].op \in {"signup", "enlist", "resend", "verify", "change", "reset",
                      "forgot", "suspend", "unsuspend", "apply"}
  BY <1>1, <1>2 DEF Ops
<1>4. hand[h].step # "create" => Exists(hand[h].who)
  BY <1>1 DEF HandHolds
<1> QED
  BY <1>1, <1>2, <1>3, <1>4 DEF AccountsInv

\* The account is created: what no other handler can be at is due from this one.
LEMMA AccountCreated ==
    ASSUME AccountsInv, NEW h \in Hands, CreateAccount(h)
    PROVE  AccountsInv'
<1>1. PICK p \in People : p = hand[h].who
  BY HandBusy DEF CreateAccount
<1>2. PICK r \in Account, s \in Secret : r = hand[h].row /\ s = hand[h].secret
  BY AccountFields DEF AccountsInv
<1>3. PICK n : n = [r EXCEPT !.profile = "none"]
  OBVIOUS
<1>4. /\ n \in Account /\ n.role = r.role /\ n.type = r.type /\ n.status = r.status
      /\ n.pass = r.pass /\ n.code = r.code /\ n.refBy = r.refBy
      /\ n.verified = r.verified
  BY <1>3 DEF Account
<1>5. PICK step \in Steps : step = IF hand[h].op = "signup" THEN "stub" ELSE "audit"
  BY DEF Steps
<1>6. /\ hand[h].step = "create" /\ ~Exists(p) /\ Put(h, n) /\ Tell(p, "pass", s) /\ Go(h, step)
      /\ UNCHANGED <<token, trail, referrals, strayed>>
  BY <1>1, <1>2, <1>3, <1>5 DEF CreateAccount
<1>7. /\ account' \in [People -> Account] /\ account'[p] = n
      /\ \A q \in People : q # p => account'[q] = account[q]
  BY <1>1, <1>4, <1>6, RowWritten DEF AccountsInv
<1>8. /\ knows' \in [People -> [pass : Secret, code : Secret, own : BOOLEAN]] /\ knows'[p].pass = s
      /\ \A q \in People : q # p => knows'[q] = knows[q]
  BY <1>6, OwnerTold DEF AccountsInv
<1>9. /\ hand' \in [Hands -> Job] /\ hand'[h].step = step /\ hand'[h].op = hand[h].op
      /\ hand'[h].who = p /\ hand'[h].row = r /\ hand'[h].secret = s
      /\ \A g \in Hands : g # h => hand'[g] = hand[g]
  BY <1>1, <1>2, <1>6, HandGoes DEF AccountsInv
<1>10. AccountsTypeOK'
  BY <1>6, <1>7, <1>8, <1>9 DEF AccountsInv, AccountsTypeOK
<1>11. /\ hand[h].op \in {"signup", "enlist"} /\ r.pass = s /\ r.status = "ACTIVE"
       /\ hand[h].op = "signup" => r.role = "USER" /\ ~r.verified /\ r.code = s
       /\ hand[h].op = "enlist" => r.role \in {"ADMIN", "SUPERADMIN"} /\ r.refBy = NoOne
  BY <1>2, <1>6, HandBusy DEF HandHolds
<1>12. Exists(p)'
  BY <1>4, <1>7, <1>11 DEF Exists
<1>13. HandHolds(h)'
  BY <1>5, <1>9, <1>11, <1>12 DEF HandHolds
<1>14. trail[p] = "NONE" /\ \A x \in People : <<x, p>> \notin referrals
  BY <1>1, <1>6, HandBusy DEF Unheard
<1>15. ASSUME NEW m \in Matters PROVE MatterHolds(p, m)'
  <2>1. ASSUME NEW g \in Hands, g # h PROVE ~Works(g, p, m)'
    <3>1. HandHolds(g) /\ hand'[g] = hand[g]
      BY <1>9, <2>1 DEF AccountsInv
    <3>2. hand[g].step = "idle" => hand[g].who # p
      BY <3>1, AccountsAssumption DEF HandHolds
    <3>3. hand[g].step \notin {"idle", "create"} => hand[g].who # p
      BY <1>6, <3>1 DEF HandHolds
    <3> QED
      BY <3>1, <3>2, <3>3 DEF Works
  <2>2. (Works(h, p, m)' => Due(h, m)') /\ (~Works(h, p, m)' => Clear(p, m)')
    <3>1. Works(h, p, m)' <=> m \in About(hand[h].op)
      BY <1>5, <1>9 DEF Works
    <3>2. CASE m = "pass"
      BY <1>4, <1>7, <1>8, <1>11, <3>1, <3>2, AboutOps DEF Clear
    <3>3. CASE m = "code"
      BY <1>4, <1>5, <1>7, <1>9, <1>11, <3>1, <3>3, AboutOps DEF Clear, Due
    <3>4. CASE m = "status"
      BY <1>4, <1>5, <1>6, <1>7, <1>9, <1>11, <1>14, <3>1, <3>4, AboutOps DEF Clear, Due, StatusOf
    <3>5. CASE m = "referral"
      <4>1. hand[h].op = "signup" => Due(h, m)'
        BY <1>4, <1>5, <1>6, <1>7, <1>9, <1>14, <3>5 DEF Due
      <4>2. hand[h].op = "enlist" => Clear(p, m)'
        BY <1>4, <1>6, <1>7, <1>11, <1>14, <3>5, AccountsAssumption DEF Clear
      <4> QED
        BY <1>11, <3>1, <3>5, <4>1, <4>2, AboutOps
    <3> QED
      BY <3>2, <3>3, <3>4, <3>5 DEF Matters
  <2> QED
    BY <2>1, <2>2 DEF MatterHolds
<1>16. Unheard(p)'
  BY <1>12 DEF Unheard
<1> QED
  BY <1>1, <1>6, <1>7, <1>8, <1>9, <1>10, <1>12, <1>13, <1>15, <1>16, OthersKept

\* A step of a handler at an account that is there: only what the handler is about can
\* change, and that as it should.
LEMMA HandSteps ==
    ASSUME AccountsInv, AccountsTypeOK', NEW h \in Hands, NEW p \in People, p = hand[h].who,
           hand[h].step \notin {"idle", "create"}, token' = token,
           hand'[h].who \in {p, NoOne}, hand'[h].op \in {hand[h].op, "none"},
           \A g \in Hands : g # h => hand'[g] = hand[g], strayed \subseteq strayed',
           \A q \in People : q # p =>
              /\ account'[q] = account[q] /\ knows'[q] = knows[q] /\ trail'[q] = trail[q]
              /\ \A r \in People : <<r, q>> \in referrals' <=> <<r, q>> \in referrals,
           account'[p].role = account[p].role, HandHolds(h)',
           \A m \in Matters \ About(hand[h].op) : SameFor(p, m),
           \A m \in About(hand[h].op) : Due(h, m) /\ <<p, m>> \notin strayed' =>
              /\ Works(h, p, m)' => Due(h, m)'
              /\ ~Works(h, p, m)' => Clear(p, m)'
    PROVE  AccountsInv'
<1>1. Exists(p) /\ Exists(p)' /\ Unheard(p)'
  BY HandBusy DEF Exists, Unheard
<1>2. About(hand[h].op) \subseteq Matters
  BY AccountFields, AboutOps DEF AccountsInv, Ops, Matters
<1>3. ASSUME NEW m \in Matters PROVE MatterHolds(p, m)'
  <2>1. MatterHolds(p, m)
    BY DEF AccountsInv
  <2>2. CASE m \in About(hand[h].op)
    <3>1. Works(h, p, m)
      BY <2>2 DEF Works
    <3> QED
      BY <1>1, <2>1, <2>2, <3>1, MatterMoves
  <2>3. CASE m \notin About(hand[h].op)
    <3>1. ~Works(h, p, m) /\ ~Works(h, p, m)'
      BY <2>3, AboutOps DEF Works
    <3> QED
      BY <1>1, <2>1, <2>3, <3>1, MatterKept
  <2> QED
    BY <2>2, <2>3
<1> QED
  BY <1>1, <1>3, OthersKept

\* The profile of a new account is written.
LEMMA ProfileStubbed ==
    ASSUME AccountsInv, NEW h \in Hands, StubProfile(h)
    PROVE  AccountsInv'
<1>1. PICK p \in People, a \in Account, r \in Account :
          p = hand[h].who /\ a = account[p] /\ r = hand[h].row
  BY HandBusy, AccountFields DEF StubProfile, AccountsInv
<1>2. PICK n : n = [a EXCEPT !.profile = r.profile]
  OBVIOUS
<1>3. /\ n \in Account /\ n.role = a.role /\ n.status = a.status /\ n.pass = a.pass
      /\ n.code = a.code /\ n.refBy = a.refBy /\ n.verified = a.verified
  BY <1>2 DEF Account
<1>4. PICK step \in Steps : step = IF r.refBy = NoOne THEN "answer" ELSE "refer"
  BY DEF Steps
<1>5. /\ hand[h].step = "stub" /\ Put(h, n) /\ Go(h, step)
      /\ UNCHANGED <<token, trail, referrals, knows, strayed>>
  BY <1>1, <1>2, <1>4 DEF StubProfile
<1>6. /\ account' \in [People -> Account] /\ account'[p] = n
      /\ \A q \in People : q # p => account'[q] = account[q]
  BY <1>1, <1>3, <1>5, RowWritten DEF AccountsInv
<1>7. /\ hand' \in [Hands -> Job] /\ hand'[h].step = step /\ hand'[h].op = hand[h].op
      /\ hand'[h].who = p /\ hand'[h].row = r /\ hand'[h].secret = hand[h].secret
      /\ \A g \in Hands : g # h => hand'[g] = hand[g]
  BY <1>1, <1>5, HandGoes DEF AccountsInv
<1>8. AccountsTypeOK'
  BY <1>5, <1>6, <1>7 DEF AccountsInv, AccountsTypeOK
<1>9. hand[h].op = "signup" /\ Exists(p)
  BY <1>1, <1>5, HandBusy DEF HandHolds
<1>10. r.refBy \in Somebody
  BY DEF Account
<1>11. HandHolds(h)'
  BY <1>1, <1>3, <1>4, <1>6, <1>7, <1>9, <1>10 DEF HandHolds, Exists, Somebody
<1>12. \A m \in Matters : SameFor(p, m)
  BY <1>1, <1>3, <1>5, <1>6 DEF SameFor, Matters
<1>13. ASSUME NEW m \in {"code", "referral"}, Due(h, m) PROVE Works(h, p, m)' /\ Due(h, m)'
  <2>1. Works(h, p, m)'
    BY <1>4, <1>7, <1>9, AboutOps DEF Works
  <2>2. CASE m = "code"
    <3>1. ~a.verified /\ a.code = hand[h].secret
      BY <1>1, <1>5, <1>13, <2>2 DEF Due
    <3>2. ~account'[p].verified /\ account'[p].code = hand'[h].secret
      BY <1>3, <1>6, <1>7, <3>1
    <3>3. hand'[h].who = p /\ hand'[h].step \in {"answer", "refer"}
      BY <1>4, <1>7
    <3> QED
      BY <2>1, <2>2, <3>2, <3>3 DEF Due
  <2>3. CASE m = "referral"
    <3>1. a.refBy = r.refBy /\ \A x \in People : <<x, p>> \notin referrals
      BY <1>1, <1>5, <1>13, <2>3 DEF Due
    <3>2. step = "answer" => Clear(p, m)'
      BY <1>3, <1>4, <1>5, <1>6, <2>3, <3>1, AccountsAssumption DEF Clear
    <3>3. hand'[h].who = p /\ hand'[h].step = step /\ hand'[h].row.refBy = account'[p].refBy
      BY <1>3, <1>6, <1>7, <3>1
    <3>4. \A x \in People : <<x, p>> \notin referrals'
      BY <1>5, <3>1
    <3> QED
      BY <1>4, <2>1, <2>3, <3>2, <3>3, <3>4 DEF Due
  <2> QED
    BY <2>1, <2>2, <2>3
<1> QED
  BY <1>1, <1>3, <1>5, <1>6, <1>7, <1>8, <1>9, <1>11, <1>12, <1>13, HandSteps, AboutOps

\* The referral is recorded, at signup and for a code that was applied later.
LEMMA ReferralCreated ==
    ASSUME AccountsInv, NEW h \in Hands, CreateReferral(h)
    PROVE  AccountsInv'
<1>1. PICK p \in People, x \in People :
          p = hand[h].who /\ x = hand[h].row.refBy
  BY HandBusy DEF CreateReferral, HandHolds
<1>2. /\ hand[h].step = "refer" /\ referrals' = referrals \cup {<<x, p>>}
      /\ UNCHANGED <<account, token, trail, knows, strayed>>
      /\ IF hand[h].op = "signup" THEN Go(h, "answer") ELSE Release(h)
  BY <1>1 DEF CreateReferral
<1>3. hand[h].op \in {"signup", "apply"} /\ Exists(p)
  BY <1>1, <1>2, HandBusy DEF HandHolds
<1>4. /\ hand' \in [Hands -> Job] /\ hand'[h].who \in {p, NoOne}
      /\ \A g \in Hands : g # h => hand'[g] = hand[g]
      /\ hand[h].op = "signup" => /\ hand'[h].step = "answer" /\ hand'[h].op = "signup"
                                  /\ hand'[h].who = p /\ hand'[h].secret = hand[h].secret
      /\ hand[h].op = "apply" => /\ hand'[h].step = "idle" /\ hand'[h].op = "none"
                                 /\ hand'[h].who = NoOne
  <2>1. CASE hand[h].op = "signup"
    <3>1. Go(h, "answer") /\ "answer" \in Steps
      BY <1>2, <2>1 DEF Steps
    <3> QED
      BY <1>1, <2>1, <3>1, HandGoes DEF AccountsInv
  <2>2. CASE hand[h].op # "signup"
    <3>1. Release(h)
      BY <1>2, <2>2
    <3> QED
      BY <1>1, <2>2, <3>1, HandEnds DEF AccountsInv
  <2> QED
    BY <2>1, <2>2
<1>5. AccountsTypeOK'
  BY <1>2, <1>4 DEF AccountsInv, AccountsTypeOK
<1>6. HandHolds(h)'
  BY <1>2, <1>3, <1>4 DEF HandHolds, Exists
<1>7. \A m \in Matters : m # "referral" => SameFor(p, m)
  BY <1>2 DEF SameFor, Matters
<1>8. ASSUME Due(h, "referral") PROVE Clear(p, "referral")'
  <2>1. account[p].refBy = x /\ \A y \in People : <<y, p>> \notin referrals
    BY <1>1, <1>2, <1>8 DEF Due
  <2> QED
    BY <1>2, <2>1 DEF Clear
<1>9. ASSUME Due(h, "referral"), Works(h, p, "referral")' PROVE Due(h, "referral")'
  <2>1. hand[h].op = "signup"
    BY <1>3, <1>4, <1>9, AccountsAssumption DEF Works
  <2>2. hand'[h].who = p /\ hand'[h].step = "answer"
    BY <1>4, <2>1
  <2>3. Clear(p, "referral")'
    BY <1>8, <1>9
  <2> QED
    BY <2>2, <2>3 DEF Due
<1>10. ASSUME hand[h].op = "signup", Due(h, "code")
       PROVE  Works(h, p, "code")' /\ Due(h, "code")'
  <2>1. Works(h, p, "code")'
    BY <1>4, <1>10, AboutOps DEF Works
  <2> QED
    BY <1>1, <1>2, <1>4, <1>10, <2>1 DEF Due
<1>11. \A q \in People : q # p => \A y \in People : <<y, q>> \in referrals' <=> <<y, q>> \in referrals
  BY <1>2
<1>12. \A m \in Matters \ About(hand[h].op) : SameFor(p, m)
  BY <1>3, <1>7, AboutOps
<1>13. \A m \in About(hand[h].op) : Due(h, m) /\ <<p, m>> \notin strayed' =>
              /\ Works(h, p, m)' => Due(h, m)'
              /\ ~Works(h, p, m)' => Clear(p, m)'
  BY <1>3, <1>8, <1>9, <1>10, AboutOps
<1>14. hand'[h].op \in {hand[h].op, "none"}
  BY <1>3, <1>4
<1>15. \A q \in People : account'[q] = account[q] /\ knows'[q] = knows[q] /\ trail'[q] = trail[q]
  BY <1>2
<1>16. strayed \subseteq strayed' /\ account'[p].role = account[p].role
  BY <1>2
<1> QED
  BY <1>1, <1>2, <1>4, <1>5, <1>6, <1>11, <1>12, <1>13, <1>14, <1>15, <1>16, HandSteps

\* A handler's last step: it ends, and no matter it was about is left unsettled.
LEMMA HandFinishes ==
    ASSUME AccountsInv, AccountsTypeOK', NEW h \in Hands, NEW p \in People, p = hand[h].who,
           hand[h].step \notin {"idle", "create"}, Release(h), token' = token, strayed \subseteq strayed',
           \A q \in People : q # p =>
              account'[q] = account[q] /\ knows'[q] = knows[q] /\ trail'[q] = trail[q],
           referrals' = referrals, account'[p].role = account[p].role,
           \A m \in Matters \ About(hand[h].op) : SameFor(p, m),
           \A m \in About(hand[h].op) : Due(h, m) /\ <<p, m>> \notin strayed' => Clear(p, m)'
    PROVE  AccountsInv'
<1>1. /\ hand'[h].step = "idle" /\ hand'[h].op = "none" /\ hand'[h].who = NoOne
      /\ \A g \in Hands : g # h => hand'[g] = hand[g]
  BY HandEnds DEF AccountsInv
<1>2. HandHolds(h)'
  BY <1>1 DEF HandHolds
<1>3. \A m \in Matters : ~Works(h, p, m)'
  BY <1>1, AccountsAssumption DEF Works
<1>4. About(hand[h].op) \subseteq Matters
  BY AccountFields, AboutOps DEF AccountsInv, Ops, Matters
<1>5. \A m \in About(hand[h].op) : Due(h, m) /\ <<p, m>> \notin strayed' =>
              /\ Works(h, p, m)' => Due(h, m)'
              /\ ~Works(h, p, m)' => Clear(p, m)'
  BY <1>3, <1>4
<1>6. hand'[h].who \in {p, NoOne} /\ hand'[h].op \in {hand[h].op, "none"}
  BY <1>1
<1>7. \A q \in People : \A r \in People : <<r, q>> \in referrals' <=> <<r, q>> \in referrals
  OBVIOUS
<1> QED
  BY <1>1, <1>2, <1>5, <1>6, <1>7, HandSteps

\* The response tells the code, or the password the owner has set.
LEMMA Answered ==
    ASSUME AccountsInv, NEW h \in Hands, Answer(h)
    PROVE  AccountsInv'
<1>1. PICK p \in People, s \in Secret : p = hand[h].who /\ s = hand[h].secret
  BY HandBusy, AccountFields DEF Answer, AccountsInv
<1>2. /\ hand[h].step = "answer" /\ Release(h)
      /\ UNCHANGED <<account, token, trail, referrals, strayed>>
      /\ hand[h].op = "reset" => knows' = knows
      /\ hand[h].op = "change" => Tell(p, "pass", s)
      /\ hand[h].op \notin {"change", "reset"} => Tell(p, "code", s)
  BY <1>1 DEF Answer
<1>3. hand[h].op \in {"signup", "resend", "change", "reset"}
  BY <1>1, <1>2, HandBusy DEF HandHolds
<1>4. /\ knows' \in [People -> [pass : Secret, code : Secret, own : BOOLEAN]]
      /\ hand[h].op = "reset" => knows'[p] = knows[p]
      /\ hand[h].op = "change" => knows'[p].pass = s /\ knows'[p].code = knows[p].code
      /\ hand[h].op \in {"signup", "resend"} =>
            knows'[p].code = s /\ knows'[p].pass = knows[p].pass
      /\ knows'[p].own = knows[p].own
      /\ \A q \in People : q # p => knows'[q] = knows[q]
  <2>1. CASE hand[h].op = "reset"
    BY <1>2, <2>1 DEF AccountsInv, AccountsTypeOK
  <2>2. CASE hand[h].op = "change"
    BY <1>2, <2>2, OwnerTold DEF AccountsInv
  <2>3. CASE hand[h].op \in {"signup", "resend"}
    BY <1>2, <2>3, OwnerTold DEF AccountsInv
  <2> QED
    BY <1>3, <2>1, <2>2, <2>3
<1>5. hand' \in [Hands -> Job]
  BY <1>2, HandEnds DEF AccountsInv
<1>6. AccountsTypeOK'
  BY <1>2, <1>4, <1>5 DEF AccountsInv, AccountsTypeOK
<1>7. \A m \in Matters \ About(hand[h].op) : SameFor(p, m)
  <2> SUFFICES ASSUME NEW m \in Matters, m \notin About(hand[h].op) PROVE SameFor(p, m)
    OBVIOUS
  <2>1. m = "pass" => hand[h].op \in {"signup", "resend"}
    BY <1>3, AboutOps
  <2>2. m = "code" => hand[h].op \in {"change", "reset"}
    BY <1>3, AboutOps
  <2> QED
    BY <1>2, <1>4, <2>1, <2>2 DEF SameFor, Matters
<1>8. \A m \in About(hand[h].op) : Due(h, m) /\ <<p, m>> \notin strayed' => Clear(p, m)'
  <2> SUFFICES ASSUME NEW m \in About(hand[h].op), Due(h, m) PROVE Clear(p, m)'
    OBVIOUS
  <2>1. CASE m = "pass"
    <3>1. hand[h].op \in {"change", "reset"}
      BY <1>3, <2>1, AboutOps
    <3>2. account[p].pass = s /\ (knows[p].own <=> hand[h].op # "reset")
      BY <1>1, <1>2, <2>1 DEF Due
    <3> QED
      BY <1>2, <1>4, <2>1, <3>1, <3>2 DEF Clear
  <2>2. CASE m = "code"
    <3>1. hand[h].op \in {"signup", "resend"}
      BY <1>3, <2>2, AboutOps
    <3>2. account[p].code = s /\ ~account[p].verified
      BY <1>1, <1>2, <2>2 DEF Due
    <3> QED
      BY <1>2, <1>4, <2>2, <3>1, <3>2 DEF Clear
  <2>3. CASE m = "referral"
    <3>1. Clear(p, m)
      BY <1>1, <1>2, <2>3 DEF Due
    <3> QED
      BY <1>2, <2>3, <3>1 DEF Clear
  <2> QED
    BY <1>3, <2>1, <2>2, <2>3, AboutOps
<1>9. /\ \A q \in People : q # p =>
             account'[q] = account[q] /\ knows'[q] = knows[q] /\ trail'[q] = trail[q]
      /\ account'[p].role = account[p].role /\ referrals' = referrals /\ strayed \subseteq strayed'
  BY <1>2, <1>4
<1> QED
  BY <1>1, <1>2, <1>6, <1>7, <1>8, <1>9, HandFinishes

\* A new code takes the place of the old one, before it is shown.
LEMMA Recoded ==
    ASSUME AccountsInv, NEW h \in Hands, Recode(h)
    PROVE  AccountsInv'
<1>1. PICK p \in People, a \in Account, s \in Secret :
          p = hand[h].who /\ a = account[p] /\ s = hand[h].secret
  BY HandBusy, AccountFields DEF Recode, AccountsInv
<1>2. PICK n : n = [a EXCEPT !.code = s]
  OBVIOUS
<1>3. /\ n \in Account /\ n.role = a.role /\ n.status = a.status /\ n.pass = a.pass
      /\ n.code = s /\ n.refBy = a.refBy /\ n.verified = a.verified
  BY <1>2 DEF Account
<1>4. /\ hand[h].step = "recode" /\ Put(h, n) /\ Go(h, "answer") /\ "answer" \in Steps
      /\ UNCHANGED <<token, trail, referrals, knows, strayed>>
  BY <1>1, <1>2 DEF Recode, Steps
<1>5. /\ account' \in [People -> Account] /\ account'[p] = n
      /\ \A q \in People : q # p => account'[q] = account[q]
  BY <1>1, <1>3, <1>4, RowWritten DEF AccountsInv
<1>6. /\ hand' \in [Hands -> Job] /\ hand'[h].step = "answer" /\ hand'[h].op = hand[h].op
      /\ hand'[h].who = p /\ hand'[h].secret = s
      /\ \A g \in Hands : g # h => hand'[g] = hand[g]
  BY <1>1, <1>4, HandGoes DEF AccountsInv
<1>7. AccountsTypeOK'
  BY <1>4, <1>5, <1>6 DEF AccountsInv, AccountsTypeOK
<1>8. hand[h].op = "resend" /\ Exists(p)
  BY <1>1, <1>4, HandBusy DEF HandHolds
<1>9. HandHolds(h)'
  BY <1>1, <1>3, <1>5, <1>6, <1>8 DEF HandHolds, Exists
<1>10. \A m \in Matters \ {"code"} : SameFor(p, m)
  BY <1>1, <1>3, <1>4, <1>5 DEF SameFor, Matters
<1>11. ASSUME Due(h, "code") PROVE Works(h, p, "code")' /\ Due(h, "code")'
  <2>1. Works(h, p, "code")'
    BY <1>6, <1>8, AboutOps DEF Works
  <2>2. ~a.verified
    BY <1>1, <1>4, <1>11 DEF Due
  <2> QED
    BY <1>3, <1>5, <1>6, <2>1, <2>2 DEF Due
<1> QED
  BY <1>1, <1>3, <1>4, <1>5, <1>6, <1>7, <1>8, <1>9, <1>10, <1>11, HandSteps, AboutOps

\* The address is verified, and the code is gone.
LEMMA Verified ==
    ASSUME AccountsInv, NEW h \in Hands, Verify(h)
    PROVE  AccountsInv'
<1>1. PICK p \in People, a \in Account : p = hand[h].who /\ a = account[p]
  BY HandBusy, AccountFields DEF Verify, AccountsInv
<1>2. PICK n : n = [a EXCEPT !.verified = TRUE, !.code = NoSecret]
  OBVIOUS
<1>3. /\ n \in Account /\ n.role = a.role /\ n.status = a.status /\ n.pass = a.pass
      /\ n.code = NoSecret /\ n.refBy = a.refBy /\ n.verified = TRUE
  BY <1>2 DEF Account, Secret
<1>4. /\ hand[h].step = "verify" /\ Put(h, n) /\ Release(h)
      /\ UNCHANGED <<token, trail, referrals, knows, strayed>>
  BY <1>1, <1>2 DEF Verify
<1>5. /\ account' \in [People -> Account] /\ account'[p] = n
      /\ \A q \in People : q # p => account'[q] = account[q]
  BY <1>1, <1>3, <1>4, RowWritten DEF AccountsInv
<1>6. hand' \in [Hands -> Job]
  BY <1>4, HandEnds DEF AccountsInv
<1>7. AccountsTypeOK'
  BY <1>4, <1>5, <1>6 DEF AccountsInv, AccountsTypeOK
<1>8. hand[h].op = "verify"
  BY <1>1, <1>4, HandBusy DEF HandHolds
<1>9. \A m \in Matters \ {"code"} : SameFor(p, m)
  BY <1>1, <1>3, <1>4, <1>5 DEF SameFor, Matters
<1>10. Clear(p, "code")'
  BY <1>3, <1>5 DEF Clear
<1> QED
  BY <1>1, <1>3, <1>4, <1>5, <1>7, <1>8, <1>9, <1>10, HandFinishes, AboutOps

\* The hash of a new password is written, before its owner is told.
LEMMA SecretSet ==
    ASSUME AccountsInv, NEW h \in Hands, SetSecret(h)
    PROVE  AccountsInv'
<1>1. PICK p \in People, a \in Account, s \in Secret :
          p = hand[h].who /\ a = account[p] /\ s = hand[h].secret
  BY HandBusy, AccountFields DEF SetSecret, AccountsInv
<1>2. PICK n : n = [a EXCEPT !.pass = s]
  OBVIOUS
<1>3. /\ n \in Account /\ n.role = a.role /\ n.status = a.status /\ n.pass = s
      /\ n.code = a.code /\ n.refBy = a.refBy /\ n.verified = a.verified
  BY <1>2 DEF Account
<1>4. PICK step \in Steps : step = IF hand[h].op = "forgot" THEN "mail" ELSE "answer"
  BY DEF Steps
<1>5. /\ hand[h].step = "set" /\ Put(h, n) /\ Go(h, step)
      /\ knows' = [knows EXCEPT ![p] = [@ EXCEPT !.own = hand[h].op # "reset"]]
      /\ UNCHANGED <<token, trail, referrals, strayed>>
  BY <1>1, <1>2, <1>4 DEF SetSecret
<1>6. /\ account' \in [People -> Account] /\ account'[p] = n
      /\ \A q \in People : q # p => account'[q] = account[q]
  BY <1>1, <1>3, <1>5, RowWritten DEF AccountsInv
<1>7. /\ hand' \in [Hands -> Job] /\ hand'[h].step = step /\ hand'[h].op = hand[h].op
      /\ hand'[h].who = p /\ hand'[h].secret = s
      /\ \A g \in Hands : g # h => hand'[g] = hand[g]
  BY <1>1, <1>5, HandGoes DEF AccountsInv
<1>8. /\ knows' \in [People -> [pass : Secret, code : Secret, own : BOOLEAN]]
      /\ knows'[p].code = knows[p].code /\ (knows'[p].own <=> hand[h].op # "reset")
      /\ \A q \in People : q # p => knows'[q] = knows[q]
  <2>1. PICK r \in [pass : Secret, code : Secret, own : BOOLEAN] : r = knows[p]
    BY DEF AccountsInv, AccountsTypeOK
  <2>2. PICK k : k = [r EXCEPT !.own = hand[h].op # "reset"]
    OBVIOUS
  <2>3. knows' = [knows EXCEPT ![p] = k]
    BY <1>5, <2>1, <2>2
  <2>4. /\ k \in [pass : Secret, code : Secret, own : BOOLEAN]
        /\ k.code = r.code /\ k.own = (hand[h].op # "reset")
    BY <2>2
  <2> QED
    BY <2>1, <2>3, <2>4 DEF AccountsInv, AccountsTypeOK
<1>9. AccountsTypeOK'
  BY <1>5, <1>6, <1>7, <1>8 DEF AccountsInv, AccountsTypeOK
<1>10. hand[h].op \in {"change", "reset", "forgot"} /\ Exists(p)
  BY <1>1, <1>5, HandBusy DEF HandHolds
<1>11. HandHolds(h)'
  BY <1>1, <1>3, <1>4, <1>6, <1>7, <1>10 DEF HandHolds, Exists
<1>12. \A m \in Matters \ {"pass"} : SameFor(p, m)
  BY <1>1, <1>3, <1>5, <1>6, <1>8 DEF SameFor, Matters
<1>13. Works(h, p, "pass")'
  BY <1>4, <1>7, <1>10, AboutOps DEF Works
<1>14. Due(h, "pass")'
  BY <1>3, <1>4, <1>6, <1>7, <1>8 DEF Due
<1> QED
  BY <1>1, <1>3, <1>5, <1>6, <1>7, <1>9, <1>10, <1>11, <1>12, <1>13, <1>14, <1>8,
     HandSteps, AboutOps

\* The default password reaches its owner, or its loss is remembered.
LEMMA DefaultMailed ==
    ASSUME AccountsInv, NEW h \in Hands, MailDefault(h)
    PROVE  AccountsInv'
<1>1. PICK p \in People, s \in Secret : p = hand[h].who /\ s = hand[h].secret
  BY HandBusy, AccountFields DEF MailDefault, SendEmail, AccountsInv
<1>2. /\ hand[h].step = "mail" /\ Release(h) /\ UNCHANGED <<account, token, trail, referrals>>
      /\ \/ Tell(p, "pass", s) /\ strayed' = strayed
         \/ strayed' = strayed \cup {<<p, "pass">>} /\ knows' = knows
  BY <1>1 DEF MailDefault, SendEmail
<1>3. /\ knows' \in [People -> [pass : Secret, code : Secret, own : BOOLEAN]]
      /\ knows'[p].code = knows[p].code /\ knows'[p].own = knows[p].own
      /\ <<p, "pass">> \notin strayed' => knows'[p].pass = s
      /\ \A q \in People : q # p => knows'[q] = knows[q]
      /\ strayed \subseteq strayed' /\ strayed' \subseteq People \X Matters
  <2>1. CASE Tell(p, "pass", s) /\ strayed' = strayed
    BY <2>1, OwnerTold DEF AccountsInv, AccountsTypeOK
  <2>2. CASE strayed' = strayed \cup {<<p, "pass">>} /\ knows' = knows
    BY <2>2 DEF AccountsInv, AccountsTypeOK, Matters
  <2> QED
    BY <1>2, <2>1, <2>2
<1>4. hand' \in [Hands -> Job]
  BY <1>2, HandEnds DEF AccountsInv
<1>5. AccountsTypeOK'
  BY <1>2, <1>3, <1>4 DEF AccountsInv, AccountsTypeOK
<1>6. hand[h].op = "forgot"
  BY <1>1, <1>2, HandBusy DEF HandHolds
<1>7. \A m \in Matters \ {"pass"} : SameFor(p, m)
  BY <1>2, <1>3 DEF SameFor, Matters
<1>8. ASSUME Due(h, "pass"), <<p, "pass">> \notin strayed' PROVE Clear(p, "pass")'
  <2>1. account[p].pass = s
    BY <1>1, <1>2, <1>8 DEF Due
  <2> QED
    BY <1>2, <1>3, <1>8, <2>1 DEF Clear
<1> QED
  BY <1>1, <1>2, <1>3, <1>5, <1>6, <1>7, <1>8, HandFinishes, AboutOps

\* The status is written before its audit row.
LEMMA StatusWritten ==
    ASSUME AccountsInv, NEW h \in Hands, WriteStatus(h)
    PROVE  AccountsInv'
<1>1. PICK p \in People, a \in Account : p = hand[h].who /\ a = account[p]
  BY HandBusy, AccountFields DEF WriteStatus, AccountsInv
<1>2. PICK s \in {"ACTIVE", "SUSPENDED"} : s = StatusOf(hand[h].op)
  BY DEF StatusOf
<1>3. PICK n : n = [a EXCEPT !.status = s]
  OBVIOUS
<1>4. /\ n \in Account /\ n.role = a.role /\ n.status = s /\ n.pass = a.pass
      /\ n.code = a.code /\ n.refBy = a.refBy /\ n.verified = a.verified
  BY <1>3 DEF Account
<1>5. /\ hand[h].step = "status" /\ Put(h, n) /\ Go(h, "audit") /\ "audit" \in Steps
      /\ UNCHANGED <<token, trail, referrals, knows, strayed>>
  BY <1>1, <1>2, <1>3 DEF WriteStatus, Steps
<1>6. /\ account' \in [People -> Account] /\ account'[p] = n
      /\ \A q \in People : q # p => account'[q] = account[q]
  BY <1>1, <1>4, <1>5, RowWritten DEF AccountsInv
<1>7. /\ hand' \in [Hands -> Job] /\ hand'[h].step = "audit" /\ hand'[h].op = hand[h].op
      /\ hand'[h].who = p
      /\ \A g \in Hands : g # h => hand'[g] = hand[g]
  BY <1>1, <1>5, HandGoes DEF AccountsInv
<1>8. AccountsTypeOK'
  BY <1>5, <1>6, <1>7 DEF AccountsInv, AccountsTypeOK
<1>9. hand[h].op \in {"suspend", "unsuspend"} /\ Exists(p)
  BY <1>1, <1>5, HandBusy DEF HandHolds
<1>10. HandHolds(h)'
  BY <1>1, <1>4, <1>6, <1>7, <1>9 DEF HandHolds, Exists
<1>11. \A m \in Matters \ {"status"} : SameFor(p, m)
  BY <1>1, <1>4, <1>5, <1>6 DEF SameFor, Matters
<1>12. Works(h, p, "status")'
  BY <1>7, <1>9, AboutOps DEF Works
<1>13. Due(h, "status")'
  BY <1>2, <1>4, <1>6, <1>7 DEF Due
<1> QED
  BY <1>1, <1>4, <1>5, <1>6, <1>7, <1>8, <1>9, <1>10, <1>11, <1>12, <1>13, HandSteps, AboutOps

\* The audit row says what a lone handler wrote.
LEMMA Audited ==
    ASSUME AccountsInv, NEW h \in Hands, Audit(h)
    PROVE  AccountsInv'
<1>1. PICK p \in People : p = hand[h].who
  BY HandBusy DEF Audit
<1>2. PICK s \in {"ACTIVE", "SUSPENDED"} : s = StatusOf(hand[h].op)
  BY DEF StatusOf
<1>3. /\ hand[h].step = "audit" /\ trail' = [trail EXCEPT ![p] = s] /\ Release(h)
      /\ UNCHANGED <<account, token, referrals, knows, strayed>>
  BY <1>1, <1>2 DEF Audit
<1>4. /\ trail' \in [People -> {"NONE", "ACTIVE", "SUSPENDED"}] /\ trail'[p] = s
      /\ \A q \in People : q # p => trail'[q] = trail[q]
  BY <1>3 DEF AccountsInv, AccountsTypeOK
<1>5. hand' \in [Hands -> Job]
  BY <1>3, HandEnds DEF AccountsInv
<1>6. AccountsTypeOK'
  BY <1>3, <1>4, <1>5 DEF AccountsInv, AccountsTypeOK
<1>7. hand[h].op \in {"suspend", "unsuspend", "enlist"}
  BY <1>1, <1>3, HandBusy DEF HandHolds
<1>8. \A m \in Matters \ {"status"} : SameFor(p, m)
  BY <1>3 DEF SameFor, Matters
<1>9. ASSUME Due(h, "status") PROVE Clear(p, "status")'
  <2>1. account[p].status = s
    BY <1>1, <1>2, <1>3, <1>9 DEF Due
  <2> QED
    BY <1>3, <1>4, <2>1 DEF Clear
<1>10. /\ \A q \in People : q # p =>
             account'[q] = account[q] /\ knows'[q] = knows[q] /\ trail'[q] = trail[q]
       /\ account'[p].role = account[p].role /\ referrals' = referrals /\ strayed \subseteq strayed'
  BY <1>3, <1>4
<1> QED
  BY <1>1, <1>3, <1>6, <1>7, <1>8, <1>9, <1>10, HandFinishes, AboutOps

\* A code is applied: the user's row names the referrer before the referrals do.
LEMMA Adopted ==
    ASSUME AccountsInv, NEW h \in Hands, Adopt(h)
    PROVE  AccountsInv'
<1>1. PICK p \in People, a \in Account, x \in People :
          p = hand[h].who /\ a = account[p] /\ x = hand[h].row.refBy
  BY HandBusy, AccountFields DEF Adopt, AccountsInv, HandHolds
<1>2. PICK n : n = [a EXCEPT !.refBy = x]
  OBVIOUS
<1>3. /\ n \in Account /\ n.role = a.role /\ n.status = a.status /\ n.pass = a.pass
      /\ n.code = a.code /\ n.refBy = x /\ n.verified = a.verified
  BY <1>2 DEF Account, Somebody
<1>4. /\ hand[h].step = "adopt" /\ Put(h, n) /\ Go(h, "refer") /\ "refer" \in Steps
      /\ UNCHANGED <<token, trail, referrals, knows, strayed>>
  BY <1>1, <1>2 DEF Adopt, Steps
<1>5. /\ account' \in [People -> Account] /\ account'[p] = n
      /\ \A q \in People : q # p => account'[q] = account[q]
  BY <1>1, <1>3, <1>4, RowWritten DEF AccountsInv
<1>6. /\ hand' \in [Hands -> Job] /\ hand'[h].step = "refer" /\ hand'[h].op = hand[h].op
      /\ hand'[h].who = p /\ hand'[h].row = hand[h].row
      /\ \A g \in Hands : g # h => hand'[g] = hand[g]
  BY <1>1, <1>4, HandGoes DEF AccountsInv
<1>7. AccountsTypeOK'
  BY <1>4, <1>5, <1>6 DEF AccountsInv, AccountsTypeOK
<1>8. hand[h].op = "apply" /\ Exists(p)
  BY <1>1, <1>4, HandBusy DEF HandHolds
<1>9. HandHolds(h)'
  BY <1>1, <1>3, <1>5, <1>6, <1>8 DEF HandHolds, Exists
<1>10. \A m \in Matters \ {"referral"} : SameFor(p, m)
  BY <1>1, <1>3, <1>4, <1>5 DEF SameFor, Matters
<1>11. ASSUME Due(h, "referral") PROVE Works(h, p, "referral")' /\ Due(h, "referral")'
  <2>1. Works(h, p, "referral")'
    BY <1>6, <1>8, AboutOps DEF Works
  <2>2. Clear(p, "referral") /\ account[p].refBy = NoOne
    BY <1>1, <1>4, <1>11 DEF Due
  <2>3. \A r \in People : <<r, p>> \notin referrals
    BY <2>2, AccountsAssumption DEF Clear
  <2> QED
    BY <1>1, <1>3, <1>4, <1>5, <1>6, <2>1, <2>3 DEF Due
<1> QED
  BY <1>1, <1>3, <1>4, <1>5, <1>6, <1>7, <1>8, <1>9, <1>10, <1>11, HandSteps, AboutOps

\* A handler that dies before it wrote anything leaves what was; what another leaves
\* half done is remembered.
LEMMA HandDropped ==
    ASSUME AccountsInv, NEW h \in Hands, DropHand(h)
    PROVE  AccountsInv'
<1>1. PICK p \in People : p = hand[h].who
  BY HandBusy DEF DropHand
<1>2. /\ hand[h].step # "idle" /\ Release(h) /\ UNCHANGED <<account, token, trail, referrals, knows>>
      /\ strayed' = IF hand[h].step \in {"create", "recode", "verify", "set", "status", "adopt"}
                    THEN strayed ELSE strayed \cup ({p} \X About(hand[h].op))
  BY <1>1 DEF DropHand
<1>3. About(hand[h].op) \subseteq Matters
  BY AccountFields, AboutOps DEF AccountsInv, Ops, Matters
<1>4. strayed \subseteq strayed' /\ strayed' \subseteq People \X Matters
  BY <1>2, <1>3 DEF AccountsInv, AccountsTypeOK
<1>5. /\ hand'[h].step = "idle" /\ hand'[h].op = "none" /\ hand'[h].who = NoOne
      /\ hand' \in [Hands -> Job] /\ \A g \in Hands : g # h => hand'[g] = hand[g]
  BY <1>2, HandEnds DEF AccountsInv
<1>6. AccountsTypeOK'
  BY <1>2, <1>4, <1>5 DEF AccountsInv, AccountsTypeOK
<1>7. \A m \in Matters : SameFor(p, m)
  BY <1>2 DEF SameFor, Matters
<1>8. CASE hand[h].step = "create"
  <2>1. HandHolds(h)'
    BY <1>5 DEF HandHolds
  <2>2. ASSUME NEW m \in Matters PROVE MatterHolds(p, m)'
    <3>1. ~Works(h, p, m) /\ ~Works(h, p, m)'
      BY <1>5, <1>8, AccountsAssumption DEF Works
    <3>2. MatterHolds(p, m)
      BY DEF AccountsInv
    <3>3. Exists(p) => MatterHolds(p, m)'
      BY <1>4, <1>5, <1>7, <3>1, <3>2, MatterKept
    <3>4. Exists(p)' <=> Exists(p)
      BY <1>2 DEF Exists
    <3> QED
      BY <3>3, <3>4 DEF MatterHolds
  <2>3. Unheard(p)' /\ (Exists(p) => Exists(p)')
    BY <1>2 DEF AccountsInv, Unheard, Exists
  <2> QED
    BY <1>1, <1>2, <1>4, <1>5, <1>6, <2>1, <2>2, <2>3, OthersKept
<1>9. CASE hand[h].step # "create"
  <2>1. \A m \in About(hand[h].op) : Due(h, m) /\ <<p, m>> \notin strayed' => Clear(p, m)'
    <3> SUFFICES ASSUME NEW m \in About(hand[h].op), Due(h, m), <<p, m>> \notin strayed'
                 PROVE  Clear(p, m)'
      OBVIOUS
    <3>1. hand[h].step \in {"recode", "verify", "set", "status", "adopt"}
      BY <1>2, <1>9
    <3>2. Clear(p, m)
      <4>1. CASE m = "pass"
        BY <1>1, <3>1, <4>1, AboutOps, HandBusy DEF Due, HandHolds
      <4>2. CASE m = "code"
        BY <1>1, <3>1, <4>2, AboutOps, HandBusy DEF Due, HandHolds
      <4>3. CASE m = "status"
        BY <1>1, <3>1, <4>3, AboutOps, HandBusy DEF Due, HandHolds
      <4>4. CASE m = "referral"
        BY <1>1, <3>1, <4>4, AboutOps, HandBusy DEF Due, HandHolds
      <4> QED
        BY <1>3, <4>1, <4>2, <4>3, <4>4 DEF Matters
    <3> QED
      BY <1>3, <1>7, <3>2, SameClear
  <2> QED
    BY <1>1, <1>2, <1>4, <1>6, <1>7, <1>9, <2>1, HandFinishes
<1> QED
  BY <1>8, <1>9

\* A step that only tokens see.
LEMMA AccountsFrame ==
    ASSUME AccountsInv, AccountsTypeOK', \A p \in People : token'[p] # "none" => Exists(p),
           UNCHANGED <<account, trail, referrals, hand, knows, strayed>>
    PROVE  AccountsInv'
<1>1. \A h \in Hands : HandHolds(h)'
  BY DEF AccountsInv, HandHolds, Exists
<1>2. ASSUME NEW p \in People PROVE Unheard(p)'
  BY DEF AccountsInv, Unheard, Exists
<1>3. ASSUME NEW p \in People, NEW m \in Matters PROVE MatterHolds(p, m)'
  <2>1. SameFor(p, m)
    BY DEF SameFor, Matters
  <2>2. (Clear(p, m)' <=> Clear(p, m)) /\ \A g \in Hands : hand[g].who = p => (Due(g, m)' <=> Due(g, m))
    BY <2>1, SameClear
  <2>3. \A g \in Hands : Works(g, p, m)' <=> Works(g, p, m)
    BY DEF Works
  <2>4. \A g \in Hands : Works(g, p, m) => hand[g].who = p
    BY DEF Works
  <2>5. MatterHolds(p, m) /\ (Exists(p)' <=> Exists(p)) /\ strayed' = strayed
    BY DEF AccountsInv, Exists
  <2> QED
    BY <2>2, <2>3, <2>4, <2>5 DEF MatterHolds
<1>4. \A p \in People : token'[p] # "none" => Exists(p)'
  BY DEF Exists
<1> QED
  BY <1>1, <1>2, <1>3, <1>4 DEF AccountsInv

\* Somebody signs up.
LEMMA SignupTaken ==
    ASSUME AccountsInv, NEW h \in Hands, NEW p \in People, NEW type \in {"CREATOR", "CONTRIBUTOR"},
           NEW business \in BOOLEAN, NEW x \in Somebody, NEW s \in Secrets,
           Signup(h, p, type, business, x, s)
    PROVE  AccountsInv'
<1>1. PICK kind \in {"business", "personal"} :
          kind = IF business THEN "business" ELSE "personal"
  OBVIOUS
<1>2. PICK a \in Account : a = NewRow
  BY RowConstants
<1>3. PICK r : r = [a EXCEPT !.type = type, !.pass = s, !.code = s, !.refBy = x, !.profile = kind]
  OBVIOUS
<1>4. r \in Account /\ s \in Secret
  BY <1>3 DEF Account, Secret
<1>5. r.role = a.role /\ r.status = a.status /\ r.verified = a.verified /\ r.pass = s /\ r.code = s
  BY <1>3 DEF Account
<1>6. Employ(h, "signup", "create", p, r, s) /\ UNCHANGED <<account, token, trail, referrals, knows>>
  BY <1>1, <1>2, <1>3 DEF Signup
<1>7. "signup" \in Ops /\ "create" \in Steps
  BY DEF Ops, Steps
<1>8. r.role = "USER" /\ r.status = "ACTIVE" /\ ~r.verified
  BY <1>2, <1>5, RowConstants
<1> QED
  BY <1>4, <1>5, <1>6, <1>7, <1>8, Employed

\* The SUPERADMIN enlists somebody.
LEMMA AdminTaken ==
    ASSUME AccountsInv, NEW h \in Hands, NEW by \in People, NEW p \in People,
           NEW role \in {"ADMIN", "SUPERADMIN"}, NEW s \in Secrets, CreateAdmin(h, by, p, role, s)
    PROVE  AccountsInv'
<1>1. PICK a \in Account : a = NewRow
  BY RowConstants
<1>2. PICK r : r = [a EXCEPT !.role = role, !.type = "APPROVER", !.verified = TRUE, !.pass = s]
  OBVIOUS
<1>3. r \in Account /\ s \in Secret
  BY <1>2 DEF Account, Secret
<1>4. r.role = role /\ r.status = a.status /\ r.pass = s /\ r.refBy = a.refBy
  BY <1>2 DEF Account
<1>5. Employ(h, "enlist", "create", p, r, s) /\ UNCHANGED <<account, token, trail, referrals, knows>>
  BY <1>1, <1>2 DEF CreateAdmin, StaffRow
<1>6. "enlist" \in Ops /\ "create" \in Steps
  BY DEF Ops, Steps
<1>7. r.role \in {"ADMIN", "SUPERADMIN"} /\ r.status = "ACTIVE" /\ r.refBy = NoOne
  BY <1>1, <1>4, RowConstants
<1> QED
  BY <1>3, <1>4, <1>5, <1>6, <1>7, Employed

\* A code is applied.
LEMMA CodeTaken ==
    ASSUME AccountsInv, NEW h \in Hands, NEW p \in People, NEW x \in People,
           ApplyReferralCode(h, p, x)
    PROVE  AccountsInv'
<1>1. PICK a \in Account : a = NoRow
  BY RowConstants
<1>2. PICK r : r = [a EXCEPT !.refBy = x]
  OBVIOUS
<1>3. r \in Account /\ r.refBy = x /\ NoSecret \in Secret
  BY <1>2 DEF Account, Somebody, Secret
<1>4. /\ Employ(h, "apply", "adopt", p, r, NoSecret) /\ account[p].refBy = NoOne /\ Exists(p)
      /\ UNCHANGED <<account, token, trail, referrals, knows>>
  BY <1>1, <1>2 DEF ApplyReferralCode, Exists
<1>5. "apply" \in Ops /\ "adopt" \in Steps
  BY DEF Ops, Steps
<1> QED
  BY <1>3, <1>4, <1>5, Employed

\* Everything else that begins at an account that is there.
LEMMA OtherTaken ==
    ASSUME AccountsInv, NEW h \in Hands, NEW p \in People, NEW s \in Secrets,
           \/ ResendVerification(h, p, s) \/ VerifyEmail(h, p)
           \/ \E own \in BOOLEAN : ChangePassword(h, p, own, s) \/ ResetPassword(h, p, own, s)
           \/ ForgotPassword(h, p, s)
           \/ \E by \in People : SuspendUser(h, by, p) \/ UnsuspendUser(h, by, p)
    PROVE  AccountsInv'
<1>1. /\ {"resend", "verify", "change", "reset", "forgot", "suspend", "unsuspend"} \subseteq Ops
      /\ {"recode", "verify", "set", "status"} \subseteq Steps
      /\ s \in Secret /\ NoSecret \in Secret /\ NoRow \in Account
  BY RowConstants DEF Ops, Steps, Secret
<1>2. CASE ResendVerification(h, p, s)
  <2>1. /\ Employ(h, "resend", "recode", p, NoRow, s) /\ Exists(p) /\ ~account[p].verified
        /\ UNCHANGED <<account, token, trail, referrals, knows>>
    BY <1>2 DEF ResendVerification
  <2> QED
    BY <1>1, <2>1, Employed
<1>3. CASE VerifyEmail(h, p)
  <2>1. /\ Employ(h, "verify", "verify", p, NoRow, NoSecret) /\ Exists(p)
        /\ UNCHANGED <<account, token, trail, referrals, knows>>
    BY <1>3 DEF VerifyEmail
  <2> QED
    BY <1>1, <2>1, Employed
<1>4. ASSUME NEW own \in BOOLEAN, ChangePassword(h, p, own, s) \/ ResetPassword(h, p, own, s)
      PROVE  AccountsInv'
  <2>1. PICK op \in {"change", "reset"} : op = IF own THEN "change" ELSE "reset"
    OBVIOUS
  <2>2. /\ Employ(h, op, "set", p, NoRow, s) /\ Exists(p)
        /\ UNCHANGED <<account, token, trail, referrals, knows>>
    <3>1. ChangePassword(h, p, own, s) => Exists(p)
      <4>1. token[p] = "valid" => Exists(p)
        BY DEF AccountsInv
      <4> QED
        BY <4>1 DEF ChangePassword, Authenticated
    <3> QED
      BY <1>4, <2>1, <3>1 DEF ChangePassword, ResetPassword
  <2> QED
    BY <1>1, <2>1, <2>2, Employed
<1>5. CASE ForgotPassword(h, p, s)
  <2>1. /\ Employ(h, "forgot", "set", p, NoRow, s) /\ Exists(p)
        /\ UNCHANGED <<account, token, trail, referrals, knows>>
    BY <1>5 DEF ForgotPassword
  <2> QED
    BY <1>1, <2>1, Employed
<1>6. ASSUME NEW by \in People, SuspendUser(h, by, p) PROVE AccountsInv'
  <2>1. /\ Employ(h, "suspend", "status", p, NoRow, NoSecret) /\ Exists(p)
        /\ UNCHANGED <<account, token, trail, referrals, knows>>
    BY <1>6 DEF SuspendUser
  <2> QED
    BY <1>1, <2>1, Employed
<1>7. ASSUME NEW by \in People, UnsuspendUser(h, by, p) PROVE AccountsInv'
  <2>1. /\ Employ(h, "unsuspend", "status", p, NoRow, NoSecret) /\ Exists(p)
        /\ UNCHANGED <<account, token, trail, referrals, knows>>
    BY <1>7 DEF UnsuspendUser
  <2> QED
    BY <1>1, <2>1, Employed
<1> QED
  BY <1>2, <1>3, <1>4, <1>5, <1>6, <1>7

\* Every step of every handler, whatever else is under way, keeps the account agreeing.
LEMMA AccountsStep == ASSUME AccountsInv, [AccountsNext]_accountVars PROVE AccountsInv'
<1>1. CASE UNCHANGED accountVars
  <2>1. AccountsTypeOK' /\ \A p \in People : token'[p] # "none" => Exists(p)
    BY <1>1 DEF accountVars, AccountsInv, AccountsTypeOK
  <2> QED
    BY <1>1, <2>1, AccountsFrame DEF accountVars
<1>2. ASSUME NEW p \in People, Login(p) \/ RefreshToken(p) \/ TokenExpires(p) PROVE AccountsInv'
  <2>1. PICK t \in {"none", "expired", "valid"} :
            /\ token' = [token EXCEPT ![p] = t] /\ (t # "none" => Exists(p))
            /\ UNCHANGED <<account, trail, referrals, hand, knows, strayed>>
    BY <1>2 DEF Login, RefreshToken, TokenExpires, AccountsInv
  <2>2. AccountsTypeOK' /\ \A q \in People : token'[q] # "none" => Exists(q)
    BY <2>1 DEF AccountsInv, AccountsTypeOK
  <2> QED
    BY <2>1, <2>2, AccountsFrame
<1>3. ASSUME NEW h \in Hands, Entrance(h) PROVE AccountsInv'
  <2>1. PICK s \in Secrets : TRUE
    BY AccountsAssumption
  <2>2. ASSUME NEW p \in People, VerifyEmail(h, p) PROVE AccountsInv'
    BY <2>1, <2>2, OtherTaken
  <2> QED
    BY <1>3, <2>2, SignupTaken, OtherTaken, AccountCreated, ProfileStubbed, Recoded, Verified, Answered
       DEF Entrance
<1>4. ASSUME NEW h \in Hands, Passwords(h) PROVE AccountsInv'
  BY <1>4, OtherTaken, SecretSet, DefaultMailed, Answered DEF Passwords
<1>5. ASSUME NEW h \in Hands, Supervision(h) PROVE AccountsInv'
  <2>1. PICK s \in Secrets : TRUE
    BY AccountsAssumption
  <2>2. ASSUME NEW p \in People, NEW by \in People, SuspendUser(h, by, p) \/ UnsuspendUser(h, by, p)
        PROVE  AccountsInv'
    BY <2>1, <2>2, OtherTaken
  <2> QED
    BY <1>5, <2>2, AdminTaken, AccountCreated, StatusWritten, Audited DEF Supervision
<1>6. ASSUME NEW h \in Hands, Referring(h) PROVE AccountsInv'
  BY <1>6, CodeTaken, Adopted, ReferralCreated DEF Referring
<1> QED
  BY <1>1, <1>2, <1>3, <1>4, <1>5, <1>6, HandDropped DEF AccountsNext, Session

\* What handlers of an account know of each other, in every state.
THEOREM AccountsInvariant == AccountsSpec => []AccountsInv
<1> QED
  BY AccountsStart, AccountsStep, PTL DEF AccountsSpec

\* A matter that nobody is at, and that was not disturbed, is clear.
LEMMA SettledIsClear ==
    ASSUME AccountsInv, NEW p \in People, NEW m \in Matters, Settled(p, m)
    PROVE  Clear(p, m)
<1>1. \A h \in Hands : ~Works(h, p, m)
  BY DEF Settled, Busy, Works
<1> QED
  BY <1>1 DEF AccountsInv, MatterHolds, Settled

\* The owner can log in with the password told last, unless somebody else set the one in
\* force (changePassword, resetPassword, forgotPassword).
THEOREM PasswordKnown == AccountsSpec => []OwnerKnowsPassword
<1>1. ASSUME AccountsInv PROVE OwnerKnowsPassword
  <2> SUFFICES ASSUME NEW p \in People, Settled(p, "pass"), knows[p].own
               PROVE  account[p].pass = knows[p].pass
    BY DEF OwnerKnowsPassword
  <2>1. Clear(p, "pass")
    BY <1>1, SettledIsClear DEF Matters
  <2> QED
    BY <2>1 DEF Clear
<1> QED
  BY <1>1, AccountsInvariant, PTL

\* The code that was shown last verifies the address, once (signup, resendVerification,
\* verifyEmail).
THEOREM CodeWorks == AccountsSpec => []ShownCodeWorks
<1>1. ASSUME AccountsInv PROVE ShownCodeWorks
  <2> SUFFICES ASSUME NEW p \in People, Settled(p, "code"), account[p].role = "USER"
               PROVE  account[p].code = IF account[p].verified THEN NoSecret ELSE knows[p].code
    BY DEF ShownCodeWorks
  <2>1. Clear(p, "code")
    BY <1>1, SettledIsClear DEF Matters
  <2> QED
    BY <2>1 DEF Clear
<1> QED
  BY <1>1, AccountsInvariant, PTL

\* The audit log tells which accounts are suspended (suspendUser, unsuspendUser,
\* createAdmin).
THEOREM AuditTruth == AccountsSpec => []AuditTellsStatus
<1>1. ASSUME AccountsInv PROVE AuditTellsStatus
  <2> SUFFICES ASSUME NEW p \in People, Settled(p, "status")
               PROVE  /\ account[p].status = "SUSPENDED" <=> trail[p] = "SUSPENDED"
                      /\ account[p].role # "USER" => trail[p] # "NONE"
    BY DEF AuditTellsStatus
  <2>1. Clear(p, "status")
    BY <1>1, SettledIsClear DEF Matters
  <2> QED
    BY <2>1 DEF Clear
<1> QED
  BY <1>1, AccountsInvariant, PTL

\* A user's row and the referrals name the same referrer (signup, applyReferralCode).
THEOREM ReferrerIsOne == AccountsSpec => []OneReferrer
<1>1. ASSUME AccountsInv PROVE OneReferrer
  <2> SUFFICES ASSUME NEW p \in People, Settled(p, "referral")
               PROVE  {r \in People : <<r, p>> \in referrals} = {account[p].refBy} \ {NoOne}
    BY DEF OneReferrer
  <2>1. Clear(p, "referral")
    BY <1>1, SettledIsClear DEF Matters
  <2>2. \A r \in People : <<r, p>> \in referrals <=> account[p].refBy = r
    BY <2>1 DEF Clear
  <2>3. account[p].refBy \in People \cup {NoOne}
    BY <1>1, AccountFields DEF AccountsInv, Somebody
  <2> QED
    BY <2>2, <2>3, AccountsAssumption
<1> QED
  BY <1>1, AccountsInvariant, PTL
-----------------------------------------------------------------------------
(* Disputes                                                                 *)

\* Who files a dispute is alone and finds none open.
Files(c, t) == clerk[c].step = "create" /\ clerk[c].of = t

FiledAlone(t) ==
    /\ \A j, k \in OpenOf(t) : j = k
    /\ \A b \in Clerks : Files(b, t) =>
          OpenOf(t) = {} /\ \A c \in Clerks : Files(c, t) => b = c

\* Who decides a dispute is alone, finds it open, and audits what it wrote.
DecidedAlone(k) ==
    \A b \in Clerks : clerk[b].case = k =>
        /\ clerk[b].step = "decide" => dispute[k].status = "OPEN"
        /\ clerk[b].step = "audit" => dispute[k].status = clerk[b].decision
        /\ \A c \in Clerks : clerk[c].case = k => b = c

ClerkWorks(c) ==
    /\ clerk[c].step = "create" => clerk[c].of \in Campaigns
    /\ clerk[c].step \in {"idle", "create"} => clerk[c].case = NoCase
    /\ clerk[c].step \in {"decide", "audit"} =>
          clerk[c].case \in Cases /\ clerk[c].decision \in Decisions

DisputesInv ==
    /\ DisputesTypeOK /\ \A c \in Clerks : ClerkWorks(c)
    /\ \A t \in Campaigns \ doubled : FiledAlone(t)
    /\ \A k \in Cases \ wrangled : DecidedAlone(k)

\* A clerk that goes on leaves the others alone.
LEMMA ClerkSlot ==
    ASSUME DisputesTypeOK, NEW c \in Clerks, NEW m \in Clerk, clerk' = [clerk EXCEPT ![c] = m]
    PROVE  /\ clerk' \in [Clerks -> Clerk] /\ clerk'[c] = m
           /\ \A b \in Clerks : b # c => clerk'[b] = clerk[b]
  BY DEF DisputesTypeOK

\* What the rows and the handlers of disputes hold.
LEMMA ClerkFields ==
    ASSUME DisputesTypeOK
    PROVE  /\ AtEase \in Clerk /\ AtEase.step = "idle" /\ AtEase.case = NoCase
           /\ \A c \in Clerks : /\ clerk[c] \in Clerk
                                /\ clerk[c].step \in {"idle", "create", "decide", "audit"}
           /\ \A k \in Cases : dispute[k] \in Dispute
  BY DEF DisputesTypeOK, Clerk, AtEase, Dispute

\* What a clerk leaves as it was when it writes no dispute.
LEMMA ClerkMoves ==
    ASSUME DisputesInv, NEW c \in Clerks, NEW m \in Clerk, clerk' = [clerk EXCEPT ![c] = m],
           UNCHANGED dispute, filed' \in [Cases -> {"NONE"} \cup Decisions],
           doubled \subseteq doubled', doubled' \subseteq Campaigns,
           wrangled \subseteq wrangled', wrangled' \subseteq Cases,
           /\ m.step = "create" => m.of \in Campaigns
           /\ m.step \in {"idle", "create"} => m.case = NoCase
           /\ m.step \in {"decide", "audit"} => m.case \in Cases /\ m.decision \in Decisions,
           m.step = "create" =>
              /\ OpenOf(m.of) = {}
              /\ m.of \notin doubled' => \A b \in Clerks : ~Files(b, m.of),
           m.case \in Cases \ wrangled' =>
              /\ m.step = "decide" => dispute[m.case].status = "OPEN"
              /\ m.step = "audit" => dispute[m.case].status = m.decision
              /\ \A b \in Clerks : clerk[b].case = m.case => b = c
    PROVE  DisputesInv'
<1>1. /\ clerk' \in [Clerks -> Clerk] /\ clerk'[c] = m
      /\ \A b \in Clerks : b # c => clerk'[b] = clerk[b]
  BY ClerkSlot DEF DisputesInv
<1>2. DisputesTypeOK'
  BY <1>1 DEF DisputesInv, DisputesTypeOK
<1>3. \A b \in Clerks : ClerkWorks(b)'
  BY <1>1 DEF DisputesInv, ClerkWorks
<1>4. ASSUME NEW t \in Campaigns \ doubled' PROVE FiledAlone(t)'
  <2>1. FiledAlone(t)
    BY <1>4 DEF DisputesInv
  <2>2. OpenOf(t)' = OpenOf(t)
    BY DEF OpenOf
  <2>3. \A b \in Clerks : b # c => Files(b, t)' = Files(b, t)
    BY <1>1 DEF Files
  <2>4. Files(c, t)' => OpenOf(t) = {} /\ \A b \in Clerks : ~Files(b, t)
    BY <1>1, <1>4 DEF Files
  <2> QED
    BY <2>1, <2>2, <2>3, <2>4 DEF FiledAlone
<1>5. ASSUME NEW k \in Cases \ wrangled' PROVE DecidedAlone(k)'
  <2>1. DecidedAlone(k)
    BY <1>5 DEF DisputesInv
  <2> QED
    BY <1>1, <1>5, <2>1 DEF DecidedAlone
<1> QED
  BY <1>2, <1>3, <1>4, <1>5 DEF DisputesInv

\* A dispute that is inserted is the only open one; nobody decides it yet.
LEMMA DisputeInserted ==
    ASSUME DisputesInv, NEW c \in Clerks, NEW k \in Cases, InsertDispute(c, k)
    PROVE  DisputesInv'
<1>1. PICK t \in Campaigns : t = clerk[c].of
  BY DEF InsertDispute, DisputesInv, ClerkWorks
<1>2. PICK n : n = [status |-> "OPEN", of |-> t]
  OBVIOUS
<1>3. n \in Dispute /\ n.status = "OPEN" /\ n.of = t
  BY <1>2 DEF Dispute
<1>4. /\ clerk' = [clerk EXCEPT ![c] = AtEase] /\ UNCHANGED <<filed, doubled, wrangled>>
      /\ clerk[c].step = "create" /\ dispute[k].status = "NONE"
      /\ dispute' = [dispute EXCEPT ![k] = n]
  BY <1>1, <1>2 DEF InsertDispute
<1>5. /\ clerk' \in [Clerks -> Clerk] /\ clerk'[c] = AtEase
      /\ \A b \in Clerks : b # c => clerk'[b] = clerk[b]
  BY <1>4, ClerkSlot, ClerkFields DEF DisputesInv
<1>6. dispute'[k] = n /\ \A j \in Cases : j # k => dispute'[j] = dispute[j]
  BY <1>4 DEF DisputesInv, DisputesTypeOK
<1>7. DisputesTypeOK'
  BY <1>3, <1>4, <1>5 DEF DisputesInv, DisputesTypeOK
<1>8. \A b \in Clerks : ClerkWorks(b)'
  BY <1>5, ClerkFields DEF DisputesInv, ClerkWorks
<1>9. ASSUME NEW u \in Campaigns \ doubled' PROVE FiledAlone(u)'
  <2>1. FiledAlone(u)
    BY <1>4, <1>9 DEF DisputesInv
  <2>2. \A b \in Clerks : Files(b, u)' => b # c /\ Files(b, u)
    BY <1>5, ClerkFields DEF Files, DisputesInv
  <2>3. CASE u = t
    <3>1. OpenOf(u) = {} /\ \A b \in Clerks : Files(b, u) => b = c
      BY <1>1, <1>4, <2>1, <2>3 DEF FiledAlone, Files
    <3>2. OpenOf(u)' \subseteq {k}
      BY <1>6, <3>1 DEF OpenOf
    <3> QED
      BY <2>2, <3>1, <3>2 DEF FiledAlone
  <2>4. CASE u # t
    <3>1. OpenOf(u)' = OpenOf(u)
      BY <1>3, <1>4, <1>6, <2>4 DEF OpenOf
    <3> QED
      BY <2>1, <2>2, <3>1 DEF FiledAlone
  <2> QED
    BY <2>3, <2>4
<1>10. ASSUME NEW j \in Cases \ wrangled' PROVE DecidedAlone(j)'
  <2>1. DecidedAlone(j)
    BY <1>4, <1>10 DEF DisputesInv
  <2>2. \A b \in Clerks : clerk'[b].case = j => b # c /\ clerk[b].case = j /\ clerk'[b] = clerk[b]
    BY <1>5, ClerkFields, DisputesAssumption DEF DisputesInv
  <2>3. ASSUME NEW b \in Clerks, clerk[b].case = j PROVE j # k
    <3>1. clerk[b].step \in {"decide", "audit"} /\ clerk[b].decision \in Decisions
      BY <2>3, ClerkFields, DisputesAssumption DEF DisputesInv, ClerkWorks
    <3> QED
      BY <1>4, <2>1, <2>3, <3>1 DEF DecidedAlone, Decisions
  <2> QED
    BY <1>6, <2>1, <2>2, <2>3 DEF DecidedAlone
<1> QED
  BY <1>7, <1>8, <1>9, <1>10 DEF DisputesInv

\* A dispute that is decided is no longer open; who decided it goes on to the audit.
LEMMA DisputeDecided ==
    ASSUME DisputesInv, NEW c \in Clerks, DecideDispute(c)
    PROVE  DisputesInv'
<1>1. PICK k \in Cases, d \in Decisions : k = clerk[c].case /\ d = clerk[c].decision
  BY DEF DecideDispute, DisputesInv, ClerkWorks
<1>2. PICK m : m = [clerk[c] EXCEPT !.step = "audit"]
  OBVIOUS
<1>3. m \in Clerk /\ m.step = "audit" /\ m.case = k /\ m.decision = d
  BY <1>1, <1>2, ClerkFields DEF DisputesInv, Clerk
<1>4. PICK n : n = [dispute[k] EXCEPT !.status = d]
  OBVIOUS
<1>5. n \in Dispute /\ n.status = d /\ n.of = dispute[k].of
  BY <1>4, ClerkFields DEF DisputesInv, Dispute
<1>6. /\ clerk' = [clerk EXCEPT ![c] = m] /\ UNCHANGED <<filed, doubled, wrangled>>
      /\ clerk[c].step = "decide" /\ dispute' = [dispute EXCEPT ![k] = n]
  BY <1>1, <1>2, <1>4 DEF DecideDispute
<1>7. /\ clerk' \in [Clerks -> Clerk] /\ clerk'[c] = m
      /\ \A b \in Clerks : b # c => clerk'[b] = clerk[b]
  BY <1>3, <1>6, ClerkSlot DEF DisputesInv
<1>8. dispute'[k] = n /\ \A j \in Cases : j # k => dispute'[j] = dispute[j]
  BY <1>6 DEF DisputesInv, DisputesTypeOK
<1>9. DisputesTypeOK'
  BY <1>5, <1>6, <1>7 DEF DisputesInv, DisputesTypeOK
<1>10. \A b \in Clerks : ClerkWorks(b)'
  BY <1>3, <1>7 DEF DisputesInv, ClerkWorks
<1>11. ASSUME NEW u \in Campaigns \ doubled' PROVE FiledAlone(u)'
  <2>1. FiledAlone(u)
    BY <1>6, <1>11 DEF DisputesInv
  <2>2. \A b \in Clerks : Files(b, u)' => b # c /\ Files(b, u)
    BY <1>3, <1>7 DEF Files
  <2>3. OpenOf(u)' \subseteq OpenOf(u)
    BY <1>5, <1>8 DEF OpenOf, Decisions
  <2> QED
    BY <2>1, <2>2, <2>3 DEF FiledAlone
<1>12. ASSUME NEW j \in Cases \ wrangled' PROVE DecidedAlone(j)'
  <2>1. DecidedAlone(j)
    BY <1>6, <1>12 DEF DisputesInv
  <2> QED
    BY <1>1, <1>3, <1>5, <1>7, <1>8, <2>1 DEF DecidedAlone
<1> QED
  BY <1>9, <1>10, <1>11, <1>12 DEF DisputesInv

\* Every step keeps what handlers of disputes know.
LEMMA DisputesStep == ASSUME DisputesInv, [DisputesNext]_disputeVars PROVE DisputesInv'
<1>1. CASE UNCHANGED disputeVars
  BY <1>1 DEF disputeVars, DisputesInv, DisputesTypeOK, ClerkWorks, FiledAlone, Files, OpenOf,
              DecidedAlone
<1>2. ASSUME NEW c \in Clerks, NEW t \in Campaigns, CreateCampaignDispute(c, t)
      PROVE  DisputesInv'
  <2>1. PICK m : m = [AtEase EXCEPT !.step = "create", !.of = t]
    OBVIOUS
  <2>2. m \in Clerk /\ m.step = "create" /\ m.of = t /\ m.case = NoCase
    BY <2>1 DEF AtEase, Clerk
  <2>3. /\ clerk' = [clerk EXCEPT ![c] = m] /\ UNCHANGED <<dispute, filed, wrangled>>
        /\ OpenOf(t) = {} /\ doubled' = IF Disputing(t) THEN doubled \cup {t} ELSE doubled
    BY <1>2, <2>1 DEF CreateCampaignDispute
  <2>4. t \notin doubled' => \A b \in Clerks : ~Files(b, t)
    BY <2>3 DEF Disputing, Files
  <2> QED
    BY <2>2, <2>3, <2>4, DisputesAssumption, ClerkMoves DEF DisputesInv, DisputesTypeOK
<1>3. ASSUME NEW c \in Clerks, NEW k \in Cases, NEW decision \in Decisions,
             ResolveCampaignDispute(c, k, decision)
      PROVE  DisputesInv'
  <2>1. PICK m : m = [AtEase EXCEPT !.step = "decide", !.case = k, !.decision = decision]
    OBVIOUS
  <2>2. m \in Clerk /\ m.step = "decide" /\ m.case = k /\ m.decision = decision
    BY <2>1 DEF AtEase, Clerk
  <2>3. /\ clerk' = [clerk EXCEPT ![c] = m] /\ UNCHANGED <<dispute, filed, doubled>>
        /\ dispute[k].status = "OPEN"
        /\ wrangled' = IF Deciding(k) THEN wrangled \cup {k} ELSE wrangled
    BY <1>3, <2>1 DEF ResolveCampaignDispute
  <2>4. k \notin wrangled' => \A b \in Clerks : clerk[b].case # k
    BY <2>3 DEF Deciding
  <2> QED
    BY <2>2, <2>3, <2>4, ClerkMoves DEF DisputesInv, DisputesTypeOK
<1>4. ASSUME NEW c \in Clerks, AuditDispute(c) \/ DropClerk(c) PROVE DisputesInv'
  <2>1. /\ clerk' = [clerk EXCEPT ![c] = AtEase] /\ UNCHANGED <<dispute, doubled>>
        /\ filed' \in [Cases -> {"NONE"} \cup Decisions]
        /\ wrangled \subseteq wrangled' /\ wrangled' \subseteq Cases
    BY <1>4 DEF AuditDispute, DropClerk, DisputesInv, DisputesTypeOK, ClerkWorks
  <2> QED
    BY <2>1, ClerkFields, DisputesAssumption, ClerkMoves DEF DisputesInv, DisputesTypeOK
<1> QED
  BY <1>1, <1>2, <1>3, <1>4, DisputeInserted, DisputeDecided DEF DisputesNext

\* At first there is no dispute.
LEMMA DisputesStart == ASSUME DisputesInit PROVE DisputesInv
  BY DisputesAssumption DEF DisputesInit, DisputesInv, DisputesTypeOK, Dispute, Clerk, AtEase,
     ClerkWorks, FiledAlone, Files, OpenOf, DecidedAlone

\* The invariant of the two handlers of disputes.
THEOREM DisputesInvariant == DisputesSpec => []DisputesInv
<1> QED
  BY DisputesStart, DisputesStep, PTL DEF DisputesSpec

\* At most one dispute of a campaign is open, unless two were filed at the same time
\* (createCampaignDispute).
THEOREM OneDispute == DisputesSpec => []OneOpenDispute
<1>1. DisputesInv => OneOpenDispute
  BY DEF DisputesInv, FiledAlone, OneOpenDispute
<1> QED
  BY <1>1, DisputesInvariant, PTL

\* No decision is taken back, and the audit log has the one the creator was told, unless
\* two members of staff decided at the same time (resolveCampaignDispute).
THEOREM DecisionsStay == DisputesSpec => DecisionIsFinal
<1> DEFINE Final == \A k \in Cases :
              /\ dispute[k].status \in Decisions => dispute'[k] = dispute[k] \/ k \in wrangled
              /\ filed'[k] # filed[k] => filed'[k] = dispute[k].status \/ k \in wrangled
<1>1. ASSUME DisputesInv, [DisputesNext]_disputeVars PROVE Final
  <2> SUFFICES ASSUME NEW k \in Cases \ wrangled
               PROVE  /\ dispute[k].status \in Decisions => dispute'[k] = dispute[k]
                      /\ filed'[k] # filed[k] => filed'[k] = dispute[k].status
    OBVIOUS
  <2>1. DecidedAlone(k)
    BY <1>1 DEF DisputesInv
  <2>2. CASE UNCHANGED disputeVars
    BY <2>2 DEF disputeVars
  <2>3. ASSUME NEW c \in Clerks, NEW j \in Cases, InsertDispute(c, j)
        PROVE  /\ dispute[k].status \in Decisions => dispute'[k] = dispute[k]
               /\ filed' = filed
    BY <1>1, <2>3 DEF InsertDispute, DisputesInv, DisputesTypeOK, Decisions
  <2>4. ASSUME NEW c \in Clerks, DecideDispute(c)
        PROVE  /\ dispute[k].status \in Decisions => dispute'[k] = dispute[k]
               /\ filed' = filed
    BY <1>1, <2>1, <2>4 DEF DecideDispute, DisputesInv, DisputesTypeOK, Decisions, DecidedAlone
  <2>5. ASSUME NEW c \in Clerks, AuditDispute(c)
        PROVE  dispute' = dispute /\ (filed'[k] # filed[k] => filed'[k] = dispute[k].status)
    BY <1>1, <2>1, <2>5 DEF AuditDispute, DisputesInv, DisputesTypeOK, DecidedAlone
  <2> QED
    BY <1>1, <2>2, <2>3, <2>4, <2>5 DEF DisputesNext, CreateCampaignDispute,
       ResolveCampaignDispute, DropClerk
<1>2. DisputesInv /\ [DisputesNext]_disputeVars => [Final]_disputeVars
  BY <1>1
<1> HIDE DEF Final
<1>3. DisputesSpec => [][Final]_disputeVars
  BY <1>2, DisputesInvariant, PTL DEF DisputesSpec
<1> QED
  BY <1>3 DEF DecisionIsFinal, Final

-----------------------------------------------------------------------------
(* Option lists                                                             *)

\* A name of a list has one row, for good: the index knows hidden rows too.
RowsKept(l, x) ==
    /\ \A q, r \in RowsOf(l, x) : q = r
    /\ <<l, x>> \in retired => RowsOf(l, x) # {} /\ Offered(l, x) = {}

OptionsInv ==
    /\ OptionsTypeOK
    /\ \A r \in Rows : option[r] = NoOption
                        \/ (option[r].list \in Lists /\ option[r].label \in Labels)
    /\ \A a \in Adders : adder[a] = NotAdding
                          \/ (adder[a].list \in Lists /\ adder[a].label \in Labels)
    /\ \A l \in Lists \ Unnamed, x \in Labels : RowsKept(l, x)

\* At first there is no option.
LEMMA OptionsStart == ASSUME OptionsInit PROVE OptionsInv
<1>1. /\ NoOption \in Option /\ NotAdding \in Adder /\ NoOption.list = NoList
  BY DEF NoOption, NotAdding, Option, Adder, Somewhere
<1>2. OptionsTypeOK
  BY <1>1 DEF OptionsInit, OptionsTypeOK
<1>3. \A l \in Lists, x \in Labels : RowsOf(l, x) = {} /\ <<l, x>> \notin retired
  BY <1>1, OptionsAssumption DEF OptionsInit, RowsOf
<1> QED
  BY <1>2, <1>3 DEF OptionsInit, OptionsInv, RowsKept

\* A name that is inserted had no row, and was therefore never removed.
LEMMA OptionInserted ==
    ASSUME OptionsInv, NEW a \in Adders, NEW r \in Rows, InsertOption(a, r)
    PROVE  OptionsInv'
<1>1. PICK l \in Lists, x \in Labels : l = adder[a].list /\ x = adder[a].label
  BY DEF InsertOption, OptionsInv
<1>2. PICK n : n = [list |-> l, label |-> x, active |-> TRUE]
  OBVIOUS
<1>3. n \in Option /\ n.list = l /\ n.label = x
  BY <1>2 DEF Option, Somewhere
<1>4. /\ option' = [option EXCEPT ![r] = n] /\ option[r] = NoOption
      /\ l \notin Unnamed => RowsOf(l, x) = {}
      /\ adder' = [adder EXCEPT ![a] = NotAdding] /\ retired' = retired
  BY <1>1, <1>2 DEF InsertOption
<1>5. option'[r] = n /\ \A q \in Rows : q # r => option'[q] = option[q]
  BY <1>4 DEF OptionsInv, OptionsTypeOK
<1>6. NotAdding \in Adder
  BY DEF NotAdding, Adder, Somewhere
<1>7. OptionsTypeOK'
  BY <1>3, <1>4, <1>6 DEF OptionsInv, OptionsTypeOK
<1>8. NoOption.list = NoList
  BY DEF NoOption
<1>9. ASSUME NEW k \in Lists \ Unnamed, NEW y \in Labels PROVE RowsKept(k, y)'
  <2>1. RowsKept(k, y)
    BY DEF OptionsInv
  <2>2. CASE k = l /\ y = x
    <3>1. RowsOf(k, y)' = {r} /\ <<k, y>> \notin retired
      BY <1>3, <1>4, <1>5, <2>1, <2>2 DEF RowsOf, RowsKept
    <3> QED
      BY <1>4, <3>1 DEF RowsKept
  <2>3. CASE ~(k = l /\ y = x)
    <3>1. r \notin RowsOf(k, y) /\ r \notin RowsOf(k, y)'
      BY <1>3, <1>4, <1>5, <1>8, <2>3, OptionsAssumption DEF RowsOf
    <3>2. RowsOf(k, y)' = RowsOf(k, y) /\ Offered(k, y)' = Offered(k, y)
      BY <1>5, <3>1 DEF RowsOf, Offered
    <3> QED
      BY <1>4, <2>1, <3>2 DEF RowsKept
  <2> QED
    BY <2>2, <2>3
<1>10. \A q \in Rows : option'[q] = NoOption
                       \/ (option'[q].list \in Lists /\ option'[q].label \in Labels)
  BY <1>3, <1>5 DEF OptionsInv
<1>11. \A b \in Adders : adder'[b] = NotAdding
                         \/ (adder'[b].list \in Lists /\ adder'[b].label \in Labels)
  BY <1>4 DEF OptionsInv, OptionsTypeOK
<1> QED
  BY <1>7, <1>9, <1>10, <1>11 DEF OptionsInv

\* A row that is removed keeps its name.
LEMMA OptionRemoved ==
    ASSUME OptionsInv, NEW r \in Rows, RemoveOption(r)
    PROVE  OptionsInv'
<1>1. PICK l \in Lists, x \in Labels : l = option[r].list /\ x = option[r].label
  BY DEF RemoveOption, OptionsInv
<1>2. PICK n : n = [option[r] EXCEPT !.active = FALSE]
  OBVIOUS
<1>3. n \in Option /\ n.list = l /\ n.label = x /\ ~n.active
  <2>1. option[r] \in Option
    BY DEF OptionsInv, OptionsTypeOK
  <2> QED
    BY <1>1, <1>2, <2>1 DEF Option
<1>4. /\ option' = [option EXCEPT ![r] = n] /\ option[r] # NoOption
      /\ retired' = retired \cup {<<l, x>>} /\ adder' = adder
  BY <1>1, <1>2 DEF RemoveOption
<1>5. option'[r] = n /\ \A q \in Rows : q # r => option'[q] = option[q]
  BY <1>4 DEF OptionsInv, OptionsTypeOK
<1>6. OptionsTypeOK'
  BY <1>3, <1>4 DEF OptionsInv, OptionsTypeOK
<1>7. \A k \in Lists, y \in Labels : RowsOf(k, y)' = RowsOf(k, y)
  BY <1>1, <1>3, <1>5 DEF RowsOf
<1>8. \A k \in Lists, y \in Labels : Offered(k, y)' = Offered(k, y) \ {r}
  BY <1>3, <1>5, <1>7 DEF Offered, RowsOf
<1>9. r \in RowsOf(l, x)
  BY <1>1 DEF RowsOf
<1>10. ASSUME NEW k \in Lists \ Unnamed, NEW y \in Labels PROVE RowsKept(k, y)'
  <2>1. RowsKept(k, y)
    BY DEF OptionsInv
  <2>2. Offered(k, y) \subseteq RowsOf(k, y)
    BY DEF Offered
  <2>3. CASE k = l /\ y = x
    BY <1>7, <1>8, <1>9, <2>1, <2>2, <2>3 DEF RowsKept
  <2>4. CASE ~(k = l /\ y = x)
    <3>1. <<k, y>> \in retired' => <<k, y>> \in retired
      BY <1>4, <2>4
    <3> QED
      BY <1>7, <1>8, <2>1, <3>1 DEF RowsKept
  <2> QED
    BY <2>3, <2>4
<1>11. \A q \in Rows : option'[q] = NoOption
                       \/ (option'[q].list \in Lists /\ option'[q].label \in Labels)
  BY <1>3, <1>5 DEF OptionsInv
<1> QED
  BY <1>4, <1>6, <1>10, <1>11 DEF OptionsInv

\* Every step keeps the lists free of options offered twice.
LEMMA OptionsStep == ASSUME OptionsInv, [OptionsNext]_optionVars PROVE OptionsInv'
<1>1. ASSUME UNCHANGED <<option, retired>>, adder' \in [Adders -> Adder],
             \A a \in Adders : adder'[a] = NotAdding
                               \/ (adder'[a].list \in Lists /\ adder'[a].label \in Labels)
      PROVE  OptionsInv'
  <2>1. \A l \in Lists, x \in Labels : RowsKept(l, x)' = RowsKept(l, x)
    BY <1>1 DEF RowsKept, Offered, RowsOf
  <2> QED
    BY <1>1, <2>1 DEF OptionsInv, OptionsTypeOK
<1>2. CASE UNCHANGED optionVars
  BY <1>1, <1>2 DEF optionVars, OptionsInv, OptionsTypeOK
<1>3. ASSUME NEW a \in Adders, NEW l \in Lists, NEW x \in Labels, AddOption(a, l, x)
      PROVE  OptionsInv'
  BY <1>1, <1>3 DEF AddOption, OptionsInv, OptionsTypeOK, Adder, Somewhere
<1>4. ASSUME NEW a \in Adders, DropAdder(a) PROVE OptionsInv'
  <2>1. NotAdding \in Adder
    BY DEF NotAdding, Adder, Somewhere
  <2> QED
    BY <1>1, <1>4, <2>1 DEF DropAdder, OptionsInv, OptionsTypeOK
<1> QED
  BY <1>2, <1>3, <1>4, OptionInserted, OptionRemoved DEF OptionsNext

\* No form offers an option twice, or one that was removed, but for the lists whose names
\* no index keeps unique (utilities.service.ts).
THEOREM OptionsOfferedOnce == OptionsSpec => []OfferedOnce
<1>1. OptionsInv => OfferedOnce
  BY DEF OptionsInv, RowsKept, OfferedOnce, Offered
<1>2. OptionsSpec => []OptionsInv
  BY OptionsStart, OptionsStep, PTL DEF OptionsSpec
<1> QED
  BY <1>1, <1>2, PTL

-----------------------------------------------------------------------------
(* Texts and briefs                                                         *)

\* A handler that is alone at a campaign is the only one there, and the text it is going
\* to describe is the one it wrote; until then nothing is promised of the brief.
AuthorWorks(a) ==
    LET d == author[a].on
    IN  /\ author[a].step \in {"save", "update", "rebrief"} => d \in Drafts
        /\ author[a].step \in {"idle", "brief", "insert"} => d = NoDraft
        /\ d \in Drafts => draft[d].status # "NONE"
        /\ author[a].alone /\ d \in Drafts => \A b \in Authors : author[b].on = d => b = a
        /\ author[a].step \in {"save", "rebrief"} => author[a].dto.title # Omitted
        /\ author[a].step = "insert" /\ author[a].dto.title \in Offensive => author[a].waved
        /\ author[a].step = "rebrief" => d \in adrift
        /\ author[a].step = "rebrief" /\ author[a].alone /\ author[a].dto.notes # Omitted =>
              draft[d].text = author[a].dto

DraftsInv ==
    /\ DraftsTypeOK /\ \A a \in Authors : AuthorWorks(a)
    /\ BriefMatchesText /\ OffensiveOnlyUnscreened

\* What the rows of campaigns and the handlers at them hold.
LEMMA AuthorFields ==
    ASSUME DraftsTypeOK
    PROVE  /\ \A a \in Authors : author[a] \in Author /\ author[a].dto \in Text
           /\ \A d \in Drafts : draft[d] \in Draft /\ draft[d].text \in Text
           /\ Resting \in Author /\ Resting.step = "idle" /\ Resting.on = NoDraft /\ Resting.alone
           /\ NoText \in Text /\ NoText.title = Omitted
  BY DEF DraftsTypeOK, Author, Draft, Resting, NoText, Text

\* At first there is no campaign.
LEMMA DraftsStart == ASSUME DraftsInit PROVE DraftsInv
<1>1. NoText \in Text /\ NoText.title \notin Offensive /\ Resting \in Author
  BY DraftsAssumption DEF NoText, Text, Resting, Author
<1>2. DraftsTypeOK
  BY <1>1 DEF DraftsInit, DraftsTypeOK, Draft
<1>3. \A a \in Authors : AuthorWorks(a)
  BY DraftsAssumption DEF DraftsInit, AuthorWorks, Resting
<1> QED
  BY <1>1, <1>2, <1>3 DEF DraftsInit, DraftsInv, BriefMatchesText, OffensiveOnlyUnscreened

\* A handler that ends, or begins to create a campaign, writes nothing.
LEMMA AuthorRests ==
    ASSUME DraftsInv, NEW a \in Authors, NEW m \in Author, author' = [author EXCEPT ![a] = m],
           m.on = NoDraft, m.step \in {"idle", "insert"},
           m.step = "insert" /\ m.dto.title \in Offensive => m.waved,
           UNCHANGED <<draft, adrift, unscreened>>
    PROVE  DraftsInv'
<1>1. /\ author' \in [Authors -> Author] /\ author'[a] = m
      /\ \A b \in Authors : b # a => author'[b] = author[b]
  BY DEF DraftsInv, DraftsTypeOK
<1>2. DraftsTypeOK'
  BY <1>1 DEF DraftsInv, DraftsTypeOK
<1>3. \A b \in Authors : AuthorWorks(b)'
  BY <1>1, DraftsAssumption DEF DraftsInv, AuthorWorks
<1> QED
  BY <1>2, <1>3 DEF DraftsInv, BriefMatchesText, OffensiveOnlyUnscreened

\* A campaign is created with the brief of its own text.
LEMMA TaskInserted ==
    ASSUME DraftsInv, NEW a \in Authors, NEW d \in Drafts, InsertTask(a, d)
    PROVE  DraftsInv'
<1>1. PICK dto \in Text : dto = author[a].dto
  BY AuthorFields DEF DraftsInv
<1>2. PICK b \in {dto, NoText} :
          draft' = [draft EXCEPT ![d] = [status |-> "DRAFT", text |-> dto, brief |-> b,
                                         context |-> dto]]
  <2>1. PICK made \in GenerateTaskBrief(dto) :
            draft' = [draft EXCEPT ![d] = [status |-> "DRAFT", text |-> dto,
                                           brief |-> made.brief, context |-> made.context]]
    BY <1>1 DEF InsertTask
  <2>2. PICK b \in {dto, NoText} : made = [brief |-> b, context |-> dto]
    BY DEF GenerateTaskBrief
  <2>3. made.brief = b /\ made.context = dto
    BY <2>2
  <2> QED
    BY <2>1, <2>3
<1>3. PICK n : n = [status |-> "DRAFT", text |-> dto, brief |-> b, context |-> dto]
  OBVIOUS
<1>4. /\ n \in Draft /\ n.status = "DRAFT" /\ n.text = dto /\ n.context = dto
      /\ n.brief \in {dto, NoText}
  BY <1>3, AuthorFields DEF Draft, DraftsInv
<1>5. /\ author[a].step = "insert" /\ draft[d].status = "NONE" /\ draft' = [draft EXCEPT ![d] = n]
      /\ author' = [author EXCEPT ![a] = Resting] /\ adrift' = adrift
      /\ unscreened' = IF author[a].waved THEN unscreened \cup {d} ELSE unscreened
  BY <1>2, <1>3 DEF InsertTask
<1>6. draft'[d] = n /\ \A e \in Drafts : e # d => draft'[e] = draft[e]
  BY <1>5 DEF DraftsInv, DraftsTypeOK
<1>7. author'[a] = Resting /\ \A b1 \in Authors : b1 # a => author'[b1] = author[b1]
  BY <1>5 DEF DraftsInv, DraftsTypeOK
<1>8. DraftsTypeOK'
  BY <1>4, <1>5, AuthorFields DEF DraftsInv, DraftsTypeOK
<1>9. \A c \in Authors : AuthorWorks(c)'
  <2> SUFFICES ASSUME NEW c \in Authors PROVE AuthorWorks(c)'
    OBVIOUS
  <2>1. CASE c = a
    BY <1>7, <2>1, AuthorFields, DraftsAssumption DEF DraftsInv, AuthorWorks
  <2>2. CASE c # a
    <3>1. author[c].on # d
      BY <1>5 DEF DraftsInv, AuthorWorks
    <3>2. \A e \in Authors : author'[e].on = author[e].on
      BY <1>5, <1>7, AuthorFields DEF DraftsInv, AuthorWorks
    <3>3. author[c].on \in Drafts => draft'[author[c].on] = draft[author[c].on]
      BY <1>6, <3>1
    <3> QED
      BY <1>5, <1>7, <2>2, <3>2, <3>3 DEF DraftsInv, AuthorWorks
  <2> QED
    BY <2>1, <2>2
<1>10. BriefMatchesText'
  BY <1>4, <1>5, <1>6 DEF DraftsInv, BriefMatchesText
<1>11. OffensiveOnlyUnscreened'
  BY <1>1, <1>4, <1>5, <1>6 DEF DraftsInv, OffensiveOnlyUnscreened, AuthorWorks
<1> QED
  BY <1>8, <1>9, <1>10, <1>11 DEF DraftsInv

\* A handler that reads a campaign is alone when no other is at it, and ends the
\* loneliness of the others.
LEMMA TaskTaken ==
    ASSUME DraftsInv, NEW a \in Authors, NEW d \in Drafts, NEW step \in {"save", "update"},
           NEW dto \in Text, step = "save" => dto.title # Omitted,
           author[a] = Resting, draft[d].status # "NONE", Take(a, d, step, dto),
           UNCHANGED <<draft, adrift, unscreened>>
    PROVE  DraftsInv'
<1>1. PICK m : m = [Resting EXCEPT !.step = step, !.on = d, !.dto = dto, !.alone = At(d) = {}]
  OBVIOUS
<1>2. /\ m \in Author /\ m.step = step /\ m.on = d /\ m.dto = dto
      /\ m.alone <=> At(d) = {}
  BY <1>1 DEF Resting, Author
<1>3. /\ author'[a] = m
      /\ \A b \in Authors : b # a /\ author[b].on # d => author'[b] = author[b]
      /\ \A b \in Authors : b # a /\ author[b].on = d =>
            author'[b] = [author[b] EXCEPT !.alone = FALSE]
  BY <1>1 DEF Take, At
<1>4. \A b \in Authors : b # a =>
          /\ author'[b] \in Author /\ author'[b].step = author[b].step
          /\ author'[b].on = author[b].on /\ author'[b].dto = author[b].dto
          /\ author'[b].waved = author[b].waved
          /\ author'[b].alone => author[b].alone /\ author[b].on # d
  <2> SUFFICES ASSUME NEW b \in Authors, b # a, author[b].on = d
               PROVE  /\ author'[b] \in Author /\ author'[b].step = author[b].step
                      /\ author'[b].on = author[b].on /\ author'[b].dto = author[b].dto
                      /\ author'[b].waved = author[b].waved /\ ~author'[b].alone
    BY <1>3, AuthorFields DEF DraftsInv
  <2>1. PICK r \in Author : r = author[b]
    BY AuthorFields DEF DraftsInv
  <2>2. PICK x : x = [r EXCEPT !.alone = FALSE]
    OBVIOUS
  <2>3. /\ x.step = r.step /\ x.on = r.on /\ x.dto = r.dto /\ x.waved = r.waved
        /\ x \in Author
    BY <2>2 DEF Author
  <2>4. x.alone = FALSE
    BY <2>2 DEF Author
  <2> QED
    BY <1>3, <2>1, <2>2, <2>3, <2>4
<1>5. author' \in [Authors -> Author]
  BY <1>2, <1>3, <1>4 DEF Take
<1>6. DraftsTypeOK'
  BY <1>5 DEF DraftsInv, DraftsTypeOK
<1>7. \A c \in Authors : AuthorWorks(c)'
  <2> SUFFICES ASSUME NEW c \in Authors PROVE AuthorWorks(c)'
    OBVIOUS
  <2>1. CASE c = a
    BY <1>2, <1>3, <1>4, <2>1 DEF AuthorWorks, At
  <2>2. CASE c # a
    BY <1>2, <1>3, <1>4, <2>2 DEF DraftsInv, AuthorWorks
  <2> QED
    BY <2>1, <2>2
<1> QED
  BY <1>6, <1>7 DEF DraftsInv, BriefMatchesText, OffensiveOnlyUnscreened

\* Writing every field writes the text of the request.
LEMMA MergedText ==
    ASSUME NEW text \in Text, NEW dto \in Text
    PROVE  /\ Merged(text, dto) \in Text
           /\ dto.title # Omitted /\ dto.notes # Omitted => Merged(text, dto) = dto
<1>1. PICK r : r = Merged(text, dto)
  OBVIOUS
<1>2. /\ r = [f \in {"title", "notes"} |-> IF dto[f] = Omitted THEN text[f] ELSE dto[f]]
      /\ r.title = IF dto.title = Omitted THEN text.title ELSE dto.title
      /\ r.notes = IF dto.notes = Omitted THEN text.notes ELSE dto.notes
  BY <1>1 DEF Merged
<1>3. r = [title |-> r.title, notes |-> r.notes] /\ r.title \in Titles \cup {Omitted}
      /\ r.notes \in Notes \cup {Omitted}
  BY <1>2 DEF Text
<1>4. r \in Text
  BY <1>3 DEF Text
<1>5. dto = [title |-> dto.title, notes |-> dto.notes]
  BY DEF Text
<1> QED
  BY <1>1, <1>2, <1>3, <1>4, <1>5

\* The text is written: the brief is behind until it is written again.
LEMMA TextWritten ==
    ASSUME DraftsInv, NEW a \in Authors, WriteText(a)
    PROVE  DraftsInv'
<1>1. PICK d \in Drafts, dto \in Text : d = author[a].on /\ dto = author[a].dto
  BY AuthorFields DEF WriteText, DraftsInv, AuthorWorks
<1>2. PICK x \in Text : x = Merged(draft[d].text, dto)
  BY MergedText, AuthorFields DEF DraftsInv
<1>3. PICK n : n = [draft[d] EXCEPT !.text = x]
  OBVIOUS
<1>4. n \in Draft /\ n.status = draft[d].status /\ n.text = x
  BY <1>3, AuthorFields DEF DraftsInv, Draft
<1>5. /\ author[a].step \in {"save", "update"} /\ draft' = [draft EXCEPT ![d] = n]
      /\ adrift' = adrift \cup {d} /\ unscreened' = unscreened \cup {d}
  BY <1>1, <1>2, <1>3 DEF WriteText
<1>6. draft'[d] = n /\ \A e \in Drafts : e # d => draft'[e] = draft[e]
  BY <1>5 DEF DraftsInv, DraftsTypeOK
<1>7. PICK m : m = IF author[a].step = "save" THEN [author[a] EXCEPT !.step = "rebrief"] ELSE Resting
  OBVIOUS
<1>8. /\ m \in Author
      /\ m # Resting => m.step = "rebrief" /\ author[a].step = "save" /\ m.on = d /\ m.dto = dto
      /\ m # Resting /\ m.alone => author[a].alone
  BY <1>1, <1>7, AuthorFields DEF DraftsInv, Author
<1>9. /\ author' \in [Authors -> Author] /\ author'[a] = m
      /\ \A b \in Authors : b # a => author'[b] = author[b]
  <2>1. author \in [Authors -> Author] /\ m \in Author
    BY <1>8, AuthorFields DEF DraftsInv, DraftsTypeOK
  <2>2. author' = [author EXCEPT ![a] = m]
    BY <1>7, <2>1 DEF WriteText
  <2> QED
    BY <2>1, <2>2
<1>10. DraftsTypeOK'
  BY <1>4, <1>5, <1>9 DEF DraftsInv, DraftsTypeOK
<1>11. ASSUME NEW c \in Authors PROVE AuthorWorks(c)'
  <2>1. \A e \in Drafts : draft'[e].status = draft[e].status
    BY <1>4, <1>6
  <2>2. \A b \in Authors, e \in Drafts : author'[b].on = e => author[b].on = e
    BY <1>1, <1>8, <1>9, AuthorFields, DraftsAssumption DEF DraftsInv
  <2>3. CASE c = a /\ m = Resting
    BY <1>9, <2>3, AuthorFields, DraftsAssumption DEF DraftsInv, AuthorWorks
  <2>4. CASE c = a /\ m # Resting
    <3>1. author'[c].step = "rebrief" /\ author'[c].on = d /\ author'[c].dto = dto
      BY <1>8, <1>9, <2>4
    <3>2. dto.title # Omitted
      BY <1>1, <1>8, <2>4 DEF DraftsInv, AuthorWorks
    <3>3. dto.notes # Omitted => draft'[d].text = dto
      BY <1>2, <1>4, <1>6, <3>2, AuthorFields, MergedText DEF DraftsInv
    <3>4. draft'[d].status # "NONE"
      BY <1>1, <2>1 DEF DraftsInv, AuthorWorks
    <3>5. author'[c].alone => \A b \in Authors : author'[b].on = d => b = c
      <4>1. author'[c].alone => author[c].alone
        BY <1>8, <1>9, <2>4
      <4>2. author[c].alone => \A b \in Authors : author[b].on = d => b = c
        BY <1>1, <2>4 DEF DraftsInv, AuthorWorks
      <4> QED
        BY <2>2, <4>1, <4>2
    <3> QED
      BY <1>5, <3>1, <3>2, <3>3, <3>4, <3>5, DraftsAssumption DEF AuthorWorks
  <2>5. CASE c # a
    <3>1. author'[c] = author[c] /\ AuthorWorks(c)
      BY <1>9, <2>5 DEF DraftsInv
    <3>2. author[c].on = d => ~author[c].alone
      BY <1>1, <2>5, <3>1 DEF AuthorWorks
    <3>3. author[c].on \in Drafts /\ author[c].on # d => draft'[author[c].on] = draft[author[c].on]
      BY <1>6
    <3> QED
      BY <1>5, <2>1, <2>2, <3>1, <3>2, <3>3 DEF AuthorWorks
  <2> QED
    BY <2>3, <2>4, <2>5
<1>12. BriefMatchesText'
  BY <1>5, <1>6 DEF DraftsInv, BriefMatchesText
<1>13. OffensiveOnlyUnscreened'
  BY <1>5, <1>6 DEF DraftsInv, OffensiveOnlyUnscreened
<1> QED
  BY <1>10, <1>11, <1>12, <1>13 DEF DraftsInv

\* The brief of the request is written: of the text too, when the handler was alone.
LEMMA BriefWritten ==
    ASSUME DraftsInv, NEW a \in Authors, WriteBrief(a)
    PROVE  DraftsInv'
<1>1. PICK d \in Drafts, dto \in Text : d = author[a].on /\ dto = author[a].dto
  BY AuthorFields DEF WriteBrief, DraftsInv, AuthorWorks
<1>2. PICK b \in {dto, NoText} :
          draft' = [draft EXCEPT ![d].brief = b, ![d].context = dto]
  <2>1. PICK made \in GenerateTaskBrief(dto) :
            draft' = [draft EXCEPT ![d].brief = made.brief, ![d].context = made.context]
    BY <1>1 DEF WriteBrief
  <2>2. PICK b \in {dto, NoText} : made = [brief |-> b, context |-> dto]
    BY DEF GenerateTaskBrief
  <2>3. made.brief = b /\ made.context = dto
    BY <2>2
  <2> QED
    BY <2>1, <2>3
<1>3. PICK n : n = [draft[d] EXCEPT !.brief = b, !.context = dto]
  OBVIOUS
<1>4. /\ n \in Draft /\ n.status = draft[d].status /\ n.text = draft[d].text
      /\ n.brief = b /\ n.context = dto
  BY <1>3, AuthorFields DEF DraftsInv, Draft
<1>5. /\ draft \in [Drafts -> Draft] /\ draft'[d] = n /\ draft' \in [Drafts -> Draft]
      /\ \A e \in Drafts : e # d => draft'[e] = draft[e]
  BY <1>2, <1>3, <1>4 DEF DraftsInv, DraftsTypeOK
<1>6. /\ author[a].step = "rebrief" /\ author' = [author EXCEPT ![a] = Resting]
      /\ unscreened' = unscreened
      /\ adrift' = IF author[a].alone /\ dto.notes # Omitted THEN adrift \ {d} ELSE adrift
  BY <1>1 DEF WriteBrief
<1>7. /\ author' \in [Authors -> Author] /\ author'[a] = Resting
      /\ \A c \in Authors : c # a => author'[c] = author[c]
  BY <1>6, AuthorFields DEF DraftsInv, DraftsTypeOK
<1>8. DraftsTypeOK'
  BY <1>5, <1>6, <1>7 DEF DraftsInv, DraftsTypeOK
<1>9. \A e \in Drafts : draft'[e].status = draft[e].status /\ draft'[e].text = draft[e].text
  BY <1>4, <1>5
<1>10. ASSUME NEW c \in Authors PROVE AuthorWorks(c)'
  <2>1. CASE c = a
    BY <1>7, <2>1, AuthorFields, DraftsAssumption DEF DraftsInv, AuthorWorks
  <2>2. CASE c # a
    <3>1. author'[c] = author[c] /\ AuthorWorks(c)
      BY <1>7, <2>2 DEF DraftsInv
    <3>2. \A e \in Authors, f \in Drafts : author'[e].on = f => author[e].on = f
      BY <1>7, AuthorFields, DraftsAssumption DEF DraftsInv
    <3>3. author[c].step = "rebrief" => author[c].on \in adrift'
      <4>1. author[a].alone => author[c].on # d
        BY <1>1, <2>2 DEF DraftsInv, AuthorWorks
      <4> QED
        BY <1>6, <3>1, <4>1 DEF AuthorWorks
    <3> QED
      BY <1>9, <3>1, <3>2, <3>3 DEF AuthorWorks
  <2> QED
    BY <2>1, <2>2
<1>11. BriefMatchesText'
  <2> SUFFICES ASSUME NEW e \in Drafts \ adrift'
               PROVE  /\ draft'[e].context = draft'[e].text
                      /\ draft'[e].brief \in {draft'[e].text, NoText}
    BY DEF BriefMatchesText
  <2>1. CASE e = d
    <3>1. author[a].alone /\ dto.notes # Omitted
      BY <1>1, <1>6, <2>1 DEF DraftsInv, AuthorWorks
    <3>2. draft[d].text = dto
      BY <1>1, <1>6, <3>1 DEF DraftsInv, AuthorWorks
    <3> QED
      BY <1>4, <1>5, <2>1, <3>2
  <2>2. CASE e # d
    BY <1>5, <1>6, <2>2 DEF DraftsInv, BriefMatchesText
  <2> QED
    BY <2>1, <2>2
<1>12. OffensiveOnlyUnscreened'
  BY <1>6, <1>9 DEF DraftsInv, OffensiveOnlyUnscreened
<1> QED
  BY <1>8, <1>10, <1>11, <1>12 DEF DraftsInv

\* A campaign is published or ends with the text and the brief it has.
LEMMA DraftMoves ==
    ASSUME DraftsInv, NEW d \in Drafts, PublishTask(d) \/ EndTask(d)
    PROVE  DraftsInv'
<1>1. PICK status \in {"ACTIVE", "COMPLETED"} :
          /\ draft' = [draft EXCEPT ![d].status = status]
          /\ UNCHANGED <<author, adrift, unscreened>>
  BY DEF PublishTask, EndTask
<1>2. PICK n : n = [draft[d] EXCEPT !.status = status]
  OBVIOUS
<1>3. /\ n \in Draft /\ n.status = status /\ n.text = draft[d].text
      /\ n.brief = draft[d].brief /\ n.context = draft[d].context
  BY <1>2, AuthorFields DEF DraftsInv, Draft
<1>4. /\ draft' \in [Drafts -> Draft] /\ draft'[d] = n
      /\ \A e \in Drafts : e # d => draft'[e] = draft[e]
  BY <1>1, <1>2, <1>3 DEF DraftsInv, DraftsTypeOK
<1>5. \A e \in Drafts : /\ draft'[e].text = draft[e].text /\ draft'[e].brief = draft[e].brief
                        /\ draft'[e].context = draft[e].context
                        /\ draft[e].status # "NONE" => draft'[e].status # "NONE"
  BY <1>3, <1>4
<1>6. DraftsTypeOK'
  BY <1>1, <1>4 DEF DraftsInv, DraftsTypeOK
<1>7. \A c \in Authors : AuthorWorks(c)'
  BY <1>1, <1>5 DEF DraftsInv, AuthorWorks
<1> QED
  BY <1>1, <1>5, <1>6, <1>7 DEF DraftsInv, BriefMatchesText, OffensiveOnlyUnscreened

\* Every step keeps what handlers at texts and briefs know.
LEMMA DraftsStep == ASSUME DraftsInv, [DraftsNext]_draftVars PROVE DraftsInv'
<1>1. CASE UNCHANGED draftVars
  BY <1>1 DEF draftVars, DraftsInv, DraftsTypeOK, AuthorWorks, BriefMatchesText,
              OffensiveOnlyUnscreened
<1>2. ASSUME NEW a \in Authors, NEW dto \in Whole, CreateTask(a, dto) PROVE DraftsInv'
  <2>1. PICK m : m = [Resting EXCEPT !.step = "insert", !.dto = dto, !.waved = dto.title \in Offensive]
    OBVIOUS
  <2>2. dto \in Text
    BY DEF Whole
  <2>3. (dto.title \in Offensive) \in BOOLEAN
    OBVIOUS
  <2>4. m.step = "insert" /\ m.on = NoDraft /\ m.dto = dto /\ m.alone = TRUE
    BY <2>1 DEF Resting
  <2>5. m.waved <=> dto.title \in Offensive
    BY <2>1 DEF Resting
  <2>6. m \in Author
    BY ONLY <2>1, <2>2, <2>3 DEF Resting, Author
  <2>7. author' = [author EXCEPT ![a] = m] /\ UNCHANGED <<draft, adrift, unscreened>>
    BY <1>2, <2>1 DEF CreateTask
  <2> QED
    BY <2>4, <2>5, <2>6, <2>7, AuthorRests
<1>3. ASSUME NEW a \in Authors, DropAuthor(a) PROVE DraftsInv'
  BY <1>3, AuthorRests, AuthorFields DEF DropAuthor, DraftsInv
<1>4. ASSUME NEW a \in Authors, NEW d \in Drafts, NEW dto \in Text, UpdateTask(a, d, dto)
      PROVE  DraftsInv'
  BY <1>4, TaskTaken DEF UpdateTask
<1>5. ASSUME NEW a \in Authors, NEW d \in Drafts, NEW dto \in Whole, SaveDraft(a, d, dto)
      PROVE  DraftsInv'
  BY <1>5, TaskTaken DEF SaveDraft, Whole
<1> QED
  BY <1>1, <1>2, <1>3, <1>4, <1>5, TaskInserted, TextWritten, BriefWritten, DraftMoves DEF DraftsNext

\* What handlers that write texts and briefs know of each other.
THEOREM DraftsInvariant == DraftsSpec => []DraftsInv
<1> QED
  BY DraftsStart, DraftsStep, PTL DEF DraftsSpec

\* The brief is about the campaign as it is when its last change was a creation, or a
\* whole save that ran alone (createTask, saveDraft).
THEOREM BriefIsOfText == DraftsSpec => []BriefMatchesText
<1>1. DraftsInv => BriefMatchesText
  BY DEF DraftsInv
<1> QED
  BY <1>1, DraftsInvariant, PTL

\* A text the moderator rejects is in no campaign but those that were edited, or created
\* while the provider was out of reach (moderateTaskContent).
THEOREM OffensiveTextUnscreened == DraftsSpec => []OffensiveOnlyUnscreened
<1>1. DraftsInv => OffensiveOnlyUnscreened
  BY DEF DraftsInv
<1> QED
  BY <1>1, DraftsInvariant, PTL

-----------------------------------------------------------------------------
(* Broadcast                                                                *)

\* The last of a page, and the first one after a page, exist.
LEMMA Extremes ==
    ASSUME NEW S, S \subseteq Nat, IsFiniteSet(S), S # {}
    PROVE  (\E p \in S : \A q \in S : p <= q) /\ (\E p \in S : \A q \in S : q <= p)
<1> DEFINE R == StrictSubsetOrdering(S)
<1>1. IsWellFoundedOn(R, SUBSET S)
  BY FS_StrictSubsetOrderingWellFounded, FS_FiniteSubsetsOfFinite
<1> HIDE DEF R
<1>2. \E p \in S : \A q \in S : p <= q
  <2> DEFINE Below(p) == {q \in S : q <= p}
             T == {Below(p) : p \in S}
  <2>1. T \subseteq SUBSET S /\ T # {}
    OBVIOUS
  <2>2. PICK x \in T : \A y \in T : <<y, x>> \notin R
    <3> HIDE DEF T
    <3> QED
      BY <1>1, <2>1, WFMin
  <2>3. PICK p \in S : x = Below(p)
    OBVIOUS
  <2>4. ASSUME NEW q \in S PROVE p <= q
    <3>1. SUFFICES ASSUME q < p PROVE FALSE
      BY <2>4
    <3>2. Below(q) \subseteq Below(p) /\ p \in Below(p) /\ p \notin Below(q)
      <4>1. p \in Nat /\ q \in Nat /\ \A r \in S : r \in Nat
        BY <2>3, <2>4
      <4>2. ASSUME NEW r \in Below(q) PROVE r \in Below(p)
        BY <3>1, <4>1, <4>2
      <4>3. p \in Below(p) /\ p \notin Below(q)
        BY <3>1, <4>1
      <4> HIDE DEF Below
      <4> QED
        BY <4>2, <4>3
    <3>3. Below(q) \in T /\ Below(q) \in SUBSET S /\ Below(p) \in SUBSET S
      OBVIOUS
    <3>4. <<Below(q), x>> \in R
      <4> HIDE DEF Below, T
      <4> QED
        BY <2>3, <3>2, <3>3 DEF R, StrictSubsetOrdering
    <3> QED
      BY <2>2, <3>3, <3>4
  <2> QED
    BY <2>4
<1>3. \E p \in S : \A q \in S : q <= p
  <2> DEFINE Above(p) == {q \in S : p <= q}
             T == {Above(p) : p \in S}
  <2>1. T \subseteq SUBSET S /\ T # {}
    OBVIOUS
  <2>2. PICK x \in T : \A y \in T : <<y, x>> \notin R
    <3> HIDE DEF T
    <3> QED
      BY <1>1, <2>1, WFMin
  <2>3. PICK p \in S : x = Above(p)
    OBVIOUS
  <2>4. ASSUME NEW q \in S PROVE q <= p
    <3>1. SUFFICES ASSUME p < q PROVE FALSE
      BY <2>4
    <3>2. Above(q) \subseteq Above(p) /\ p \in Above(p) /\ p \notin Above(q)
      <4>1. p \in Nat /\ q \in Nat /\ \A r \in S : r \in Nat
        BY <2>3, <2>4
      <4>2. ASSUME NEW r \in Above(q) PROVE r \in Above(p)
        BY <3>1, <4>1, <4>2
      <4>3. p \in Above(p) /\ p \notin Above(q)
        BY <3>1, <4>1
      <4> HIDE DEF Above
      <4> QED
        BY <4>2, <4>3
    <3>3. Above(q) \in T /\ Above(q) \in SUBSET S /\ Above(p) \in SUBSET S
      OBVIOUS
    <3>4. <<Above(q), x>> \in R
      <4> HIDE DEF Above, T
      <4> QED
        BY <2>3, <3>2, <3>3 DEF R, StrictSubsetOrdering
    <3> QED
      BY <2>2, <3>3, <3>4
  <2> QED
    BY <2>4
<1> QED
  BY <1>2, <1>3

\* The same of the operators.
LEMMA ExtremeElements ==
    ASSUME NEW S, S \subseteq Nat, IsFiniteSet(S), S # {}
    PROVE  /\ Lowest(S) \in S /\ \A q \in S : Lowest(S) <= q
           /\ Highest(S) \in S /\ \A q \in S : q <= Highest(S)
  BY Extremes DEF Lowest, Highest

\* Whom the first n of a set leave out comes after all of them, and then they are n.
LEMMA FirstOfIsFull ==
    ASSUME NEW S, S \subseteq Nat, IsFiniteSet(S), NEW n \in Nat \ {0}
    PROVE  /\ FirstOf(S, n) \subseteq S
           /\ \A p \in FirstOf(S, n), q \in S : q <= p => q \in FirstOf(S, n)
           /\ FirstOf(S, n) # S => Cardinality(FirstOf(S, n)) = n
<1> DEFINE Below(p) == {q \in S : q <= p}
           F == FirstOf(S, n)
<1>1. F \subseteq S /\ \A p \in S : p \in F <=> Cardinality(Below(p)) <= n
  BY DEF FirstOf
<1>2. \A p \in S : IsFiniteSet(Below(p)) /\ Cardinality(Below(p)) \in Nat
  BY FS_Subset, FS_CardinalityType
<1>3. ASSUME NEW p \in F, NEW q \in S, q <= p PROVE q \in F
  <2>1. Below(q) \subseteq Below(p) /\ p \in S
    <3>1. p \in Nat /\ q \in Nat /\ p \in S /\ \A r \in S : r \in Nat
      BY <1>1, <1>3
    <3>2. ASSUME NEW r \in Below(q) PROVE r \in Below(p)
      BY <1>3, <3>1, <3>2
    <3> QED
      BY <3>1, <3>2
  <2>2. Cardinality(Below(q)) <= Cardinality(Below(p))
    <3> HIDE DEF Below
    <3> QED
      BY <1>2, <2>1, FS_Subset
  <2> QED
    BY <1>1, <1>2, <2>1, <2>2
<1>4. ASSUME F # S PROVE Cardinality(F) = n
  <2>1. S \ F \subseteq Nat /\ IsFiniteSet(S \ F) /\ S \ F # {} /\ IsFiniteSet(F)
    BY <1>1, <1>4, FS_Subset
  <2>2. PICK m \in S \ F : \A q \in S \ F : m <= q
    <3> HIDE DEF F
    <3> QED
      BY <2>1, Extremes
  <2>3. Below(m) = F \cup {m}
    <3>1. ASSUME NEW q \in F PROVE q \in Below(m)
      <4>1. q \in S /\ q \in Nat /\ m \in S /\ m \in Nat /\ m \notin F
        BY <1>1, <2>2, <3>1
      <4>2. ~(m <= q)
        BY <1>3, <3>1, <4>1
      <4> QED
        BY <4>1, <4>2
    <3>2. ASSUME NEW q \in Below(m) PROVE q \in F \cup {m}
      BY <2>2, <3>2
    <3> QED
      BY <3>1, <3>2, <2>2
  <2>4. Cardinality(Below(m)) = Cardinality(F) + 1 /\ Cardinality(F) \in Nat
    <3>1. m \notin F
      BY <2>2
    <3> HIDE DEF F, Below
    <3> QED
      BY <2>1, <2>3, <3>1, FS_AddElement, FS_CardinalityType
  <2>5. n <= Cardinality(F)
    BY <1>1, <1>2, <2>2, <2>4
  <2>6. F # {}
    <3> HIDE DEF F
    <3> QED
      BY <2>5, FS_EmptySet
  <2>7. PICK x \in F : \A q \in F : q <= x
    <3>1. F \subseteq Nat
      BY <1>1
    <3> HIDE DEF F
    <3> QED
      BY <2>1, <2>6, <3>1, Extremes
  <2>8. Below(x) = F
    BY <1>1, <1>3, <2>7
  <2>9. Cardinality(F) <= n
    <3>1. x \in S /\ x \in F /\ Cardinality(Below(x)) <= n
      BY <1>1, <2>7
    <3> QED
      BY <2>8, <3>1
  <2> QED
    BY <2>4, <2>5, <2>9
<1> QED
  BY <1>1, <1>3, <1>4

\* In broadcast b, nobody after the cursor and nobody left in the batch was mailed yet; up to
\* the cursor everybody was who was reachable all the time, but for spilt mails.
CursorSplits(b) ==
    /\ \A p \in Readers :
          /\ mails[b][p] \in {0, 1}
          /\ p > herald[b].cursor \/ p \in herald[b].batch => mails[b][p] = 0
          /\ /\ p \in loyal[b] \ spilt[b] /\ b \notin forsaken
             /\ p <= herald[b].cursor /\ p \notin herald[b].batch
             => mails[b][p] = 1
    /\ \A p \in herald[b].batch : p <= herald[b].cursor

\* Where broadcast b is: the cursor is still there, and after the last page nobody is left.
HeraldKnows(b) ==
    /\ herald[b].step = "waiting" => herald[b].cursor = 0
    /\ herald[b].step # "send" => herald[b].batch = {}
    /\ herald[b].cursor # 0 /\ b \notin forsaken => herald[b].cursor \in reachable
    /\ /\ b \notin forsaken
       /\ \/ herald[b].step = "done"
          \/ herald[b].step = "send" /\ ~herald[b].full
       => \A p \in loyal[b] : p <= herald[b].cursor

\* Both, of broadcast b.
OnItsWay(b) == loyal[b] \subseteq reachable /\ CursorSplits(b) /\ HeraldKnows(b)

BroadcastInv ==
    /\ BroadcastTypeOK
    /\ \A b \in Heralds : OnItsWay(b)

\* What a broadcast's record holds.
LEMMA HeraldFields ==
    ASSUME NEW h \in Herald
    PROVE  /\ h.step \in {"waiting", "page", "send", "done"}
           /\ h.cursor \in Nat /\ h.cursor \in Readers \cup {0}
           /\ h.batch \subseteq Readers /\ h.full \in BOOLEAN
<1>1. /\ h.step \in {"waiting", "page", "send", "done"}
      /\ h.cursor \in Readers \cup {0}
      /\ h.batch \in SUBSET Readers /\ h.full \in BOOLEAN
  BY DEF Herald
<1>2. Readers \cup {0} \subseteq Nat
  BY BroadcastAssumption
<1>3. h.cursor \in Nat
  BY <1>1, <1>2
<1> QED
  BY <1>1, <1>3

\* What is known of broadcast b.
LEMMA HeraldTyped ==
    ASSUME BroadcastInv, NEW b \in Heralds
    PROVE  /\ herald[b] \in Herald /\ herald[b].cursor \in Nat /\ herald[b].batch \subseteq Readers
           /\ mails[b] \in [Readers -> Nat] /\ loyal[b] \subseteq reachable
           /\ loyal[b] \subseteq Readers /\ spilt[b] \subseteq Readers
           /\ reachable \subseteq Readers /\ Readers \subseteq Nat \ {0}
           /\ IsFiniteSet(reachable) /\ PageSize \in Nat \ {0}
           /\ CursorSplits(b) /\ HeraldKnows(b)
<1>1. herald[b] \in Herald /\ reachable \subseteq Readers
  BY DEF BroadcastInv, BroadcastTypeOK
<1> QED
  BY <1>1, HeraldFields, BroadcastAssumption, FS_Subset
     DEF BroadcastInv, BroadcastTypeOK, OnItsWay

\* Before they start nobody was mailed.
LEMMA BroadcastInitially == BroadcastInit => BroadcastInv
<1> SUFFICES ASSUME BroadcastInit PROVE BroadcastInv
  OBVIOUS
<1>1. Unborn \in Herald /\ Unborn.step = "waiting" /\ Unborn.cursor = 0 /\ Unborn.batch = {}
  BY DEF Unborn, Herald
<1>2. BroadcastTypeOK
  BY <1>1 DEF BroadcastInit, BroadcastTypeOK
<1>3. ASSUME NEW b \in Heralds PROVE OnItsWay(b)
  <2>1. /\ herald[b].step = "waiting" /\ herald[b].cursor = 0 /\ herald[b].batch = {}
        /\ loyal[b] = {}
        /\ \A p \in Readers : mails[b][p] = 0 /\ p \in Nat /\ p > 0
    BY <1>1, BroadcastAssumption DEF BroadcastInit
  <2> QED
    BY <2>1 DEF OnItsWay, CursorSplits, HeraldKnows
<1> QED
  BY <1>2, <1>3 DEF BroadcastInv

\* A step of one broadcast leaves the others where they are.
LEMMA OthersOnTheirWay ==
    ASSUME BroadcastInv, NEW b \in Heralds, NEW c \in Heralds, UNCHANGED reachable,
           /\ herald'[c] = herald[c] /\ mails'[c] = mails[c]
           /\ loyal'[c] = loyal[c] /\ spilt'[c] = spilt[c],
           c \in forsaken' <=> c \in forsaken
    PROVE  OnItsWay(c)'
  BY DEF BroadcastInv, OnItsWay, CursorSplits, HeraldKnows

\* The next page: all of it comes after the cursor, and nobody is passed over as long as
\* the cursor's user is still there.
LEMMA PageAfterCursor ==
    ASSUME BroadcastInv, NEW b \in Heralds
    PROVE  /\ Page(b) \subseteq reachable /\ IsFiniteSet(Page(b))
           /\ \A p \in Page(b) : p > herald[b].cursor
           /\ b \notin forsaken => \A p \in Page(b), q \in reachable :
                              herald[b].cursor < q /\ q <= p => q \in Page(b)
           /\ b \notin forsaken /\ Cardinality(Page(b)) # PageSize =>
                 \A q \in reachable : q > herald[b].cursor => q \in Page(b)
<1>0. /\ herald[b].cursor \in Nat /\ reachable \subseteq Readers /\ Readers \subseteq Nat \ {0}
      /\ IsFiniteSet(reachable) /\ PageSize \in Nat \ {0} /\ HeraldKnows(b)
  BY HeraldTyped
<1> DEFINE rows == {p \in reachable : p >= herald[b].cursor}
           rest == IF herald[b].cursor = 0 \/ rows = {} THEN rows ELSE rows \ {Lowest(rows)}
<1>1. rows \subseteq reachable /\ rows \subseteq Nat /\ IsFiniteSet(rows)
  BY <1>0, FS_Subset
<1>2. rows # {} => Lowest(rows) \in rows /\ \A q \in rows : Lowest(rows) <= q
  <2> HIDE DEF rows
  <2> QED
    BY <1>1, ExtremeElements
<1>3. rest \subseteq rows /\ IsFiniteSet(rest) /\ rest \subseteq Nat
  <2>1. rest \subseteq rows
    OBVIOUS
  <2> HIDE DEF rest, rows
  <2> QED
    BY <1>1, <2>1, FS_Subset
<1>4. ASSUME NEW p \in rest PROVE p > herald[b].cursor
  <2>1. p \in rows /\ p \in Nat /\ p >= herald[b].cursor
    BY <1>3, <1>4
  <2>2. CASE herald[b].cursor = 0
    BY <1>0, <1>1, <2>1, <2>2
  <2>3. CASE herald[b].cursor # 0
    <3>1. SUFFICES ASSUME p = herald[b].cursor PROVE FALSE
      BY <1>0, <2>1
    <3>2. Lowest(rows) \in rows /\ Lowest(rows) <= p /\ Lowest(rows) >= herald[b].cursor
          /\ Lowest(rows) \in Nat
      BY <1>1, <1>2, <2>1
    <3>3. Lowest(rows) = p
      BY <1>0, <3>1, <3>2
    <3> QED
      BY <1>4, <2>1, <2>3, <3>3
  <2> QED
    BY <2>2, <2>3
<1>5. ASSUME b \notin forsaken, NEW q \in reachable, q > herald[b].cursor PROVE q \in rest
  <2>0. q \in Nat /\ herald[b].cursor \in Nat /\ q >= herald[b].cursor
    <3> HIDE DEF rows, rest
    <3>1. q \in Nat /\ herald[b].cursor \in Nat
      BY <1>0
    <3>2. \A i, j \in Nat : i > j => i >= j
      OBVIOUS
    <3> QED
      BY <1>5, <3>1, <3>2
  <2>1. q \in rows /\ q \in Nat
    BY <1>5, <2>0
  <2>2. CASE herald[b].cursor = 0
    BY <2>1, <2>2
  <2>3. CASE herald[b].cursor # 0
    <3>1. herald[b].cursor \in rows
      BY <1>0, <1>5, <2>3 DEF HeraldKnows
    <3>2. Lowest(rows) <= herald[b].cursor /\ Lowest(rows) \in Nat
      BY <1>1, <1>2, <3>1
    <3>3. Lowest(rows) # q
      BY <1>0, <1>5, <2>1, <3>2
    <3> QED
      BY <2>1, <3>3
  <2> QED
    BY <2>2, <2>3
<1>6. Page(b) = FirstOf(rest, PageSize)
  BY DEF Page
<1> HIDE DEF rows, rest
<1>7. /\ Page(b) \subseteq rest
      /\ \A p \in Page(b), q \in rest : q <= p => q \in Page(b)
      /\ Page(b) # rest => Cardinality(Page(b)) = PageSize
  BY <1>0, <1>3, <1>6, FirstOfIsFull
<1>8. Page(b) \subseteq reachable /\ IsFiniteSet(Page(b))
  BY <1>1, <1>3, <1>7, FS_Subset
<1>9. ASSUME b \notin forsaken, NEW p \in Page(b), NEW q \in reachable,
             herald[b].cursor < q, q <= p
      PROVE  q \in Page(b)
  <2>1. q > herald[b].cursor
    BY <1>0, <1>9
  <2> QED
    BY <1>5, <1>7, <1>9, <2>1
<1> QED
  BY <1>4, <1>5, <1>7, <1>8, <1>9

\* A page is found.
LEMMA PageFound ==
    ASSUME BroadcastInv, NEW b \in Heralds, FindContributors(b)
    PROVE  BroadcastInv'
<1>0. /\ herald[b] \in Herald /\ herald[b].step = "page" /\ herald[b].cursor \in Nat
      /\ herald[b].batch = {} /\ CursorSplits(b) /\ HeraldKnows(b)
      /\ reachable \subseteq Readers /\ Readers \subseteq Nat \ {0} /\ loyal[b] \subseteq reachable
      /\ UNCHANGED <<reachable, mails, loyal, spilt, forsaken>>
  BY HeraldTyped DEF HeraldKnows, FindContributors
<1> SUFFICES ASSUME NEW n \in Herald, herald' = [herald EXCEPT ![b] = n]
             PROVE  herald'[b] = n => OnItsWay(b)'
  <2>1. PICK n : n = IF Page(b) = {} THEN [herald[b] EXCEPT !.step = "done"]
                     ELSE [herald[b] EXCEPT !.step = "send", !.batch = Page(b),
                             !.cursor = Highest(Page(b)), !.full = Cardinality(Page(b)) = PageSize]
    OBVIOUS
  <2>2. herald' = [herald EXCEPT ![b] = n]
    BY <2>1 DEF FindContributors
  <2>3. n \in Herald
    <3>1. Page(b) # {} => Highest(Page(b)) \in Page(b)
      <4>1. Page(b) \subseteq Nat /\ IsFiniteSet(Page(b))
        BY <1>0, PageAfterCursor
      <4> QED
        BY <4>1, ExtremeElements
    <3>2. Page(b) \subseteq Readers
      BY <1>0, PageAfterCursor
    <3> QED
      BY <1>0, <2>1, <3>1, <3>2 DEF Herald
  <2>4. herald'[b] = n /\ \A c \in Heralds : c # b => herald'[c] = herald[c]
    BY <2>2 DEF BroadcastInv, BroadcastTypeOK
  <2>5. \A c \in Heralds : c # b => OnItsWay(c)'
    BY <1>0, <2>4, OthersOnTheirWay
  <2>6. BroadcastTypeOK'
    BY <1>0, <2>2, <2>3 DEF BroadcastInv, BroadcastTypeOK
  <2> QED
    BY <2>2, <2>3, <2>4, <2>5, <2>6 DEF BroadcastInv
<1> SUFFICES ASSUME herald'[b] = n PROVE OnItsWay(b)'
  OBVIOUS
<1>00. n = IF Page(b) = {} THEN [herald[b] EXCEPT !.step = "done"]
           ELSE [herald[b] EXCEPT !.step = "send", !.batch = Page(b),
                   !.cursor = Highest(Page(b)), !.full = Cardinality(Page(b)) = PageSize]
  BY DEF FindContributors, BroadcastInv, BroadcastTypeOK
<1>1. CASE Page(b) = {}
  <2>2. n.step = "done" /\ n.cursor = herald[b].cursor /\ n.batch = {}
    BY <1>0, <1>00, <1>1 DEF Herald
  <2>4. b \notin forsaken => \A p \in loyal[b] : p <= herald[b].cursor
    <3>1. Cardinality(Page(b)) # PageSize
      BY <1>1, FS_EmptySet, BroadcastAssumption
    <3>2. b \notin forsaken => \A p \in reachable : ~(p > herald[b].cursor)
      BY <1>1, <3>1, PageAfterCursor
    <3>3. \A p \in loyal[b] : p \in reachable /\ p \in Nat
      BY <1>0
    <3> QED
      BY <1>0, <3>2, <3>3
  <2>5. CursorSplits(b)'
    BY <1>0, <2>2 DEF CursorSplits
  <2>6. HeraldKnows(b)'
    BY <1>0, <2>2, <2>4 DEF HeraldKnows
  <2> QED
    BY <1>0, <2>5, <2>6 DEF OnItsWay
<1>2. CASE Page(b) # {}
  <2>0. PICK P : P = Page(b)
    OBVIOUS
  <2>1. PICK x : x = Highest(P)
    OBVIOUS
  <2>2. x \in P /\ (\A q \in P : q <= x) /\ P \subseteq Readers /\ x \in Nat
        /\ P \subseteq reachable /\ x > herald[b].cursor
    <3>1. P \subseteq Nat /\ IsFiniteSet(P) /\ P \subseteq reachable /\ P # {}
          /\ \A p \in P : p > herald[b].cursor
      BY <1>0, <1>2, <2>0, PageAfterCursor
    <3> QED
      BY <1>0, <2>1, <3>1, ExtremeElements
  <2>4. n.step = "send" /\ n.cursor = x /\ n.batch = P
        /\ n.full = (Cardinality(P) = PageSize)
    BY <1>0, <1>00, <1>2, <2>0, <2>1 DEF Herald
  <2>6. CursorSplits(b)'
    <3>1. ASSUME NEW p \in Readers
          PROVE  /\ mails[b][p] \in {0, 1}
                 /\ p > x \/ p \in P => mails[b][p] = 0
                 /\ p \in loyal[b] \ spilt[b] /\ b \notin forsaken /\ p <= x /\ p \notin P
                       => mails[b][p] = 1
      <4>1. p > x \/ p \in P => p > herald[b].cursor
        BY <1>0, <2>0, <2>2, PageAfterCursor
      <4>2. ASSUME p \in loyal[b] \ spilt[b], b \notin forsaken, p <= x, p \notin P
            PROVE  mails[b][p] = 1
        <5>1. p \in reachable /\ ~(herald[b].cursor < p)
          BY <1>0, <2>0, <2>2, <4>2, PageAfterCursor
        <5>2. p <= herald[b].cursor /\ p \notin herald[b].batch
          BY <1>0, <5>1
        <5> QED
          BY <1>0, <4>2, <5>2 DEF CursorSplits
      <4> QED
        BY <1>0, <4>1, <4>2 DEF CursorSplits
    <3> QED
      BY <1>0, <2>2, <2>4, <3>1 DEF CursorSplits
  <2>7. HeraldKnows(b)'
    <3>1. b \notin forsaken /\ Cardinality(P) # PageSize => \A q \in loyal[b] : q <= x
      <4>1. SUFFICES ASSUME b \notin forsaken, Cardinality(P) # PageSize, NEW q \in loyal[b]
                     PROVE  q <= x
        OBVIOUS
      <4>2. q \in reachable /\ q \in Nat
        BY <1>0
      <4>3. q > herald[b].cursor => q \in P
        BY <2>0, <4>1, <4>2, PageAfterCursor
      <4> QED
        BY <1>0, <2>2, <4>2, <4>3
    <3> QED
      BY <1>0, <2>2, <2>4, <3>1 DEF HeraldKnows
  <2> QED
    BY <1>0, <2>6, <2>7 DEF OnItsWay
<1> QED
  BY <1>1, <1>2

\* A chunk is sent: who is in it leaves the batch, mailed or spilt.
LEMMA ChunkSent ==
    ASSUME BroadcastInv, NEW b \in Heralds, NEW taken \in SUBSET herald[b].batch,
           SendChunk(b, taken)
    PROVE  BroadcastInv'
<1>0. PICK m : m = [p \in Readers |-> mails[b][p] + (IF p \in taken THEN 1 ELSE 0)]
  OBVIOUS
<1>1. PICK chunk : chunk = FirstOf(herald[b].batch, BatchLimit)
  OBVIOUS
<1>2. /\ chunk \subseteq herald[b].batch /\ taken \subseteq chunk
      /\ herald[b] \in Herald /\ herald[b].step = "send" /\ herald[b].batch \subseteq Readers
      /\ mails[b] \in [Readers -> Nat] /\ spilt[b] \subseteq Readers
      /\ loyal[b] \subseteq reachable /\ CursorSplits(b) /\ HeraldKnows(b)
      /\ mails' = [mails EXCEPT ![b] = m]
      /\ spilt' = [spilt EXCEPT ![b] = @ \cup (chunk \ taken)]
      /\ UNCHANGED <<reachable, loyal, forsaken>>
  BY <1>0, <1>1, HeraldTyped DEF SendChunk, FirstOf
<1>3. PICK n : n = [herald[b] EXCEPT !.step = AfterChunk(b, chunk), !.batch = @ \ chunk]
  OBVIOUS
<1>4. /\ n \in Herald /\ n.cursor = herald[b].cursor /\ n.full = herald[b].full
      /\ n.batch = herald[b].batch \ chunk /\ n.step = AfterChunk(b, chunk)
      /\ n.step \in {"send", "page", "done"}
  BY <1>2, <1>3 DEF Herald, AfterChunk
<1>5. herald' = [herald EXCEPT ![b] = n]
  BY <1>1, <1>3 DEF SendChunk, BroadcastInv, BroadcastTypeOK
<1>6. /\ herald'[b] = n /\ mails'[b] = m /\ spilt'[b] = spilt[b] \cup (chunk \ taken)
      /\ \A c \in Heralds : c # b =>
            herald'[c] = herald[c] /\ mails'[c] = mails[c] /\ spilt'[c] = spilt[c]
  BY <1>2, <1>5 DEF BroadcastInv, BroadcastTypeOK
<1>7. ASSUME NEW p \in Readers
      PROVE  /\ m[p] \in {0, 1}
             /\ p > n.cursor \/ p \in n.batch => m[p] = 0
             /\ p \in loyal[b] \ spilt'[b] /\ b \notin forsaken /\ p <= n.cursor /\ p \notin n.batch
                  => m[p] = 1
  <2>1. m[p] = mails[b][p] + (IF p \in taken THEN 1 ELSE 0)
    BY <1>0
  <2>2. /\ mails[b][p] \in {0, 1}
        /\ p > herald[b].cursor \/ p \in herald[b].batch => mails[b][p] = 0
        /\ p \in herald[b].batch => p <= herald[b].cursor
        /\ /\ p \in loyal[b] \ spilt[b] /\ b \notin forsaken
           /\ p <= herald[b].cursor /\ p \notin herald[b].batch
           => mails[b][p] = 1
    <3>1. CursorSplits(b)
      BY <1>2
    <3> QED
      BY <3>1 DEF CursorSplits
  <2>3. p \in Nat /\ herald[b].cursor \in Nat
    BY HeraldTyped
  <2>4. CASE p \in taken
    BY <1>2, <1>4, <1>6, <2>1, <2>2, <2>3, <2>4
  <2>5. CASE p \notin taken
    BY <1>2, <1>4, <1>6, <2>1, <2>2, <2>3, <2>5
  <2> QED
    BY <2>4, <2>5
<1>8. CursorSplits(b)'
  BY <1>2, <1>4, <1>6, <1>7 DEF CursorSplits
<1>9. HeraldKnows(b)'
  <2>1. /\ n.step # "send" => n.batch = {}
        /\ n.step = "done" => ~herald[b].full
    BY <1>2, <1>4 DEF AfterChunk
  <2> QED
    BY <1>2, <1>4, <1>6, <2>1 DEF HeraldKnows
<1>10. BroadcastTypeOK'
  <2>1. m \in [Readers -> Nat]
    BY <1>0, <1>2
  <2>2. spilt[b] \cup (chunk \ taken) \subseteq Readers
    BY <1>2
  <2> QED
    BY <1>2, <1>4, <1>5, <2>1, <2>2 DEF BroadcastInv, BroadcastTypeOK
<1>11. \A c \in Heralds : c # b => OnItsWay(c)'
  BY <1>2, <1>6, OthersOnTheirWay
<1> QED
  BY <1>2, <1>8, <1>9, <1>10, <1>11 DEF BroadcastInv, OnItsWay

\* A broadcast starts, or dies.
LEMMA BroadcastStartsOrDies ==
    ASSUME BroadcastInv, NEW b \in Heralds, Publish(b) \/ DropHerald(b)
    PROVE  BroadcastInv'
<1>1. /\ herald[b] \in Herald /\ herald[b].cursor \in Nat /\ loyal[b] \subseteq reachable
      /\ CursorSplits(b) /\ HeraldKnows(b) /\ reachable \subseteq Readers
      /\ \A p \in Readers : p \in Nat /\ p > 0
  BY HeraldTyped
<1>2. CASE Publish(b)
  <2>1. PICK n : n = [herald[b] EXCEPT !.step = "page"]
    OBVIOUS
  <2>2. /\ n \in Herald /\ n.step = "page" /\ n.cursor = 0 /\ n.batch = {}
        /\ herald[b].cursor = 0 /\ herald[b].batch = {}
    BY <1>1, <1>2, <2>1 DEF Herald, Publish, HeraldKnows
  <2>3. /\ herald' = [herald EXCEPT ![b] = n] /\ loyal' = [loyal EXCEPT ![b] = reachable]
        /\ UNCHANGED <<reachable, mails, spilt, forsaken>>
    BY <1>2, <2>1 DEF Publish, BroadcastInv, BroadcastTypeOK
  <2>4. /\ herald'[b] = n /\ loyal'[b] = reachable
        /\ \A c \in Heralds : c # b => herald'[c] = herald[c] /\ loyal'[c] = loyal[c]
    BY <2>3 DEF BroadcastInv, BroadcastTypeOK
  <2>5. \A p \in Readers : mails[b][p] \in {0, 1} /\ mails[b][p] = 0 /\ ~(p <= 0)
    BY <1>1, <2>2 DEF CursorSplits
  <2>6. CursorSplits(b)'
    BY <2>2, <2>3, <2>4, <2>5 DEF CursorSplits
  <2>7. HeraldKnows(b)'
    BY <2>2, <2>3, <2>4 DEF HeraldKnows
  <2>8. \A c \in Heralds : c # b => OnItsWay(c)'
    BY <2>3, <2>4, OthersOnTheirWay
  <2>9. BroadcastTypeOK'
    BY <1>1, <2>2, <2>3 DEF BroadcastInv, BroadcastTypeOK
  <2> QED
    BY <2>3, <2>4, <2>6, <2>7, <2>8, <2>9 DEF BroadcastInv, OnItsWay
<1>3. CASE DropHerald(b)
  <2>1. PICK n : n = [herald[b] EXCEPT !.step = "done", !.batch = {}]
    OBVIOUS
  <2>2. n \in Herald /\ n.step = "done" /\ n.cursor = herald[b].cursor /\ n.batch = {}
    BY <1>1, <2>1 DEF Herald
  <2>3. /\ herald' = [herald EXCEPT ![b] = n] /\ forsaken' = forsaken \cup {b}
        /\ UNCHANGED <<reachable, mails, loyal, spilt>>
    BY <1>3, <2>1 DEF DropHerald, BroadcastInv, BroadcastTypeOK
  <2>4. herald'[b] = n /\ \A c \in Heralds : c # b => herald'[c] = herald[c]
    BY <2>3 DEF BroadcastInv, BroadcastTypeOK
  <2>5. CursorSplits(b)'
    BY <1>1, <2>2, <2>3, <2>4 DEF CursorSplits
  <2>6. HeraldKnows(b)'
    BY <2>2, <2>3, <2>4 DEF HeraldKnows
  <2>7. \A c \in Heralds : c # b => OnItsWay(c)'
    BY <2>3, <2>4, OthersOnTheirWay
  <2>8. BroadcastTypeOK'
    BY <2>2, <2>3 DEF BroadcastInv, BroadcastTypeOK
  <2> QED
    BY <1>1, <2>3, <2>5, <2>6, <2>7, <2>8 DEF BroadcastInv, OnItsWay
<1> QED
  BY <1>2, <1>3

\* Users come and go: who goes is loyal no more, and the cursor's user is missed.
LEMMA UsersComeAndGo ==
    ASSUME BroadcastInv, NEW p \in Readers, Admit(p) \/ Suspend(p)
    PROVE  BroadcastInv'
<1>1. /\ UNCHANGED <<herald, mails, spilt>>
      /\ reachable' \subseteq Readers /\ forsaken \subseteq forsaken'
      /\ BroadcastTypeOK'
      /\ \A q \in reachable : q \notin reachable' => q = p
      /\ \A b \in Heralds :
            /\ loyal'[b] \subseteq loyal[b] /\ loyal'[b] \subseteq reachable'
            /\ p \in reachable /\ p \notin reachable' /\ p = herald[b].cursor => b \in forsaken'
  <2>1. CASE Admit(p)
    BY <2>1 DEF Admit, BroadcastInv, BroadcastTypeOK, OnItsWay
  <2>2. CASE Suspend(p)
    BY <2>2 DEF Suspend, BroadcastInv, BroadcastTypeOK, OnItsWay
  <2> QED
    BY <2>1, <2>2
<1>2. ASSUME NEW b \in Heralds PROVE OnItsWay(b)'
  <2>1. CursorSplits(b) /\ HeraldKnows(b)
    BY HeraldTyped
  <2>2. CursorSplits(b)'
    BY <1>1, <2>1 DEF CursorSplits
  <2>3. HeraldKnows(b)'
    BY <1>1, <2>1 DEF HeraldKnows
  <2> QED
    BY <1>1, <2>2, <2>3 DEF OnItsWay
<1> QED
  BY <1>1, <1>2 DEF BroadcastInv

\* The inductive invariant of the broadcasts: in each, nobody after its cursor was mailed,
\* and everybody before it who could be was, whatever the others do
\* (notifyContributorsOfNewTask).
THEOREM BroadcastInvariant == BroadcastSpec => []BroadcastInv
<1>1. BroadcastInit => BroadcastInv
  BY BroadcastInitially
<1>2. BroadcastInv /\ [BroadcastNext]_broadcastVars => BroadcastInv'
  <2> SUFFICES ASSUME BroadcastInv, [BroadcastNext]_broadcastVars PROVE BroadcastInv'
    OBVIOUS
  <2>1. CASE \E b \in Heralds : Announce(b)
    <3>1. PICK b \in Heralds : Announce(b)
      BY <2>1
    <3>2. CASE Publish(b) \/ DropHerald(b)
      BY <3>2, BroadcastStartsOrDies
    <3>3. CASE FindContributors(b)
      BY <3>3, PageFound
    <3>4. CASE \E taken \in SUBSET herald[b].batch : SendChunk(b, taken)
      BY <3>4, ChunkSent
    <3> QED
      BY <3>1, <3>2, <3>3, <3>4 DEF Announce
  <2>2. CASE \E p \in Readers : Admit(p) \/ Suspend(p)
    BY <2>2, UsersComeAndGo
  <2>3. CASE UNCHANGED broadcastVars
    BY <2>3 DEF broadcastVars, BroadcastInv, BroadcastTypeOK, OnItsWay, CursorSplits,
                HeraldKnows
  <2> QED
    BY <2>1, <2>2, <2>3 DEF BroadcastNext
<1> QED
  BY <1>1, <1>2, PTL DEF BroadcastSpec

\* No broadcast mails anybody twice, and who could be reached from its beginning to its end
\* is mailed, for any number of broadcasts of the campaign at once or one after another, any
\* number of users, any sizes of pages and batches, and whoever comes and goes
\* (publishTask, notifyContributorsOfNewTask, sendBatch).
THEOREM AnnouncementHeardOnce == BroadcastSpec => []EverybodyHearsOnce
<1>1. BroadcastInv => EverybodyHearsOnce
  <2> SUFFICES ASSUME BroadcastInv, NEW b \in Heralds PROVE HeardOnce(b)
    BY DEF EverybodyHearsOnce
  <2>0. CursorSplits(b) /\ HeraldKnows(b) /\ loyal[b] \subseteq Readers
    BY HeraldTyped
  <2>1. \A p \in Readers : mails[b][p] <= 1
    BY <2>0 DEF CursorSplits
  <2>2. ASSUME herald[b].step = "done", b \notin forsaken, NEW p \in loyal[b] \ spilt[b]
        PROVE  mails[b][p] = 1
    <3>1. p \in loyal[b] /\ p \in Readers
      BY <2>0, <2>2
    <3>2. herald[b].batch = {} /\ p <= herald[b].cursor
      BY <2>0, <2>2, <3>1 DEF HeraldKnows
    <3> QED
      BY <2>0, <2>2, <3>1, <3>2 DEF CursorSplits
  <2> QED
    BY <2>1, <2>2 DEF HeardOnce
<1> QED
  BY <1>1, BroadcastInvariant, PTL
-----------------------------------------------------------------------------
(* Lists read page by page                                                  *)

\* What \div is.
LEMMA QuotientBounds ==
    ASSUME NEW x \in Nat, NEW d \in Nat \ {0}
    PROVE  x \div d \in Nat /\ d * (x \div d) <= x /\ x < d * (x \div d) + d
OBVIOUS

\* The row after the rows of earlier pages is the first of this one.
LEMMA PagesAdd ==
    ASSUME NEW p \in Nat \ {0}, NEW m \in Nat
    PROVE  p * m = (p - 1) * m + m /\ (p - 1) * m \in Nat
<1>1. p - 1 \in Nat  OBVIOUS
<1>2. p * m = (p - 1) * m + m  BY <1>1
<1>3. \A x, y \in Nat : x * y \in Nat  OBVIOUS
<1>4. QED  BY <1>1, <1>2, <1>3

\* The last page holds the last row.
LEMMA PagesReach ==
    ASSUME NEW n \in Nat, NEW p \in Nat, p >= TotalPages(n)
    PROVE  n <= p * Limit
<1> DEFINE q == TotalPages(n)
<1>1. Limit \in Nat \ {0}  BY ListingAssumption
<1>2. n + Limit - 1 \in Nat  BY <1>1
<1>3. q \in Nat /\ n + Limit - 1 < Limit * q + Limit
      BY <1>1, <1>2, QuotientBounds DEF TotalPages
<1>4. q <= p  OBVIOUS
<1>5. Limit * q <= Limit * p  BY <1>1, <1>3, <1>4
<1>6. Limit * p = p * Limit /\ Limit * p \in Int /\ Limit * q \in Int  BY <1>1, <1>3
<1>7. QED  BY <1>1, <1>3, <1>5, <1>6

\* Place p of s is on the page that begins after n rows.
LEMMA SliceShows ==
    ASSUME NEW s \in Seq(Entries), NEW n \in Nat, NEW m \in Nat,
           NEW p \in 1 .. Len(s), p > n, p <= n + m
    PROVE  \E i \in DOMAIN Slice(s, n, m) : Slice(s, n, m)[i] = s[p]
<1> DEFINE e == IF n + m < Len(s) THEN n + m ELSE Len(s)
<1>1. Len(s) \in Nat /\ p \in Nat  OBVIOUS
<1>2. e \in Nat /\ p <= e /\ e <= Len(s)  BY <1>1
<1>3. p - n \in 1 .. (e - n)  BY <1>1, <1>2
<1>4. Slice(s, n, m) = SubSeq(s, n + 1, e)  BY DEF Slice
<1> HIDE DEF e
<1>5. n + 1 \in 1 .. Len(s) + 1 /\ e \in n .. Len(s)  BY <1>1, <1>2
<1>6. /\ SubSeq(s, n + 1, e) \in Seq(Entries)
      /\ Len(SubSeq(s, n + 1, e)) = e - (n + 1) + 1
      /\ \A i \in 1 .. e - (n + 1) + 1 : SubSeq(s, n + 1, e)[i] = s[(n + 1) + i - 1]
      BY <1>1, <1>2, <1>5, SubSeqProperties
<1>7. p - n \in 1 .. e - (n + 1) + 1 /\ (n + 1) + (p - n) - 1 = p  BY <1>2, <1>3
<1>8. SubSeq(s, n + 1, e)[p - n] = s[p]  BY <1>6, <1>7
<1>9. p - n \in DOMAIN SubSeq(s, n + 1, e)  BY <1>6, <1>7
<1>10. QED  BY <1>4, <1>8, <1>9

\* A row in front moves the others by one place.
LEMMA InFront ==
    ASSUME NEW s \in Seq(Entries), NEW r \in Entries
    PROVE  /\ <<r>> \o s \in Seq(Entries)
           /\ Len(<<r>> \o s) = Len(s) + 1
           /\ \A i \in 1 .. Len(s) : (<<r>> \o s)[i + 1] = s[i]
OBVIOUS

\* What is left when a row goes is a list.
LEMMA WithoutRow ==
    ASSUME NEW s \in Seq(Entries), NEW i \in DOMAIN s
    PROVE  SubSeq(s, 1, i - 1) \o SubSeq(s, i + 1, Len(s)) \in Seq(Entries)
<1>1. i \in 1 .. Len(s) /\ Len(s) \in Nat  OBVIOUS
<1>2. SubSeq(s, 1, i - 1) \in Seq(Entries)  BY <1>1
<1>3. SubSeq(s, i + 1, Len(s)) \in Seq(Entries)  BY <1>1
<1>4. QED  BY <1>2, <1>3

\* ListingInv holds of a list nobody has read.
LEMMA ListingBegins == ListingInit => ListingInv
<1> SUFFICES ASSUME ListingInit PROVE ListingInv  OBVIOUS
<1>1. list = Start /\ shaken = {} /\ Start \in Seq(Entries) /\ Limit \in Nat \ {0}
      BY ListingAssumption DEF ListingInit
<1>2. PICK k \in Kinds :
         reader = [kind |-> k, page |-> 1, seen |-> {}, found |-> <<>>,
                   total |-> 0, asked |-> {}, done |-> FALSE]
      BY DEF ListingInit
<1>3. /\ reader.page = 1 /\ reader.asked = {} /\ reader.done = FALSE /\ reader.seen = {}
      /\ reader \in [kind : Kinds, page : Nat \ {0}, seen : {reader.seen},
                     found : {reader.found}, total : {reader.total},
                     asked : SUBSET {"rows", "count"}, done : BOOLEAN]
      BY <1>2
<1>4. Came = 0 /\ Skip = 0  BY <1>1, <1>3 DEF Came, Skip
<1>5. \A i \in DOMAIN Start : i \in Nat /\ i > 0 /\ Came + i = i  BY <1>1, <1>4
<1>6. PagesHold  BY <1>1, <1>3, <1>4, <1>5 DEF PagesHold, StartIsLast
<1>7. QED  BY <1>1, <1>3, <1>6 DEF ListingInv

\* Every step preserves ListingInv.
LEMMA ListingStep ==
    ASSUME ListingInv, [ListingNext]_listVars
    PROVE  ListingInv'
<1> DEFINE Shape(r) ==
        r \in [kind : Kinds, page : Nat \ {0}, seen : {r.seen},
               found : {r.found}, total : {r.total},
               asked : SUBSET {"rows", "count"}, done : BOOLEAN]
           Calm(r, h) == r.kind = "staff" /\ h \cap {"left", "came"} = {}
<1>1. /\ list \in Seq(Entries) /\ shaken \subseteq {"left", "came", "grew"}
      /\ Shape(reader) /\ (reader.done => reader.asked = {})
      /\ Calm(reader, shaken) => PagesHold
      BY DEF ListingInv
<1>2. Limit \in Nat \ {0} /\ Start \in Seq(Entries)  BY ListingAssumption
<1>3. SUFFICES /\ list' \in Seq(Entries) /\ shaken' \subseteq {"left", "came", "grew"}
               /\ Shape(reader') /\ (reader'.done => reader'.asked = {})
               /\ Calm(reader', shaken') => PagesHold'
      BY DEF ListingInv
<1>4. /\ Skip \in Nat /\ Came \in Int /\ reader.page * Limit = Skip + Limit
      /\ DOMAIN Start = 1 .. Len(Start) /\ Len(Start) \in Nat /\ Len(list) \in Nat
  <2>1. reader.page \in Nat \ {0}  BY <1>1
  <2>2. QED  BY <2>1, <1>1, <1>2, PagesAdd DEF Skip, Came
<1>5. CASE FetchRows
  <2>1. PICK n, m : /\ reader' = [reader EXCEPT !.found = n, !.total = m,
                                                !.asked = @ \cup {"rows"}]
                    /\ reader.kind = "staff" => n = StaffPage /\ m = reader.total
    <3>1. CASE reader.kind = "staff"  BY <1>5, <3>1 DEF FetchRows
    <3>2. CASE reader.kind # "staff"  BY <1>5, <3>2 DEF FetchRows
    <3>3. QED  BY <3>1, <3>2
  <2>2. ~reader.done /\ list' = list /\ shaken' = shaken  BY <1>5 DEF FetchRows
  <2>3. /\ Shape(reader') /\ reader'.done = reader.done
        /\ reader'.page = reader.page /\ reader'.kind = reader.kind
        /\ reader'.seen = reader.seen /\ reader'.found = n /\ reader'.total = m
        /\ reader'.asked = reader.asked \cup {"rows"}
        BY <1>1, <2>1
  <2>4. ASSUME Calm(reader', shaken') PROVE PagesHold'
    <3>1. PagesHold /\ n = StaffPage /\ m = reader.total  BY <1>1, <2>1, <2>2, <2>3, <2>4
    <3>2. StaffPage' = StaffPage /\ Skip' = Skip /\ Came' = Came
          BY <2>2, <2>3 DEF StaffPage, Skip, Came
    <3>3. QED  BY <2>2, <2>3, <3>1, <3>2 DEF PagesHold, StartIsLast
  <2>5. QED  BY <1>1, <2>2, <2>3, <2>4
<1>6. CASE CountRows
  <2>1. PICK m : /\ reader' = [reader EXCEPT !.total = m, !.asked = @ \cup {"count"}]
                 /\ reader.kind = "staff" => m = Len(list)
    <3>1. CASE reader.kind = "platform"  BY <1>6, <3>1 DEF CountRows
    <3>2. CASE reader.kind # "platform"  BY <1>6, <3>2 DEF CountRows
    <3>3. QED  BY <3>1, <3>2
  <2>2. ~reader.done /\ list' = list /\ shaken' = shaken  BY <1>6 DEF CountRows
  <2>3. /\ Shape(reader') /\ reader'.done = reader.done
        /\ reader'.page = reader.page /\ reader'.kind = reader.kind
        /\ reader'.seen = reader.seen /\ reader'.found = reader.found /\ reader'.total = m
        /\ reader'.asked = reader.asked \cup {"count"}
        BY <1>1, <2>1
  <2>4. ASSUME Calm(reader', shaken') PROVE PagesHold'
    <3>1. PagesHold /\ m = Len(list)  BY <1>1, <2>1, <2>2, <2>3, <2>4
    <3>2. StaffPage' = StaffPage /\ Skip' = Skip /\ Came' = Came
          BY <2>2, <2>3 DEF StaffPage, Skip, Came
    <3>3. QED  BY <2>2, <2>3, <3>1, <3>2 DEF PagesHold, StartIsLast
  <2>5. QED  BY <1>1, <2>2, <2>3, <2>4
<1>7. CASE TurnPage
  <2> DEFINE shown == {reader.found[i] : i \in DOMAIN reader.found}
             last == reader.page >= TotalPages(reader.total)
             p == IF reader.page < TotalPages(reader.total) THEN reader.page + 1
                  ELSE reader.page
  <2>1. /\ reader' = [reader EXCEPT !.seen = @ \cup shown, !.page = p, !.done = last,
                                    !.asked = {}, !.found = <<>>]
        /\ reader.asked = {"rows", "count"} /\ list' = list /\ shaken' = shaken
        BY <1>7 DEF TurnPage
  <2>2. p \in Nat \ {0} /\ last \in BOOLEAN  BY <1>1
  <2> HIDE DEF shown, last, p
  <2>3. /\ Shape(reader') /\ reader'.done = last /\ reader'.asked = {}
        /\ reader'.page = p /\ reader'.kind = reader.kind
        /\ reader'.seen = reader.seen \cup shown
        BY <1>1, <2>1, <2>2
  <2>4. ASSUME Calm(reader', shaken') PROVE PagesHold'
    <3>1. PagesHold /\ reader.found = Slice(list, Skip, Limit) /\ reader.total = Len(list)
          BY <1>1, <2>1, <2>3, <2>4 DEF PagesHold, StaffPage
    <3>2. Came' = Came /\ Came \in Nat /\ ~reader.done
          BY <1>1, <2>1, <3>1 DEF Came, PagesHold, StartIsLast
    <3>3. reader.page \in Nat  BY <1>1
    <3>4. last => Len(list) <= Skip + Limit
      <4>1. last => Len(list) <= reader.page * Limit
            BY <1>4, <3>1, <3>3, PagesReach DEF last
      <4>2. QED  BY <1>4, <4>1
    <3>5. ~last => Skip' = Skip + Limit
      <4>1. SUFFICES ASSUME ~last PROVE Skip' = Skip + Limit  OBVIOUS
      <4>2. TotalPages(reader.total) \in Int
        <5>1. Len(list) + Limit - 1 \in Nat  BY <1>2, <1>4
        <5>2. QED  BY <1>2, <3>1, <5>1, QuotientBounds DEF TotalPages
      <4>3. p = reader.page + 1  BY <3>3, <4>1, <4>2 DEF last, p
      <4>4. reader'.page - 1 = reader.page  BY <2>3, <3>3, <4>3
      <4>5. Skip' = reader.page * Limit  BY <4>4 DEF Skip
      <4>6. QED  BY <1>4, <4>5
    <3>6. \A i \in DOMAIN Start : Came + i <= Skip + Limit => Start[i] \in reader'.seen
      <4>1. TAKE i \in DOMAIN Start
      <4>2. HAVE Came + i <= Skip + Limit
      <4>3. i \in Nat /\ i >= 1 /\ i <= Len(Start)  BY <1>4
      <4>4. Len(list) = Came + Len(Start)  BY <1>4, <3>2 DEF Came
      <4>5. Came + i \in 1 .. Len(list)  BY <1>4, <3>2, <4>3, <4>4
      <4>6. list[Came + i] = Start[i]  BY <3>1, <4>1 DEF PagesHold, StartIsLast
      <4>7. CASE Came + i <= Skip
            BY <2>3, <3>1, <4>1, <4>7 DEF PagesHold
      <4>8. CASE Came + i > Skip
        <5>1. PICK j \in DOMAIN reader.found : reader.found[j] = list[Came + i]
              BY <1>1, <1>2, <1>4, <3>1, <4>2, <4>5, <4>8, SliceShows
        <5>2. Start[i] \in shown  BY <4>6, <5>1 DEF shown
        <5>3. QED  BY <2>3, <5>2
      <4>9. QED  BY <1>4, <3>2, <4>3, <4>7, <4>8
    <3>7. \A i \in DOMAIN Start :
             Came' + i <= Skip' \/ reader'.done => Start[i] \in reader'.seen
      <4>1. TAKE i \in DOMAIN Start
      <4>2. HAVE Came' + i <= Skip' \/ reader'.done
      <4>3. Came + i <= Skip + Limit
        <5>1. i \in Nat /\ i <= Len(Start) /\ Len(list) = Came + Len(Start)
              BY <1>4, <3>2 DEF Came
        <5>2. CASE last  BY <1>2, <1>4, <3>2, <3>4, <5>1, <5>2
        <5>3. CASE ~last  BY <2>3, <3>2, <3>5, <4>2, <5>3
        <5>4. QED  BY <5>2, <5>3
      <4>4. QED  BY <3>6, <4>3
    <3>8. StartIsLast'  BY <2>1, <3>1, <3>2 DEF StartIsLast, PagesHold
    <3>9. QED  BY <2>3, <3>7, <3>8 DEF PagesHold
  <2>5. QED  BY <1>1, <2>1, <2>3, <2>4
<1>8. ASSUME NEW r \in Entries, RowComes(r)
      PROVE  /\ list' \in Seq(Entries) /\ shaken' \subseteq {"left", "came", "grew"}
             /\ Shape(reader') /\ (reader'.done => reader'.asked = {})
             /\ Calm(reader', shaken') => PagesHold'
  <2>1. /\ list' = <<r>> \o list /\ reader' = reader /\ ~reader.done
        /\ shaken' = shaken \cup {"grew"} \cup (IF reader.asked = {} THEN {} ELSE {"came"})
        BY <1>8 DEF RowComes
  <2>2. /\ list' \in Seq(Entries) /\ Len(list') = Len(list) + 1
        /\ \A i \in 1 .. Len(list) : list'[i + 1] = list[i]
        BY <1>1, <2>1, InFront
  <2>3. ASSUME Calm(reader', shaken') PROVE PagesHold'
    <3>1. PagesHold /\ reader.asked = {}  BY <1>1, <2>1, <2>3
    <3>2. Came' = Came + 1 /\ Skip' = Skip /\ Came \in Nat
          BY <1>4, <2>1, <2>2, <3>1 DEF Came, Skip, PagesHold, StartIsLast
    <3>3. \A i \in DOMAIN Start : /\ list'[Came' + i] = Start[i]
                                  /\ Came' + i <= Skip' => Came + i <= Skip
      <4>1. TAKE i \in DOMAIN Start
      <4>2. i \in Nat /\ i >= 1 /\ i <= Len(Start)  BY <1>4
      <4>3. Len(list) = Came + Len(Start)  BY <1>4, <3>2 DEF Came
      <4>4. Came + i \in 1 .. Len(list) /\ Came' + i = (Came + i) + 1
            BY <1>4, <3>2, <4>2, <4>3
      <4>5. list'[Came' + i] = list[Came + i]  BY <2>2, <4>4
      <4>6. list[Came + i] = Start[i]  BY <3>1, <4>1 DEF PagesHold, StartIsLast
      <4>7. Came' + i <= Skip' => Came + i <= Skip  BY <1>4, <3>2, <4>2, <4>4
      <4>8. list'[Came' + i] = Start[i]  BY <4>5, <4>6
      <4>9. QED  BY <4>7, <4>8
    <3>4. Came' \in Nat  BY <3>2
    <3>5. StartIsLast'  BY <3>3, <3>4 DEF StartIsLast
    <3>6. QED  BY <2>1, <3>1, <3>3, <3>5 DEF PagesHold
  <2>4. QED  BY <1>1, <2>1, <2>2, <2>3
<1>9. ASSUME NEW i \in DOMAIN list, RowLeaves(i)
      PROVE  /\ list' \in Seq(Entries) /\ shaken' \subseteq {"left", "came", "grew"}
             /\ Shape(reader') /\ (reader'.done => reader'.asked = {})
             /\ Calm(reader', shaken') => PagesHold'
  <2>1. /\ list' = SubSeq(list, 1, i - 1) \o SubSeq(list, i + 1, Len(list))
        /\ reader' = reader /\ shaken' = shaken \cup {"left"}
        BY <1>9 DEF RowLeaves
  <2>2. list' \in Seq(Entries)  BY <1>1, <1>9, <2>1, WithoutRow
  <2>3. QED  BY <1>1, <2>1, <2>2
<1>10. CASE UNCHANGED listVars
  <2>1. list' = list /\ reader' = reader /\ shaken' = shaken  BY <1>10 DEF listVars
  <2>2. PagesHold => PagesHold'  BY <2>1 DEF PagesHold, StartIsLast, StaffPage, Skip, Came
  <2>3. QED  BY <1>1, <2>1, <2>2
<1>11. QED
      BY <1>5, <1>6, <1>7, <1>8, <1>9, <1>10 DEF ListingNext

\* ListingInv is an invariant.
THEOREM ListingInvariant == ListingSpec => []ListingInv
<1>1. ListingInit => ListingInv  BY ListingBegins
<1>2. ListingInv /\ [ListingNext]_listVars => ListingInv'  BY ListingStep
<1>3. QED  BY <1>1, <1>2, PTL DEF ListingSpec

\* For any list, page size and number of rows that come: whoever reads a list of the
\* back office to its last page has seen every row that was there at first, unless a
\* row left or one came between the two queries of a page.
THEOREM RowsSeen == ListingSpec => []NoRowMissed
<1>1. ListingInv => NoRowMissed  BY DEF ListingInv, NoRowMissed, PagesHold
<1>2. QED  BY <1>1, ListingInvariant, PTL

\* Of a set of places the k-th exists: the last of the first k.
LEMMA PlaceIsThere ==
    ASSUME NEW S, S \subseteq Nat, IsFiniteSet(S), NEW k \in 1 .. Cardinality(S)
    PROVE  Place(S, k) \in S
<1> DEFINE F == FirstOf(S, k)
<1>1. Cardinality(S) \in Nat /\ k \in Nat \ {0} /\ k <= Cardinality(S)
  BY FS_CardinalityType
<1>2. /\ F \subseteq S /\ \A p \in F, q \in S : q <= p => q \in F
      /\ \A p \in S : p \in F <=> Cardinality({q \in S : q <= p}) <= k
  BY <1>1, FirstOfIsFull DEF FirstOf
<1>3. Cardinality(F) = k
  <2>1. CASE F # S
    BY <1>1, <2>1, FirstOfIsFull
  <2>2. CASE F = S
    <3>1. S # {}
      BY <1>1, FS_EmptySet
    <3>2. PICK x \in S : \A q \in S : q <= x
      BY <3>1, Extremes
    <3>3. {q \in S : q <= x} = S
      BY <3>2
    <3>4. Cardinality(S) <= k
      BY <1>2, <2>2, <3>2, <3>3
    <3> QED
      BY <1>1, <2>2, <3>4
  <2> QED
    BY <2>1, <2>2
<1>4. IsFiniteSet(F) /\ F # {} /\ F \subseteq Nat
  <2>1. IsFiniteSet(F)
    BY <1>2, FS_Subset
  <2>2. Cardinality({}) = 0
    BY FS_EmptySet
  <2> HIDE DEF F
  <2> QED
    BY <1>1, <1>2, <1>3, <2>1, <2>2
<1>5. PICK x \in F : \A q \in F : q <= x
  <2> HIDE DEF F
  <2> QED
    BY <1>4, Extremes
<1>6. {q \in S : q <= x} = F
  <2> HIDE DEF F
  <2> QED
    BY <1>2, <1>5
<1>7. x \in S /\ Cardinality({q \in S : q <= x}) = k
  BY <1>2, <1>3, <1>5, <1>6
<1> QED
  BY <1>7 DEF Place

\* Filtering a list gives a list.
LEMMA FilteredIsList ==
    ASSUME NEW s \in Seq(Entries)
    PROVE  Filtered(s) \in Seq(Entries)
<1> DEFINE P == Passing(s)
<1>1. P \subseteq 1 .. Len(s) /\ Len(s) \in Nat
  BY DEF Passing
<1>2. P \subseteq Nat /\ IsFiniteSet(P) /\ Cardinality(P) \in Nat
  <2> HIDE DEF P
  <2>1. 1 .. Len(s) \subseteq Nat /\ IsFiniteSet(1 .. Len(s))
    BY <1>1, FS_Interval
  <2>2. P \subseteq Nat /\ IsFiniteSet(P)
    BY <1>1, <2>1, FS_Subset
  <2> QED
    BY <2>2, FS_CardinalityType
<1>3. ASSUME NEW k \in 1 .. Cardinality(P) PROVE s[Place(P, k)] \in Entries
  <2>1. Place(P, k) \in 1 .. Len(s)
    BY <1>1, <1>2, PlaceIsThere
  <2> QED
    BY <2>1
<1>4. Filtered(s) = [k \in 1 .. Cardinality(P) |-> s[Place(P, k)]]
  BY DEF Filtered
<1> HIDE DEF P
<1> QED
  BY <1>2, <1>3, <1>4

\* A slice of a list is a list of no more rows than were asked for.
LEMMA SliceIsList ==
    ASSUME NEW s \in Seq(Entries), NEW n \in Nat, NEW m \in Nat
    PROVE  /\ Slice(s, n, m) \in Seq(Entries)
           /\ Len(Slice(s, n, m)) \in Nat /\ Len(Slice(s, n, m)) <= m
<1> DEFINE e == IF n + m < Len(s) THEN n + m ELSE Len(s)
<1>1. Len(s) \in Nat
  OBVIOUS
<1>2. e \in Nat /\ e <= Len(s) /\ e <= n + m
  BY <1>1
<1>3. Slice(s, n, m) = SubSeq(s, n + 1, e)
  BY DEF Slice
<1> HIDE DEF e
<1>4. \A i \in n + 1 .. e : i \in 1 .. Len(s)
  BY <1>1, <1>2
<1>5. \A i \in n + 1 .. e : s[i] \in Entries
  BY <1>4
<1>6. /\ SubSeq(s, n + 1, e) \in Seq(Entries)
      /\ Len(SubSeq(s, n + 1, e)) = IF n + 1 <= e THEN e - (n + 1) + 1 ELSE 0
  BY <1>2, <1>5, SubSeqProperties
<1> QED
  BY <1>2, <1>3, <1>6

\* What the reader holds of the list: rows it saw, the page it is on, and a count.
ReaderHolds ==
    /\ reader.seen \subseteq Entries /\ reader.total \in Nat
    /\ reader.found \in Seq(Entries) /\ Len(reader.found) <= Limit

\* With ListingInv that is the shape of a list being read.
LEMMA ListingShape == ASSUME ListingInv, ReaderHolds PROVE ListingTypeOK
<1>1. /\ list \in Seq(Entries) /\ shaken \subseteq {"left", "came", "grew"}
      /\ reader.kind \in Kinds /\ reader.page \in Nat /\ reader.done \in BOOLEAN
      /\ reader.asked \subseteq {"rows", "count"}
  BY DEF ListingInv
<1>2. \A i \in DOMAIN list : list[i] \in Entries
  BY <1>1
<1>3. reader.found \in Seq(Entries)
  BY DEF ReaderHolds
<1>4. \A i \in DOMAIN reader.found : reader.found[i] \in Entries
  <2> DEFINE f == reader.found
  <2>1. f \in Seq(Entries)
    BY <1>3
  <2> HIDE DEF f
  <2>2. \A i \in DOMAIN f : f[i] \in Entries
    BY <2>1
  <2> QED
    BY <2>2 DEF f
<1> QED
  BY <1>1, <1>2, <1>4 DEF ListingTypeOK, ReaderHolds

\* A query brings rows of the list, a page at most; a turned page was seen.
LEMMA ReaderReads ==
    ASSUME ListingInv, ReaderHolds, [ListingNext]_listVars
    PROVE  ReaderHolds'
<1>1. /\ list \in Seq(Entries) /\ Len(list) \in Nat /\ Limit \in Nat /\ Skip \in Nat
      /\ reader = [kind |-> reader.kind, page |-> reader.page, seen |-> reader.seen,
                   found |-> reader.found, total |-> reader.total,
                   asked |-> reader.asked, done |-> reader.done]
  <2>1. list \in Seq(Entries) /\ reader.page \in Nat \ {0} /\ Limit \in Nat
    BY ListingAssumption DEF ListingInv
  <2>2. Skip \in Nat
    BY <2>1, PagesAdd DEF Skip
  <2> QED
    BY <2>1, <2>2 DEF ListingInv
<1>2. CASE FetchRows
  <2> DEFINE n == IF reader.kind = "staff" THEN StaffPage ELSE MarketPage
             m == IF reader.kind = "platform" THEN Len(MarketRows) ELSE reader.total
  <2>1. MarketRows \in Seq(Entries)
    <3>1. 0 \in Nat /\ 3 * Limit \in Nat
      BY <1>1
    <3>2. CASE reader.kind = "platform"
      BY <1>1, <3>1, <3>2, SliceIsList, FilteredIsList DEF MarketRows
    <3>3. CASE reader.kind # "platform"
      BY <1>1, <3>3, SliceIsList DEF MarketRows
    <3> QED
      BY <3>2, <3>3
  <2>2. n \in Seq(Entries) /\ Len(n) <= Limit
    <3>1. /\ StaffPage \in Seq(Entries) /\ Len(StaffPage) <= Limit
          /\ MarketPage \in Seq(Entries) /\ Len(MarketPage) <= Limit
      BY <1>1, <2>1, SliceIsList DEF StaffPage, MarketPage
    <3> QED
      BY <3>1
  <2>3. m \in Nat
    <3>1. Len(MarketRows) \in Nat
      BY <2>1
    <3> QED
      BY <3>1 DEF ReaderHolds
  <2>4. reader' = [reader EXCEPT !.found = n, !.total = m, !.asked = @ \cup {"rows"}]
    BY <1>2 DEF FetchRows
  <2> HIDE DEF n, m
  <2>5. reader'.seen = reader.seen /\ reader'.found = n /\ reader'.total = m
    BY <1>1, <2>4
  <2> QED
    BY <2>2, <2>3, <2>5 DEF ReaderHolds
<1>3. CASE CountRows
  <2> DEFINE m == IF reader.kind = "platform" THEN reader.total ELSE Len(list)
  <2>1. m \in Nat
    BY <1>1 DEF ReaderHolds
  <2>2. reader' = [reader EXCEPT !.total = m, !.asked = @ \cup {"count"}]
    BY <1>3 DEF CountRows
  <2> HIDE DEF m
  <2>3. reader'.seen = reader.seen /\ reader'.found = reader.found /\ reader'.total = m
    BY <1>1, <2>2
  <2> QED
    BY <2>1, <2>3 DEF ReaderHolds
<1>4. CASE TurnPage
  <2> DEFINE shown == {reader.found[i] : i \in DOMAIN reader.found}
  <2>1. shown \subseteq Entries
    BY ListingShape DEF ListingTypeOK
  <2>2. PICK p, last : reader' = [reader EXCEPT !.seen = @ \cup shown, !.page = p,
                                                !.done = last, !.asked = {}, !.found = <<>>]
    BY <1>4 DEF TurnPage
  <2> HIDE DEF shown
  <2>3. /\ reader'.seen = reader.seen \cup shown /\ reader'.found = <<>>
        /\ reader'.total = reader.total
    BY <1>1, <2>2
  <2> QED
    BY <1>1, <2>1, <2>3 DEF ReaderHolds
<1>5. CASE UNCHANGED reader
  BY <1>5 DEF ReaderHolds
<1> QED
  BY <1>2, <1>3, <1>4, <1>5 DEF ListingNext, RowComes, RowLeaves, listVars

\* For any list, page size, filter and number of rows that come and go: whoever reads a
\* list holds rows of it, never more than a page, and stays at a page that exists.
THEOREM ListingTypes == ListingSpec => []ListingTypeOK
<1>1. ListingInit => ReaderHolds
  <2> SUFFICES ASSUME ListingInit PROVE ReaderHolds
    OBVIOUS
  <2>1. reader.seen = {} /\ reader.found = <<>> /\ reader.total = 0
    BY DEF ListingInit
  <2>2. Limit \in Nat
    BY ListingAssumption
  <2> QED
    BY <2>1, <2>2 DEF ReaderHolds
<1>2. ListingInv /\ ReaderHolds /\ [ListingNext]_listVars => ReaderHolds'
  BY ReaderReads
<1>3. ListingInv /\ ReaderHolds => ListingTypeOK
  BY ListingShape
<1> QED
  BY <1>1, <1>2, <1>3, ListingInvariant, PTL DEF ListingSpec

-----------------------------------------------------------------------------
(* The components side by side                                              *)

\* For any prices, people, cases, lists, campaigns and readers: whichever of the handlers
\* of these components interleave, every row, list and handler in flight keeps its shape.
THEOREM OfficeTypes == OfficeSpec => []OfficeTypeOK
<1>1. OfficeSpec => Spec /\ AccountsSpec /\ DisputesSpec /\ OptionsSpec
                    /\ ListingSpec /\ DraftsSpec /\ BroadcastSpec
  <2>1. OfficeInit => /\ Init /\ AccountsInit /\ DisputesInit /\ OptionsInit
                      /\ ListingInit /\ DraftsInit /\ BroadcastInit
    BY DEF OfficeInit
  <2>2. [OfficeNext]_officeVars =>
           /\ [Next]_vars /\ [AccountsNext]_accountVars /\ [DisputesNext]_disputeVars
           /\ [OptionsNext]_optionVars /\ [ListingNext]_listVars
           /\ [DraftsNext]_draftVars /\ [BroadcastNext]_broadcastVars
    BY DEF OfficeNext, officeVars
  <2> QED
    BY <2>1, <2>2, PTL DEF OfficeSpec, Spec, AccountsSpec, DisputesSpec, OptionsSpec,
                           ListingSpec, DraftsSpec, BroadcastSpec
<1>2. OptionsSpec => []OptionsTypeOK
  <2>1. OptionsInv => OptionsTypeOK
    BY DEF OptionsInv
  <2> QED
    BY <2>1, OptionsStart, OptionsStep, PTL DEF OptionsSpec
<1>3. AccountsInv => AccountsTypeOK
  BY DEF AccountsInv
<1>4. DisputesInv => DisputesTypeOK
  BY DEF DisputesInv
<1>5. DraftsInv => DraftsTypeOK
  BY DEF DraftsInv
<1>6. BroadcastInv => BroadcastTypeOK
  BY DEF BroadcastInv
<1>7. OfficeTypeOK <=> /\ TypeOK /\ AccountsTypeOK /\ DisputesTypeOK /\ OptionsTypeOK
                       /\ ListingTypeOK /\ DraftsTypeOK /\ BroadcastTypeOK
  BY DEF OfficeTypeOK
<1> QED
  BY <1>1, <1>2, <1>3, <1>4, <1>5, <1>6, <1>7, PricingTypes, AccountsInvariant,
     DisputesInvariant, ListingTypes, DraftsInvariant, BroadcastInvariant, PTL
=============================================================================
