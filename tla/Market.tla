------------------------------- MODULE Market -------------------------------
(***************************************************************************)
(* Whom a campaign is for: the requirements a contributor is checked        *)
(* against, the job page that shows whether one may apply, the application   *)
(* (tasks.service.ts, gender.ts) and the reputation that approves it         *)
(* (reputation.service.ts).                                                  *)
(*                                                                          *)
(* Texts are names; Within says which text contains which, the blank text    *)
(* being contained in every one.  A target audience is what parseAgeRange    *)
(* and extractInterests find in it.                                          *)
(***************************************************************************)
EXTENDS Integers, FiniteSets

CONSTANTS
    Tasks, Contributors,
    Texts, Blank,
    Within,         \* pairs of texts <<a, b>>: a contains b
    Aliases,        \* other names of the places that have some
    Interests,      \* commonInterests
    Targets,        \* what campaigns ask for, a set of records
    Profiles,       \* what contributors are, a set of records
    Appliers,       \* applications in flight
    Payouts,        \* payouts in flight
    Places,         \* contributorSlots of every campaign
    Default,        \* reputation: at signup,
    Threshold,      \* from which applications are approved at once,
    Top, Bonus,     \* at most, and for each payout
    MaxPaid,        \* bound on the payouts of a contributor
    NoTask, NoContributor

\* The reputation settings as shipped: newcomers are approved.
ASSUME MarketAssumption ==
    /\ Places \in Nat /\ MaxPaid \in Nat /\ Bonus \in Nat
    /\ Default \in Nat /\ Top \in Nat /\ Threshold \in 0 .. Default /\ Default <= Top
    /\ NoTask \notin Tasks /\ NoContributor \notin Contributors /\ Targets # {}
    /\ IsFiniteSet(Interests)
    /\ \A t \in Targets : t.audience.from \in Nat /\ t.audience.to \in Nat

VARIABLES
    target,     \* targeting, platforms and audience of each campaign
    live,       \* campaigns that are ACTIVE
    profile,    \* each contributor's profile
    score,      \* reputationScore
    app,        \* applications
    applier,    \* applications in flight
    payout,     \* payouts in flight, that raise a reputation
    paid,       \* history: payouts each contributor received
    moved,      \* history: applications in flight under which campaign, profile or
                \* the contributor's application changed
    raced       \* history: contributors with two payouts at once, or one that
                \* died before the reputation was raised

marketVars == <<target, live, profile, score, app, applier, payout, paid, moved, raced>>

Contains(a, b) == <<a, b>> \in Within

-----------------------------------------------------------------------------
(* Requirements                                                             *)

Larger(a, b) == IF a > b THEN a ELSE b
Smaller(a, b) == IF a < b THEN a ELSE b

\* Whether an age is asked for: "18-35", "18+", or one age of two digits.
HasRange(audience) ==
    \/ audience.ages \in {"range", "plus"}
    \/ audience.ages = "single" /\ audience.from \in 13 .. 65

\* One age stands for five years either way; "35-18" is a range nobody is in.
AgeRange(audience) ==
    CASE audience.ages = "range" -> audience.from .. audience.to
      [] audience.ages = "plus" -> audience.from .. 200
      [] OTHER -> Larger(13, audience.from - 5) .. Smaller(65, audience.from + 5)

\* A profile without an age, 0, fails only where a range was found.
MeetsAge(age, audience) == HasRange(audience) => age # 0 /\ age \in AgeRange(audience)

Topics(audience) == {i \in Interests : Contains(audience.text, i)}

\* Half of the topics, rounded up, have to be among the interests or overlap with one.
MeetsInterests(interests, audience) ==
    LET topics == Topics(audience)
        shared == {t \in topics : \E i \in interests : Contains(i, t) \/ Contains(t, i)}
    IN  interests # {} /\ 2 * Cardinality(shared) >= Cardinality(topics)

\* X is the new Twitter.
Platform(p) == IF p = "x" THEN "twitter" ELSE p

MeetsPlatforms(handles, platforms) ==
    \A p \in platforms : p \in handles \/ Platform(p) \in handles

\* A place and its aliases, as far as the code lists them.
Named(key) == {key} \cup Aliases[key]

MeetsLocation(city, state, locations) ==
    \/ locations = {}
    \/ /\ city # Blank \/ state # Blank
       /\ \E l \in locations, mine \in {city, state} :
             \/ Contains(mine, l) \/ Contains(l, mine)
             \/ \E key \in DOMAIN Aliases :
                   l \in Named(key) /\ \E n \in Named(key) : Contains(mine, n)

\* A contributor who does not say is matched with ALL only.
MatchesTargetGender(gender, wanted) == wanted = "ALL" \/ gender = wanted

\* Mutant: the gender counts only when the profile states one.
MeetsButGender(p, t) ==
    /\ p.complete
    /\ t.targeted =>
          /\ MeetsLocation(p.city, p.state, t.locations)
          /\ t.audience.text # Blank =>
                MeetsAge(p.age, t.audience) /\ MeetsInterests(p.interests, t.audience)
          /\ MeetsPlatforms(p.handles, t.platforms)
          /\ p.gender = "NONE" \/ MatchesTargetGender(p.gender, t.gender)
          /\ t.english

\* Nothing else is asked of a contributor when the campaign has no targeting.
Meets(p, t) ==
    /\ p.complete
    /\ t.targeted =>
          /\ MeetsLocation(p.city, p.state, t.locations)
          /\ t.audience.text # Blank =>
                MeetsAge(p.age, t.audience) /\ MeetsInterests(p.interests, t.audience)
          /\ MeetsPlatforms(p.handles, t.platforms)
          /\ MatchesTargetGender(p.gender, t.gender)
          /\ t.english

-----------------------------------------------------------------------------
(* The state                                                                *)

Applying == [step : {"idle", "check", "count", "insert"}, task : Tasks \cup {NoTask},
            by : Contributors \cup {NoContributor}, target : Targets, told : BOOLEAN]
PayoutJob == [step : {"idle", "read", "write"}, to : Contributors \cup {NoContributor}, score : Nat]

MarketTypeOK ==
    /\ target \in [Tasks -> Targets]
    /\ live \subseteq Tasks
    /\ profile \in [Contributors -> Profiles]
    /\ score \in [Contributors -> 0 .. Top]
    /\ app \in [Tasks -> [Contributors -> {"NONE", "PENDING", "APPROVED"}]]
    /\ applier \in [Appliers -> Applying]
    /\ payout \in [Payouts -> PayoutJob]
    /\ paid \in [Contributors -> 0 .. MaxPaid]
    /\ moved \subseteq Appliers /\ raced \subseteq Contributors

AnyTarget == CHOOSE t \in Targets : TRUE
NotApplying == [step |-> "idle", task |-> NoTask, by |-> NoContributor, target |-> AnyTarget,
             told |-> FALSE]
IdlePayout == [step |-> "idle", to |-> NoContributor, score |-> 0]

MarketInit ==
    /\ target \in [Tasks -> Targets]
    /\ live = Tasks
    /\ profile \in [Contributors -> Profiles]
    /\ score = [c \in Contributors |-> Default]
    /\ app = [t \in Tasks |-> [c \in Contributors |-> "NONE"]]
    /\ applier = [h \in Appliers |-> NotApplying]
    /\ payout = [d \in Payouts |-> IdlePayout]
    /\ paid = [c \in Contributors |-> 0]
    /\ moved = {} /\ raced = {}

-----------------------------------------------------------------------------
(* What creators, contributors and staff change meanwhile                    *)

EditTask(t, x) ==
    /\ target[t] # x
    /\ target' = [target EXCEPT ![t] = x]
    /\ moved' = moved \cup {h \in Appliers : applier[h].task = t}
    /\ UNCHANGED <<live, profile, score, app, applier, payout, paid, raced>>

ChangeStatus(t) ==
    /\ live' = IF t \in live THEN live \ {t} ELSE live \cup {t}
    /\ moved' = moved \cup {h \in Appliers : applier[h].task = t}
    /\ UNCHANGED <<target, profile, score, app, applier, payout, paid, raced>>

EditProfile(c, x) ==
    /\ profile[c] # x
    /\ profile' = [profile EXCEPT ![c] = x]
    /\ moved' = moved \cup {h \in Appliers : applier[h].by = c}
    /\ UNCHANGED <<target, live, score, app, applier, payout, paid, raced>>

-----------------------------------------------------------------------------
(* getMarketplaceDetail                                                     *)

\* Mutant: that the contributor applied already is not looked up.
CanApplyAgain(t, c) == t \in live /\ Meets(profile[c], target[t])

CanApply(t, c) == t \in live /\ Meets(profile[c], target[t]) /\ app[t][c] = "NONE"

-----------------------------------------------------------------------------
(* applyForTask                                                             *)

Filled(t) == {c \in Contributors : app[t][c] = "APPROVED"}

\* The contributor applies, whatever the job page says by now.
ApplyForTask(h, t, c) ==
    /\ applier[h].step = "idle"
    /\ t \in live
    /\ applier' = [applier EXCEPT ![h] = [step |-> "check", task |-> t, by |-> c,
                                    target |-> target[t], told |-> CanApply(t, c)]]
    /\ moved' = moved \ {h}
    /\ UNCHANGED <<target, live, profile, score, app, payout, paid, raced>>

\* userMeetsTaskRequirements reads the profile anew, and has the task from before.
CheckRequirements(h) ==
    /\ applier[h].step = "check"
    /\ Meets(profile[applier[h].by], applier[h].target)
    /\ applier' = [applier EXCEPT ![h].step = "count"]
    /\ UNCHANGED <<target, live, profile, score, app, payout, paid, moved, raced>>

CountPlaces(h) ==
    /\ applier[h].step = "count"
    /\ app[applier[h].task][applier[h].by] = "NONE"
    /\ Cardinality(Filled(applier[h].task)) < Places
    /\ applier' = [applier EXCEPT ![h].step = "insert"]
    /\ UNCHANGED <<target, live, profile, score, app, payout, paid, moved, raced>>

\* A score of zero counts as the default one.
GetReputationScore(c) == IF score[c] = 0 THEN Default ELSE score[c]

MeetsMinimumReputation(c) == GetReputationScore(c) >= Threshold

\* Mutant: the approval is written as the status of the finished work.
InsertCompleted(h) ==
    LET t == applier[h].task  c == applier[h].by
    IN  /\ applier[h].step = "insert"
        /\ app' = [app EXCEPT ![t][c] =
                      IF MeetsMinimumReputation(c) THEN "COMPLETED" ELSE "PENDING"]
        /\ applier' = [applier EXCEPT ![h] = NotApplying]
        /\ moved' = moved \ {h}
        /\ UNCHANGED <<target, live, profile, score, payout, paid, raced>>

InsertApplication(h) ==
    LET t == applier[h].task  c == applier[h].by
    IN  /\ applier[h].step = "insert"
        /\ app[t][c] = "NONE"
        /\ app' = [app EXCEPT ![t][c] =
                      IF MeetsMinimumReputation(c) THEN "APPROVED" ELSE "PENDING"]
        /\ applier' = [applier EXCEPT ![h] = NotApplying]
        /\ moved' = (moved \ {h})
              \cup {g \in Appliers \ {h} : applier[g].task = t /\ applier[g].by = c}
        /\ UNCHANGED <<target, live, profile, score, payout, paid, raced>>

Refused(h) ==
    \/ applier[h].step = "check" /\ ~Meets(profile[applier[h].by], applier[h].target)
    \/ applier[h].step = "count" /\ app[applier[h].task][applier[h].by] # "NONE"
    \/ applier[h].step = "count" /\ Cardinality(Filled(applier[h].task)) >= Places

\* A check refuses, or the handler dies.
DropApplier(h) ==
    /\ applier[h].step # "idle"
    /\ applier' = [applier EXCEPT ![h] = NotApplying]
    /\ moved' = moved \ {h}
    /\ UNCHANGED <<target, live, profile, score, app, payout, paid, raced>>

-----------------------------------------------------------------------------
(* processPayout: the credit, then increaseReputation                       *)

Raising(c) == \E d \in Payouts : payout[d].to = c

Pay(d, c) ==
    /\ payout[d].step = "idle"
    /\ \E t \in Tasks : app[t][c] = "APPROVED"
    /\ paid[c] < MaxPaid
    /\ paid' = [paid EXCEPT ![c] = @ + 1]
    /\ payout' = [payout EXCEPT ![d] = [step |-> "read", to |-> c, score |-> 0]]
    /\ raced' = IF Raising(c) THEN raced \cup {c} ELSE raced
    /\ UNCHANGED <<target, live, profile, score, app, applier, moved>>

ReadScore(d) ==
    /\ payout[d].step = "read"
    /\ payout' = [payout EXCEPT ![d].step = "write", ![d].score = score[payout[d].to]]
    /\ UNCHANGED <<target, live, profile, score, app, applier, paid, moved, raced>>

\* Mutant: the points are added to what signup gave.
WriteDefault(d) ==
    /\ payout[d].step = "write"
    /\ score' = [score EXCEPT ![payout[d].to] = Smaller(Top, Default + Bonus)]
    /\ payout' = [payout EXCEPT ![d] = IdlePayout]
    /\ UNCHANGED <<target, live, profile, app, applier, paid, moved, raced>>

WriteScore(d) ==
    /\ payout[d].step = "write"
    /\ score' = [score EXCEPT ![payout[d].to] = Smaller(Top, payout[d].score + Bonus)]
    /\ payout' = [payout EXCEPT ![d] = IdlePayout]
    /\ UNCHANGED <<target, live, profile, app, applier, paid, moved, raced>>

DropPayout(d) ==
    /\ payout[d].step # "idle"
    /\ raced' = raced \cup {payout[d].to}
    /\ payout' = [payout EXCEPT ![d] = IdlePayout]
    /\ UNCHANGED <<target, live, profile, score, app, applier, paid, moved>>

-----------------------------------------------------------------------------
Apply(h) ==
    \/ \E t \in Tasks, c \in Contributors : ApplyForTask(h, t, c)
    \/ CheckRequirements(h) \/ CountPlaces(h) \/ InsertApplication(h) \/ DropApplier(h)

Reward(d) ==
    \/ \E c \in Contributors : Pay(d, c)
    \/ ReadScore(d) \/ WriteScore(d) \/ DropPayout(d)

MarketNext ==
    \/ \E t \in Tasks, x \in Targets : EditTask(t, x)
    \/ \E t \in Tasks : ChangeStatus(t)
    \/ \E c \in Contributors, x \in Profiles : EditProfile(c, x)
    \/ \E h \in Appliers : Apply(h)
    \/ \E d \in Payouts : Reward(d)

MarketSpec == MarketInit /\ [][MarketNext]_marketVars

-----------------------------------------------------------------------------
(* Properties                                                               *)

\* What the requirements mean, said once more from the contributor's side.  The place of
\* the profile is one of those wanted or another name of it.
Resides(p, t) ==
    \E l \in t.locations, mine \in {p.city, p.state} \ {Blank} :
        \/ Contains(mine, l) \/ Contains(l, mine)
        \/ \E key \in DOMAIN Aliases : \E n \in Named(key) :
              l \in Named(key) /\ Contains(mine, n)

\* The age is known, and neither above nor below what the audience says.
OfAge(p, t) ==
    /\ t.audience.ages = "range" => p.age >= t.audience.from /\ p.age <= t.audience.to
    /\ t.audience.ages = "plus" => p.age >= t.audience.from
    /\ t.audience.ages = "single" /\ t.audience.from \in 13 .. 65 =>
          p.age \in 13 .. 65 /\ p.age - t.audience.from \in (-5) .. 5
    /\ HasRange(t.audience) => p.age # 0

\* There are interests, and the topics that leave the contributor cold are no more than
\* those that do not.
Cares(p, i) == \E mine \in p.interests : Contains(mine, i) \/ Contains(i, mine)

Interested(p, t) ==
    /\ p.interests # {}
    /\ Cardinality({i \in Topics(t.audience) : ~Cares(p, i)})
          <= Cardinality({i \in Topics(t.audience) : Cares(p, i)})

\* Every platform of the campaign is one the contributor has, X and Twitter being one.
Present(p, t) == \A q \in t.platforms : \E h \in p.handles : Platform(h) = Platform(q)

Suits(p, t) ==
    /\ p.complete
    /\ t.targeted =>
          /\ t.locations # {} => Resides(p, t) \/ Blank \in {p.city, p.state}
          /\ t.audience.text # Blank => OfAge(p, t) /\ Interested(p, t)
          /\ Present(p, t)
          /\ t.gender # "ALL" => p.gender = t.gender
          /\ t.english

\* Only contributors a campaign is aimed at come to work on it, and only while it is
\* active: by place, age, interests, platforms, gender and language - unless campaign or
\* profile changed while the application was in flight, or the profile leaves city or
\* state blank, which passes for every place (applyForTask, checkLocationRequirement).
ApplicantsSuit ==
    [][\A h \in Appliers : \A t \in Tasks :
          applier[h].step = "insert" /\ applier[h].task = t /\ app'[t] # app[t] =>
             (t \in live /\ Suits(profile[applier[h].by], target[t])) \/ h \in moved]_marketVars

\* Whom the job page told to apply is not refused, unless others have the places or
\* campaign, profile or application changed since (buildMarketplaceEligibility,
\* applyForTask).
PageTellsTruth ==
    \A h \in Appliers : applier[h].told /\ Refused(h) =>
        h \in moved \/ Cardinality(Filled(applier[h].task) \ {applier[h].by}) >= Places

\* Reputation is earned: it is what signup gave and every payout added, up to the
\* top - unless two payouts of one contributor overlapped or one died half way
\* (updateReputationScore reads, adds and writes).
ReputationIsEarned ==
    \A c \in Contributors : ~Raising(c) /\ c \notin raced =>
        score[c] = Smaller(Top, Default + Bonus * paid[c])

\* As shipped every application is approved at once, which matters as nothing else
\* approves one: also a lost update leaves a reputation above the threshold.
NobodyWaits == \A t \in Tasks, c \in Contributors : app[t][c] # "PENDING"
=============================================================================
