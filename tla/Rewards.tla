------------------------------ MODULE Rewards ------------------------------
(***************************************************************************)
(* What a campaign promises those who work for it, stated without handlers: *)
(* a claim is judged once and for good, an accepted claim is rewarded once,  *)
(* as long as the campaign has room, and who was not refused does not claim  *)
(* again.                                                                    *)
(*                                                                           *)
(* A claim can be contested, a person hasty and a campaign crowded; less is  *)
(* promised of them from then on.  The detailed specification has to say     *)
(* when that happens.                                                        *)
(***************************************************************************)
EXTENDS Integers, FiniteSets

CONSTANTS
    Campaigns, People, Claims,
    NoCampaign, NoPerson    \* of a claim that nobody made

VARIABLES
    room,       \* how many claims a campaign may reward
    claim,      \* claims on a reward
    reward,     \* how often a claim was rewarded
    contested,  \* claims that may be judged or rewarded more than once
    hasty,      \* whose claims on which campaign need not wait for one another
    crowded     \* campaigns that may reward more claims than they have room for

rewardVars == <<room, claim, reward, contested, hasty, crowded>>

Claim == [status : {"NONE"}, task : {NoCampaign}, by : {NoPerson}]
            \cup [status : {"PENDING", "VERIFIED", "REJECTED"}, task : Campaigns, by : People]

Made(c, p) == {s \in Claims : claim[s].status # "NONE" /\ claim[s].task = c /\ claim[s].by = p}

Rewarded(c) == {s \in Claims : claim[s].task = c /\ reward[s] > 0}

RewardsTypeOK ==
    /\ room \in [Campaigns -> Nat]
    /\ claim \in [Claims -> Claim]
    /\ reward \in [Claims -> Nat]
    /\ contested \subseteq Claims /\ hasty \subseteq Campaigns \X People
    /\ crowded \subseteq Campaigns

RewardsInit ==
    /\ room \in [Campaigns -> Nat]
    /\ claim = [s \in Claims |-> [status |-> "NONE", task |-> NoCampaign, by |-> NoPerson]]
    /\ reward = [s \in Claims |-> 0]
    /\ contested = {} /\ hasty = {} /\ crowded = {}

\* A campaign gets more room; it never loses any.
Widen(c) ==
    /\ room'[c] \in Nat /\ room'[c] > room[c]
    /\ room' = [room EXCEPT ![c] = room'[c]]
    /\ UNCHANGED <<claim, reward, contested, hasty, crowded>>

\* Only who was refused before, every time, may claim again.
Make(s, c, p) ==
    /\ claim[s].status = "NONE"
    /\ \/ <<c, p>> \in hasty
       \/ \A u \in Made(c, p) \ contested : claim[u].status = "REJECTED"
    /\ claim' = [claim EXCEPT ![s] = [status |-> "PENDING", task |-> c, by |-> p]]
    /\ UNCHANGED <<room, reward, contested, hasty, crowded>>

Judge(s, verdict) ==
    /\ claim[s].status # "NONE"
    /\ s \in contested \/ claim[s].status = "PENDING"
    /\ claim' = [claim EXCEPT ![s].status = verdict]
    /\ UNCHANGED <<room, reward, contested, hasty, crowded>>

\* The verdict, the earlier rewards and the room are looked up in the step that pays.
Pay(s) ==
    /\ claim[s].status # "NONE"
    /\ \/ s \in contested
       \/ claim[s].status = "VERIFIED" /\ reward[s] = 0
    /\ \/ claim[s].task \in crowded
       \/ Cardinality(Rewarded(claim[s].task)) < room[claim[s].task]
    /\ reward' = [reward EXCEPT ![s] = @ + 1]
    /\ UNCHANGED <<room, claim, contested, hasty, crowded>>

\* Less is promised from now on.
Excuse ==
    /\ contested \subseteq contested' /\ contested' \subseteq Claims
    /\ hasty \subseteq hasty' /\ hasty' \subseteq Campaigns \X People
    /\ crowded \subseteq crowded' /\ crowded' \subseteq Campaigns
    /\ UNCHANGED <<room, claim, reward>>

RewardsNext ==
    \/ \E c \in Campaigns : Widen(c)
    \/ \E s \in Claims :
          \/ \E c \in Campaigns, p \in People : Make(s, c, p)
          \/ \E verdict \in {"VERIFIED", "REJECTED"} : Judge(s, verdict)
          \/ Pay(s)
    \/ Excuse

RewardsSpec == RewardsInit /\ [][RewardsNext]_rewardVars

-----------------------------------------------------------------------------
\* What follows: a claim is rewarded once at most and only if it is accepted, a
\* campaign rewards no more claims than it has room for, and nobody two of his own.
RewardsKept ==
    /\ RewardsTypeOK
    /\ \A s \in Claims \ contested :
          reward[s] <= IF claim[s].status = "VERIFIED" THEN 1 ELSE 0
    /\ \A c \in Campaigns \ crowded : Cardinality(Rewarded(c)) <= room[c]
    /\ \A s, u \in Claims \ contested :
          /\ reward[s] > 0 /\ reward[u] > 0
          /\ claim[s].task = claim[u].task /\ claim[s].by = claim[u].by
          /\ <<claim[s].task, claim[s].by>> \notin hasty
          => s = u

\* And: no verdict is ever revised, and no reward taken back.
VerdictsStand ==
    [][\A s \in Claims :
          /\ reward'[s] >= reward[s]
          /\ s \notin contested /\ claim[s].status \in {"VERIFIED", "REJECTED"}
                => claim'[s] = claim[s]]_rewardVars
=============================================================================
