----------------------------- MODULE MCCampaign -----------------------------
(***************************************************************************)
(* Four small instances in one run.  "settle": two settlement handlers,     *)
(* checkouts and webhooks overlap with each other and with a payout; the    *)
(* work that leads to the payout is done while they rest, on a campaign     *)
(* whose charge never failed.  "work": two contributors, their submissions  *)
(* and a reviewer, with one settlement handler or one of the creator's in   *)
(* flight, on such a campaign that is not strained and whose places are     *)
(* only added to.  "late": all of one contributor's work while a settlement  *)
(* of such a campaign is in flight, between its two reads included.           *)
(* "price": such a campaign is repriced while it is paid, published and       *)
(* settled, by any two handlers at once.                                      *)
(***************************************************************************)
EXTENDS Campaign, TLC

SomeAmounts == {10, 20}

VARIABLE focus

AtMost(n, S) == Cardinality(S) <= n

HandsRest == \A h \in Hands : hand[h].step = "idle"
ReviewsRest == \A v \in Reviews : review[v].step = "idle"
BusySlots == {q \in Slots : req[q].step # "idle"}
MoneyHandlers == BusySlots \cup {d \in Desks : desk[d].step # "idle"}
Untroubled == excused = {} /\ \A r \in Refs : ~tx[r].declined

PriceStays ==
    /\ BusySlots \subseteq {CHOOSE q \in Slots : TRUE}
    /\ \A t \in Tasks : task[t].total = 20
    /\ \A q \in Slots : req[q].step = "rewrite" => req[q].amount = 20

Settles ==
    /\ PriceStays
    /\ AtMost(2, MoneyHandlers)
    /\ \A t \in Tasks : mostPlaces[t] = 1
    /\ AtMost(1, {s \in Subs : sub[s].status # "NONE"})
    /\ \/ \A s \in Subs : sub[s].status = "NONE"
       \/ Untroubled /\ (AtMost(1, MoneyHandlers) \/ BusySlots = {})
    /\ AtMost(1, {a \in Tasks \X Contributors : app[a[1]][a[2]] # "NONE"})
    /\ \/ MoneyHandlers = {}
       \/ /\ HandsRest
          /\ \A t \in Tasks, c \in Contributors : app[t][c] \in {"NONE", "COMPLETED"}
          /\ \A s \in Subs : \/ sub[s].status = "NONE"
                             \/ \E v \in Reviews : review[v].step = "credit"
                             \/ ReviewsRest /\ payout[s] > 0

Works ==
    /\ PriceStays
    /\ AtMost(1, MoneyHandlers)
    /\ Untroubled /\ strained = {} /\ places = mostPlaces
    /\ HandsRest \/ (ReviewsRest /\ MoneyHandlers = {})

Lates ==
    /\ PriceStays /\ Untroubled
    /\ AtMost(1, MoneyHandlers)
    /\ BusySlots = {} \/ (HandsRest /\ ReviewsRest)
    /\ AtMost(1, {s \in Subs : sub[s].status # "NONE"})
    /\ AtMost(1, {a \in Tasks \X Contributors : app[a[1]][a[2]] # "NONE"})
    /\ \A t \in Tasks : mostPlaces[t] = 1

Reprices ==
    /\ AtMost(1, MoneyHandlers) \/ MoneyHandlers = BusySlots
    /\ Untroubled /\ strained = {}
    /\ \A t \in Tasks : mostPlaces[t] = 1
    /\ HandsRest

Within ==
    /\ focus = "settle" => Settles
    /\ focus = "work" => Works
    /\ focus = "late" => Lates
    /\ focus = "price" => Reprices

MCInit == CampaignInit /\ focus \in {"settle", "work", "late", "price"} /\ Within
MCNext == CampaignNext /\ UNCHANGED focus /\ Within'
MCSpec == MCInit /\ [][MCNext]_<<campaignVars, focus>>

MCSymmetry ==
    Permutations(Contributors) \cup Permutations(Subs) \cup Permutations(Desks)
=============================================================================
