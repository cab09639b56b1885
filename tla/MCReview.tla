------------------------------ MODULE MCReview ------------------------------
(***************************************************************************)
(* Two small instances in one run: contributors' handlers overlap, about at  *)
(* most one submission; or reviews overlap, with one contributor's handler    *)
(* in flight on a campaign that is not paused and whose places are only added *)
(* to: less of either only refuses applications, and payouts.                 *)
(***************************************************************************)
EXTENDS Review, TLC

VARIABLE focus

AtMost(n, S) == Cardinality(S) <= n

Within ==
    IF focus = "apply"
    THEN /\ AtMost(1, {s \in Subs : sub[s].status # "NONE"})
         /\ AtMost(1, {v \in Reviews : review[v] # IdleReview})
    ELSE AtMost(1, {h \in Hands : hand[h] # IdleHand}) /\ places = mostPlaces

MCInit == Init /\ focus \in {"apply", "review"}
MCNext == /\ Next /\ UNCHANGED focus /\ Within'
          /\ focus = "review" => live \subseteq live'
MCSpec == MCInit /\ [][MCNext]_<<vars, focus>>

MCSymmetry == Permutations(Contributors) \cup Permutations(Subs)
                \cup Permutations(Hands) \cup Permutations(Reviews)
=============================================================================
