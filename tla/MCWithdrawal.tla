---------------------------- MODULE MCWithdrawal ----------------------------
(***************************************************************************)
(* Two small instances in one run: withdrawals to a single bank account,     *)
(* which is saved and deleted but is the default one or not for good, or     *)
(* bank accounts without withdrawals.                                        *)
(***************************************************************************)
EXTENDS Withdrawal, TLC

VARIABLE focus

AtMostOne(S) == Cardinality(S) <= 1

Within ==
    IF focus = "withdraw"
    THEN /\ AtMostOne({b \in Banks : bank[b].state # "NONE"})
         /\ AtMostOne(({bank[b].number : b \in Banks} \cup {hand[h].number : h \in Hands})
                         \ {NoNumber})
         /\ \A h \in Hands : hand[h].step \notin {"unset", "set"}
    ELSE credited = 0

MCInit == Init /\ focus \in {"withdraw", "banks"}
MCNext == Next /\ UNCHANGED focus /\ Within'
MCSpec == MCInit /\ [][MCNext]_<<vars, focus>>

MCSymmetry == Permutations(Banks) \cup Permutations(Numbers) \cup Permutations(Otps)
                \cup Permutations(Hands)
MCAmounts == {1}
=============================================================================
