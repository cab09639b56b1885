---------------------------- MODULE MCProfile ----------------------------
(***************************************************************************)
(* Two small instances in one run: who the user is, without handles, and    *)
(* which handles are linked and reviewed.  There the name stays blank, so   *)
(* that onboarding, which a name ends, can always come in between.          *)
(***************************************************************************)
EXTENDS Profile, TLC

CONSTANTS ada, obi, nin1

VARIABLE focus  \* which of the two

mcvars == <<vars, focus>>

\* The first number is Ada's, any other registered one Obi's.
MCOwnerOf == [n \in Registered |-> IF n = nin1 THEN ada ELSE obi]

MCInit == Init /\ focus \in {"identity", "handles"} /\ (focus = "handles" => others = {})

IdentityNext ==
    \/ \E h \in Hands :
          \/ \E n \in Names \cup {NoName} : CompleteOnboarding(h, n, Unlinked)
          \/ UpsertProfile(h) \/ Verification(h) \/ DropHand(h)
    \/ \E n \in Nins : OthersClaim(n)

HandlesNext ==
    \/ \E h \in Hands :
          \/ \E x \in Profiles : CompleteOnboarding(h, NoName, x)
          \/ UpsertProfile(h) \/ LinkingHandler(h) \/ DropHand(h)
    \/ \E d \in Desks : Staff(d)

MCNext ==
    /\ \/ focus = "identity" /\ IdentityNext
       \/ focus = "handles" /\ HandlesNext
    /\ UNCHANGED focus

MCSpec == MCInit /\ [][MCNext]_mcvars

MCSymmetry == Permutations(Handles) \cup Permutations(Hands) \cup Permutations(Desks)
=============================================================================
