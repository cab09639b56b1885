------------------------------ MODULE MCMarket ------------------------------
(***************************************************************************)
(* Two small instances in one run: every kind of requirement against every  *)
(* kind of profile, with one campaign; and payouts of two contributors.     *)
(***************************************************************************)
EXTENDS Market, TLC

CONSTANTS one

VARIABLE focus

NoWords == ""

\* "lag" is another name of Lagos, "abuja city" contains "abuja", "fitness" contains "fit".
Words == {"", "lagos", "lag", "abuja", "abuja city", "kano", "fit", "fitness", "food"}
Containing == {<<x, x>> : x \in Words} \cup {<<x, "">> : x \in Words}
              \cup {<<"abuja city", "abuja">>, <<"fitness", "fit">>,
                    <<"lagos", "lag">>, <<"fans", "fit">>, <<"fans", "food">>}
OtherNames == [k \in {"lagos"} |-> {"lag"}]

Nobody == [text |-> "", ages |-> "none", from |-> 0, to |-> 0]
Open == [targeted |-> TRUE, locations |-> {}, audience |-> Nobody, platforms |-> {},
         gender |-> "ALL", english |-> TRUE]

Audiences == {
    [Open EXCEPT !.targeted = FALSE],
    [Open EXCEPT !.locations = {"lag"}, !.gender = "FEMALE"],
    [Open EXCEPT !.locations = {"abuja city", "kano"}],
    [Open EXCEPT !.audience = [text |-> "fans", ages |-> "range", from |-> 18, to |-> 24]],
    [Open EXCEPT !.audience = [text |-> "fans", ages |-> "range", from |-> 35, to |-> 18]],
    [Open EXCEPT !.audience = [text |-> "fans", ages |-> "single", from |-> 30, to |-> 0]],
    [Open EXCEPT !.audience = [text |-> "kano", ages |-> "plus", from |-> 25, to |-> 0],
                 !.platforms = {"x", "youtube"}],
    [Open EXCEPT !.english = FALSE]}

Ada == [complete |-> TRUE, city |-> "lagos", state |-> "lagos", age |-> 20,
        interests |-> {"fitness"}, handles |-> {"twitter", "youtube"}, gender |-> "FEMALE"]

Members == {
    Ada, [Ada EXCEPT !.complete = FALSE], [Ada EXCEPT !.city = "kano", !.state = "kano"],
    [Ada EXCEPT !.city = "abuja", !.state = "", !.age = 0],
    [Ada EXCEPT !.gender = "NONE", !.interests = {}],
    [Ada EXCEPT !.age = 34, !.handles = {"twitter"}]}

-----------------------------------------------------------------------------
MCInit ==
    /\ MarketInit /\ focus \in {"match", "reward"}
    /\ \A c \in Contributors : c # one \/ focus = "reward" => profile[c] = Ada
    /\ focus = "reward" => \A t \in Tasks : ~target[t].targeted

MCNext ==
    /\ \/ focus = "match" /\
             \/ \E t \in Tasks : ChangeStatus(t) \/ \E x \in Targets : EditTask(t, x)
             \/ \E x \in Profiles : EditProfile(one, x)
             \/ \E h \in Appliers : Apply(h)
       \/ focus = "reward" /\ (\E h \in Appliers : Apply(h) \/ \E d \in Payouts : Reward(d))
    /\ UNCHANGED focus

MCSpec == MCInit /\ [][MCNext]_<<marketVars, focus>>

MCSymmetry == Permutations(Appliers) \cup Permutations(Payouts)
=============================================================================
