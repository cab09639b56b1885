------------------------------ MODULE MCOffice ------------------------------
(***************************************************************************)
(* The components that share no state, one at a time: focus says which one   *)
(* moves.  Accounts are checked one matter at a time, with what the other     *)
(* matters choose held fixed; prices up to where two updates overlap, after    *)
(* which FullRate asks for nothing.                                           *)
(***************************************************************************)
EXTENDS Office, TLC

CONSTANTS l1, l2, ada, s1

VARIABLE focus

-----------------------------------------------------------------------------
(* Values                                                                   *)

StartRows == <<l1, l2>>

\* Exactly two places of a followed account with a fee of 7 %; 1000 is
\* not divisible by the three places of a legacy campaign.
SomeBudgets == {1000, 32100}

OneCampaign == Priced("MAKE_POST", "VIDEO", 1, 7)

-----------------------------------------------------------------------------
(* Accounts                                                                 *)

AccountMatters == {"code", "pass", "status", "referral"}
Strangers == People \ {root}

\* Creators join, whoever refers them.
Joining(h, who, refs) ==
    \/ \E p \in who, r \in refs : Signup(h, p, "CREATOR", FALSE, r, s1)
    \/ CreateAccount(h) \/ StubProfile(h) \/ Answer(h)

LogIn == \E p \in People : Login(p)

OneMatter ==
    \/ focus = "code" /\ \E h \in Hands :
          \/ \E type \in {"CREATOR", "CONTRIBUTOR"}, b \in BOOLEAN, s \in Secrets :
                Signup(h, ada, type, b, NoOne, s)
          \/ VerifyEmail(h, ada)
          \/ \E s \in Secrets : ResendVerification(h, ada, s)
          \/ CreateAccount(h) \/ StubProfile(h) \/ Recode(h) \/ Verify(h)
          \/ Answer(h) \/ DropHand(h)
    \/ focus = "pass" /\ (Session \/ \E h \in Hands : Passwords(h) \/ DropHand(h))
    \/ focus = "status" /\ (LogIn \/ \E h \in Hands :
          \/ Joining(h, {ada}, {NoOne}) \/ WriteStatus(h) \/ Audit(h) \/ DropHand(h)
          \/ \E by, p \in {root, ada} : SuspendUser(h, by, p) \/ UnsuspendUser(h, by, p)
          \/ \E by, p \in {root, ada}, role \in {"ADMIN", "SUPERADMIN"} :
                CreateAdmin(h, by, p, role, s1))
    \/ focus = "referral" /\ (LogIn \/ \E h \in Hands :
          Joining(h, Strangers, People \cup {NoOne}) \/ Referring(h) \/ DropHand(h))

-----------------------------------------------------------------------------
MCInit ==
    /\ focus \in {"pricing", "disputes", "options", "listing", "drafts", "broadcast"}
                 \cup AccountMatters
    /\ OfficeInit
    /\ account[root].pass = s1
    /\ focus # "pricing" => fee = 7 /\ row = OneCampaign
    /\ focus # "listing" => reader.kind = "staff"
    /\ focus # "broadcast" => reachable = {}

Still(a, b, c, d, e, f) == UNCHANGED <<a, b, c, d, e, f, focus>>

MCNext ==
    \/ OneMatter
       /\ Still(vars, disputeVars, optionVars, listVars, draftVars, broadcastVars)
    \/ focus = "pricing" /\ ~crossed /\ Next
       /\ Still(accountVars, disputeVars, optionVars, listVars, draftVars, broadcastVars)
    \/ focus = "disputes" /\ DisputesNext
       /\ Still(accountVars, vars, optionVars, listVars, draftVars, broadcastVars)
    \/ focus = "options" /\ OptionsNext
       /\ Still(accountVars, vars, disputeVars, listVars, draftVars, broadcastVars)
    \/ focus = "listing" /\ ListingNext
       /\ Still(accountVars, vars, disputeVars, optionVars, draftVars, broadcastVars)
    \/ focus = "drafts" /\ DraftsNext
       /\ Still(accountVars, vars, disputeVars, optionVars, listVars, broadcastVars)
    \/ focus = "broadcast" /\ BroadcastNext
       /\ Still(accountVars, vars, disputeVars, optionVars, listVars, draftVars)

MCSpec == MCInit /\ [][MCNext]_<<officeVars, focus>>

MCSymmetry == Permutations(Hands) \cup Permutations(Editors) \cup Permutations(Heralds)
=============================================================================
