------------------------------ MODULE Disputes ------------------------------
(***************************************************************************)
(* A creator disputes a campaign and staff decide (createCampaignDispute in *)
(* tasks.service.ts, resolveCampaignDispute in admin.service.ts).  That at   *)
(* most one dispute of a campaign is open, and that a dispute is decided     *)
(* once, are queries made before the write; no index stands behind them.     *)
(***************************************************************************)
EXTENDS Integers

CONSTANTS
    Campaigns,  \* each with the creator that may dispute it
    Cases,      \* ids of disputes
    Clerks,     \* handlers in flight at the same time
    NoCampaign, NoCase

ASSUME DisputesAssumption == NoCampaign \notin Campaigns /\ NoCase \notin Cases

VARIABLES
    dispute,    \* rows of campaign_disputes
    filed,      \* the decision the audit log has last for a dispute
    clerk,      \* handlers in flight
    doubled,    \* history: campaigns with two disputes filed at once
    wrangled    \* history: disputes decided twice at once, or whose decision
                \* was not audited

disputeVars == <<dispute, filed, clerk, doubled, wrangled>>

Decisions == {"RESOLVED", "REJECTED"}
Dispute == [status : {"NONE", "OPEN"} \cup Decisions, of : Campaigns \cup {NoCampaign}]
Clerk == [step : {"idle", "create", "decide", "audit"}, of : Campaigns \cup {NoCampaign},
          case : Cases \cup {NoCase}, decision : {"NONE"} \cup Decisions]

DisputesTypeOK ==
    /\ dispute \in [Cases -> Dispute]
    /\ filed \in [Cases -> {"NONE"} \cup Decisions]
    /\ clerk \in [Clerks -> Clerk]
    /\ doubled \subseteq Campaigns /\ wrangled \subseteq Cases

AtEase == [step |-> "idle", of |-> NoCampaign, case |-> NoCase, decision |-> "NONE"]

DisputesInit ==
    /\ dispute = [k \in Cases |-> [status |-> "NONE", of |-> NoCampaign]]
    /\ filed = [k \in Cases |-> "NONE"]
    /\ clerk = [c \in Clerks |-> AtEase]
    /\ doubled = {} /\ wrangled = {}

OpenOf(t) == {k \in Cases : dispute[k].status = "OPEN" /\ dispute[k].of = t}

Disputing(t) == \E c \in Clerks : clerk[c].step = "create" /\ clerk[c].of = t
Deciding(k) == \E c \in Clerks : clerk[c].case = k

\* Mutant: a dispute that is open already does not keep another out.
DisputeAgain(c, t) ==
    /\ clerk[c].step = "idle"
    /\ clerk' = [clerk EXCEPT ![c] = [AtEase EXCEPT !.step = "create", !.of = t]]
    /\ doubled' = IF Disputing(t) THEN doubled \cup {t} ELSE doubled
    /\ UNCHANGED <<dispute, filed, wrangled>>

CreateCampaignDispute(c, t) ==
    /\ clerk[c].step = "idle"
    /\ OpenOf(t) = {}
    /\ clerk' = [clerk EXCEPT ![c] = [AtEase EXCEPT !.step = "create", !.of = t]]
    /\ doubled' = IF Disputing(t) THEN doubled \cup {t} ELSE doubled
    /\ UNCHANGED <<dispute, filed, wrangled>>

InsertDispute(c, k) ==
    /\ clerk[c].step = "create"
    /\ dispute[k].status = "NONE"
    /\ dispute' = [dispute EXCEPT ![k] = [status |-> "OPEN", of |-> clerk[c].of]]
    /\ clerk' = [clerk EXCEPT ![c] = AtEase]
    /\ UNCHANGED <<filed, doubled, wrangled>>

\* Mutant: a closed dispute may be decided anew.
DecideAnew(c, k, decision) ==
    /\ clerk[c].step = "idle"
    /\ dispute[k].status # "NONE"
    /\ clerk' = [clerk EXCEPT ![c] = [AtEase EXCEPT !.step = "decide", !.case = k,
                                                    !.decision = decision]]
    /\ wrangled' = IF Deciding(k) THEN wrangled \cup {k} ELSE wrangled
    /\ UNCHANGED <<dispute, filed, doubled>>

\* No handler puts a dispute UNDER_REVIEW.
ResolveCampaignDispute(c, k, decision) ==
    /\ clerk[c].step = "idle"
    /\ dispute[k].status = "OPEN"
    /\ clerk' = [clerk EXCEPT ![c] = [AtEase EXCEPT !.step = "decide", !.case = k,
                                                    !.decision = decision]]
    /\ wrangled' = IF Deciding(k) THEN wrangled \cup {k} ELSE wrangled
    /\ UNCHANGED <<dispute, filed, doubled>>

DecideDispute(c) ==
    /\ clerk[c].step = "decide"
    /\ dispute' = [dispute EXCEPT ![clerk[c].case].status = clerk[c].decision]
    /\ clerk' = [clerk EXCEPT ![c].step = "audit"]
    /\ UNCHANGED <<filed, doubled, wrangled>>

AuditDispute(c) ==
    /\ clerk[c].step = "audit"
    /\ filed' = [filed EXCEPT ![clerk[c].case] = clerk[c].decision]
    /\ clerk' = [clerk EXCEPT ![c] = AtEase]
    /\ UNCHANGED <<dispute, doubled, wrangled>>

DropClerk(c) ==
    /\ clerk[c].step # "idle"
    /\ wrangled' = IF clerk[c].step = "audit" THEN wrangled \cup {clerk[c].case} ELSE wrangled
    /\ clerk' = [clerk EXCEPT ![c] = AtEase]
    /\ UNCHANGED <<dispute, filed, doubled>>

DisputesNext ==
    \E c \in Clerks :
        \/ \E t \in Campaigns : CreateCampaignDispute(c, t)
        \/ \E k \in Cases : InsertDispute(c, k)
        \/ \E k \in Cases : \E decision \in Decisions : ResolveCampaignDispute(c, k, decision)
        \/ DecideDispute(c) \/ AuditDispute(c) \/ DropClerk(c)

DisputesSpec == DisputesInit /\ [][DisputesNext]_disputeVars

-----------------------------------------------------------------------------
\* A creator has at most one open dispute of a campaign - unless two were filed at
\* the same time (createCampaignDispute).
OneOpenDispute ==
    \A t \in Campaigns \ doubled : \A j, k \in OpenOf(t) : j = k

\* A decision is final and the audit log names it: the creator who was told that the
\* dispute is resolved does not find it rejected later - unless two members of staff
\* decided at the same time (resolveCampaignDispute).
DecisionIsFinal ==
    [][\A k \in Cases : /\ dispute[k].status \in Decisions => dispute'[k] = dispute[k] \/ k \in wrangled
                        /\ filed'[k] # filed[k] => filed'[k] = dispute[k].status \/ k \in wrangled
      ]_disputeVars
=============================================================================
