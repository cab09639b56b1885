------------------------------- MODULE Escrow -------------------------------
(***************************************************************************)
(* What the settlement of a campaign promises its creator, stated without   *)
(* handlers: a campaign's budget is spent on contributors until it is       *)
(* settled, and settling returns what is left in one step, once - at once    *)
(* (pause, end) or through a ticket that an administrator releases or        *)
(* forgoes (terminate).                                                      *)
(*                                                                          *)
(* A campaign can go astray; nothing is promised of it from then on.  The    *)
(* detailed specification has to say when that happens.                      *)
(***************************************************************************)
EXTENDS Integers

CONSTANTS Campaigns, Tickets, NoCampaign    \* not one of Campaigns

VARIABLES
    budget,     \* what the creator pays for the campaign
    spent,      \* what its contributors received
    back,       \* what the creator received back
    ticket,     \* refunds that wait for an administrator
    astray      \* campaigns of which nothing is promised

escrowVars == <<budget, spent, back, ticket, astray>>

Unwritten == [of |-> NoCampaign, net |-> 0, state |-> "closed"]
Ticket == [of : Campaigns, net : Nat, state : {"open", "closed"}] \cup {Unwritten}

EscrowTypeOK ==
    /\ budget \in [Campaigns -> Nat]
    /\ spent \in [Campaigns -> Nat]
    /\ back \in [Campaigns -> Nat]
    /\ ticket \in [Tickets -> Ticket]

\* What is left of the budget of c.
Rest(c) == IF spent[c] < budget[c] THEN budget[c] - spent[c] ELSE 0

Settled(c) == back[c] # 0 \/ \E k \in Tickets : ticket[k].of = c

EscrowInit ==
    /\ budget \in [Campaigns -> Nat]
    /\ spent = [c \in Campaigns |-> 0]
    /\ back = [c \in Campaigns |-> 0]
    /\ ticket = [k \in Tickets |-> Unwritten]
    /\ astray = {}

\* A campaign that is not settled is repriced, or pays a contributor.
Price(c) ==
    /\ ~Settled(c)
    /\ budget'[c] \in Nat
    /\ budget' = [budget EXCEPT ![c] = budget'[c]]
    /\ UNCHANGED <<spent, back, ticket, astray>>

Spend(c) ==
    /\ ~Settled(c)
    /\ spent'[c] \in Nat /\ spent'[c] > spent[c]
    /\ spent' = [spent EXCEPT ![c] = spent'[c]]
    /\ UNCHANGED <<budget, back, ticket, astray>>

GiveBack(c) ==
    /\ ~Settled(c)
    /\ back' = [back EXCEPT ![c] = Rest(c)]
    /\ UNCHANGED <<budget, spent, ticket, astray>>

\* A ticket promises no more than what is left; a fee may be kept.
Hold(c, k) ==
    /\ ~Settled(c) /\ ticket[k] = Unwritten
    /\ ticket'[k] \in [of : {c}, net : 0 .. Rest(c), state : {"open"}]
    /\ ticket' = [ticket EXCEPT ![k] = ticket'[k]]
    /\ UNCHANGED <<budget, spent, back, astray>>

Release(k) ==
    /\ ticket[k].state = "open"
    /\ back' = [back EXCEPT ![ticket[k].of] = @ + ticket[k].net]
    /\ ticket' = [ticket EXCEPT ![k].state = "closed"]
    /\ UNCHANGED <<budget, spent, astray>>

Forgo(k) ==
    /\ ticket[k].state = "open"
    /\ ticket' = [ticket EXCEPT ![k].state = "closed"]
    /\ UNCHANGED <<budget, spent, back, astray>>

\* A step of the books of c alone, which is or goes astray.
Stray(c) ==
    /\ c \in astray' /\ EscrowTypeOK'
    /\ \A b \in Campaigns \ {c} :
          /\ budget'[b] = budget[b] /\ spent'[b] = spent[b] /\ back'[b] = back[b]
          /\ b \in astray <=> b \in astray'
    /\ \A k \in Tickets :
          \/ ticket'[k] = ticket[k]
          \/ ticket[k].of \in {c, NoCampaign} /\ ticket'[k].of = c

EscrowNext ==
    \/ \E c \in Campaigns : Price(c) \/ Spend(c) \/ GiveBack(c) \/ Stray(c)
    \/ \E c \in Campaigns, k \in Tickets : Hold(c, k)
    \/ \E k \in Tickets : Release(k) \/ Forgo(k)

EscrowSpec == EscrowInit /\ [][EscrowNext]_escrowVars

-----------------------------------------------------------------------------
\* What follows: a creator gets back no more than the contributors left of the
\* budget, and an open ticket is the only refund of its campaign.
NoMoreThanLeft ==
    \A c \in Campaigns \ astray :
        /\ back[c] <= Rest(c)
        /\ \A k \in Tickets : ticket[k].of = c =>
              /\ \A j \in Tickets : ticket[j].of = c => j = k
              /\ ticket[k].state = "open" => back[c] = 0 /\ ticket[k].net <= Rest(c)
=============================================================================
