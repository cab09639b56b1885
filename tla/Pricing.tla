------------------------------ MODULE Pricing ------------------------------
(***************************************************************************)
(* What a campaign costs and what a contributor gets: the arithmetic of     *)
(* task-pricing.util.ts and task-payout.util.ts in kobo, and the row of one *)
(* campaign while createTask and updateTask (tasks.service.ts) price it.    *)
(*                                                                          *)
(* updateTask prices the fields it was given merged with the row as it was  *)
(* read, and writes the fields it has computed, no others: of two updates   *)
(* in flight each may write what the other one priced.                      *)
(***************************************************************************)
EXTENDS Integers

CONSTANTS
    Categories, Contents,   \* those in use, of the tables below
    Counts,                 \* numbers of contributors creators ask for
    MaxCount,               \* 50000, the largest number that is taken
    Fees,                   \* PLATFORM_FEE_PERCENTAGE, as deployed at some time
    Budgets,                \* budgets of estimates and of legacy campaigns, in kobo
    Editors                 \* updates in flight at the same time

CategoryAmount == [LIKE_SHARE_SAVE_REPOST |-> 12000, COMMENT_POST |-> 12000,
                   MAKE_POST |-> 20000, FOLLOW_ACCOUNT |-> 15000]

\* NONE is a content type of null.
Premium == [VIDEO |-> 330000, IMAGE |-> 0, TEXT |-> 0, NONE |-> 0]

ASSUME PricingAssumption ==
    /\ Categories \subseteq DOMAIN CategoryAmount /\ Contents \subseteq DOMAIN Premium
    /\ "NONE" \in Contents /\ MaxCount \in Nat \ {0}
    /\ Counts \subseteq Nat \ {0}
    /\ Fees \subseteq Nat /\ Budgets \subseteq Nat \ {0}

-----------------------------------------------------------------------------
(* The arithmetic                                                           *)

\* Math.round(n / d).
Round(n, d) == (2 * n + d) \div (2 * d)

\* The premium is charged for posts only: liking a video is liking.
UnitRate(c, k) == CategoryAmount[c] + IF c = "MAKE_POST" THEN Premium[k] ELSE 0

Pool(rate, slots) == rate * slots

\* What the creator funds: the pool and the platform fee on top.
TotalBudget(pool, fee) == Round(pool * (100 + fee), 100)

Count(n) == IF n < MaxCount THEN n ELSE MaxCount

\* Mutant: the fee is not backed out of the budget.
SlotsOfPool(rate, budget, fee) ==
    LET q == budget \div rate
    IN  {IF n < 1 THEN 1 ELSE n : n \in {q}}

\* The places a budget buys.  The quotient is a float: where the budget is a
\* multiple of the price of a place it may come out just below it.
SlotsOfBudget(rate, budget, fee) ==
    LET price == rate * (100 + fee)
        q == (100 * budget) \div price
        float == IF q * price = 100 * budget THEN {q, q - 1} ELSE {q}
    IN  {IF n < 1 THEN 1 ELSE n : n \in float}

\* An equal part of the pool for every planned contributor, in kobo.
Share(pool, slots) == Round(pool, slots)

-----------------------------------------------------------------------------
(* The campaign's row                                                       *)

VARIABLES
    row,    \* the pricing fields of the campaign
    fee,    \* the platform fee configured now
    edit,   \* the updates in flight: the fields each writes, and with what
    asked,  \* history: the content type the row was last priced for
    crossed \* history: two updates overlapped

vars == <<row, fee, edit, asked, crossed>>

\* pool is 0 (null) on legacy campaigns, whose budget is the pool.
Row == [cat : Categories, content : Contents, slots : 1 .. MaxCount, pool : Nat,
        budget : Nat, perTask : Nat, fee : Fees]

Fields == {"cat", "content", "slots", "pool", "budget", "perTask", "fee"}
PriceFields == Fields \ {"cat", "content"}

TypeOK ==
    /\ row \in Row
    /\ fee \in Fees
    /\ DOMAIN edit \subseteq Editors
    /\ \A e \in DOMAIN edit : edit[e].fields \subseteq Fields /\ edit[e].new \in Row
    /\ asked \in Contents /\ crossed \in BOOLEAN

\* A row with category c, content k and n contributors, priced with fee f.
Priced(c, k, n, f) ==
    LET rate == UnitRate(c, k)
        slots == Count(n)
    IN  [cat |-> c, content |-> k, slots |-> slots, pool |-> Pool(rate, slots),
         budget |-> TotalBudget(Pool(rate, slots), f), perTask |-> rate, fee |-> f]

Legacy(c, k, n, b, f) ==
    [cat |-> c, content |-> k, slots |-> Count(n), pool |-> 0, budget |-> b,
     perTask |-> 0, fee |-> f]

Init ==
    /\ fee \in Fees
    /\ \E c \in Categories, k \in Contents, n \in Counts :
          \/ row = Priced(c, k, n, fee)
          \/ \E b \in Budgets : row = Legacy(c, k, n, b, fee)
    /\ edit = [e \in {} |-> 0]
    /\ asked = row.content /\ crossed = FALSE

\* The processes are restarted with another fee.
Configure(f) ==
    /\ fee' = f
    /\ UNCHANGED <<row, edit, asked, crossed>>

Begin(e, fields, new) ==
    /\ e \notin DOMAIN edit
    /\ edit' = [d \in DOMAIN edit \cup {e} |->
                   IF d = e THEN [fields |-> fields, new |-> new] ELSE edit[d]]
    /\ crossed' = (crossed \/ DOMAIN edit # {})
    /\ UNCHANGED <<row, fee, asked>>

\* What is given is written, unless it is a content type of null.
Written(given, k) == (IF k = "NONE" THEN given \ {"content"} ELSE given) \cup PriceFields

\* Mutant: priced as the row was, not as it is going to be.
RepriceAsRead(e, given, c, k, n) ==
    Begin(e, Written(given, k),
          [Priced(row.cat, row.content, n, fee) EXCEPT !.cat = c, !.content = k])

\* A category, a content type, a headcount or a budget is given: what is not is
\* the row's, and is not written.  A content type of null is priced, at nothing, and
\* not written either.  A given budget must be the new one, within a naira, or the
\* update is refused.
Reprice(e, given, c, k, n) ==
    Begin(e, Written(given, k),
          Priced(IF "cat" \in given THEN c ELSE row.cat,
                 IF "content" \in given THEN k ELSE row.content, n, fee))

\* Only the audience is given: the headcount is written back, and the share.
EditAudience(e) ==
    LET pool == IF row.pool > 0 THEN row.pool ELSE row.budget
    IN  Begin(e, {"slots", "perTask"}, [row EXCEPT !.perTask = Share(pool, row.slots)])

\* prisma.task.update with the fields of the update only.
Write(e) ==
    /\ e \in DOMAIN edit
    /\ row' = [f \in Fields |-> IF f \in edit[e].fields THEN edit[e].new[f] ELSE row[f]]
    /\ edit' = [d \in DOMAIN edit \ {e} |-> edit[d]]
    /\ asked' = IF PriceFields \subseteq edit[e].fields THEN edit[e].new.content ELSE asked
    /\ UNCHANGED <<fee, crossed>>

\* The update is refused by the database, or the process dies.
Drop(e) ==
    /\ e \in DOMAIN edit
    /\ edit' = [d \in DOMAIN edit \ {e} |-> edit[d]]
    /\ UNCHANGED <<row, fee, asked, crossed>>

Next ==
    \/ \E f \in Fees : Configure(f)
    \/ \E e \in Editors :
          \/ \E given \in SUBSET {"cat", "content"}, c \in Categories, k \in Contents,
                 n \in Counts \cup {row.slots} : Reprice(e, given, c, k, n)
          \/ EditAudience(e)
          \/ Write(e) \/ Drop(e)

Spec == Init /\ [][Next]_vars

-----------------------------------------------------------------------------
(* Properties                                                               *)

ContributorPool == IF row.pool > 0 THEN row.pool ELSE row.budget

\* Contributors receive the locked rate of what the campaign was last priced for, in
\* full, however often it was edited and whatever the platform fee became, and that is
\* what the campaign asks of them, or an update gave a content type of null, for which a
\* video is priced as text and stays a video - unless two updates overlapped, each
\* pricing what the other one replaced (updateTask, contributorNetPayoutAmount).
FullRate ==
    ~crossed =>
        /\ row.pool > 0 =>
              Share(ContributorPool, row.slots) = UnitRate(row.cat, asked)
        /\ asked \in {row.content, "NONE"}

\* What the creator is charged is the pool and the fee the row names, within the
\* rounding, also after updates overlapped: the funded total never belongs to
\* another pool than the one contributors are paid from.
BudgetIsPoolPlusFee ==
    row.pool > 0 => row.budget = TotalBudget(row.pool, row.fee)

\* All shares together differ from the pool by at most half a kobo for each
\* contributor, for priced and for legacy campaigns (contributorGrossPerShare).
SharesAddUp ==
    2 * (row.slots * Share(ContributorPool, row.slots) - ContributorPool)
        \in -row.slots .. row.slots

\* A budget-only estimate promises no more places than the budget funds with the fee
\* included, and leaves at most one more place unused - but a budget below the price of
\* one place is quoted that one place, which it does not fund (estimateTaskPricing takes
\* the larger of 1 and the quotient).
QuotesAreFunded ==
    \A b \in Budgets : \A n \in SlotsOfBudget(UnitRate(row.cat, row.content), b, fee) :
        LET total(m) == TotalBudget(Pool(UnitRate(row.cat, row.content), m), fee)
        IN  /\ IF total(1) <= b THEN total(n) <= b ELSE n = 1
            /\ total(n + 2) > b

-----------------------------------------------------------------------------
(* The inductive invariant of PricingProofs                                  *)

RatedFor(r, k) == r.pool = Pool(UnitRate(r.cat, k), r.slots)
Rated(r) == RatedFor(r, r.content)
Funded(r) == r.budget = TotalBudget(r.pool, r.fee)

\* An update in flight writes all price fields, which agree with each other, or
\* only the headcount.
EditsHold ==
    \A e \in DOMAIN edit :
        \/ /\ PriceFields \subseteq edit[e].fields
           /\ Rated(edit[e].new) /\ Funded(edit[e].new)
        \/ edit[e].fields = {"slots", "perTask"}

\* What an update has read of the row and does not write is still so.
ReadHolds ==
    ~crossed =>
        /\ row.pool > 0 => RatedFor(row, asked)
        /\ asked \in {row.content, "NONE"}
        /\ \A d, e \in DOMAIN edit : d = e
        /\ \A e \in DOMAIN edit :
              /\ "cat" \notin edit[e].fields => edit[e].new.cat = row.cat
              /\ "content" \notin edit[e].fields => edit[e].new.content \in {row.content, "NONE"}
              /\ edit[e].fields = {"slots", "perTask"} => edit[e].new.slots = row.slots

\* The row is well formed and what handlers in flight will write fits it.
PricingInv == TypeOK /\ BudgetIsPoolPlusFee /\ EditsHold /\ ReadHolds
=============================================================================
