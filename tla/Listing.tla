------------------------------- MODULE Listing -------------------------------
(***************************************************************************)
(* Reading a list page by page while it changes: the back office's lists    *)
(* (admin.service.ts and the others of that form), and the marketplace      *)
(* (queryPublishedTasksPage in tasks.service.ts).  Newest rows come first.   *)
(***************************************************************************)
EXTENDS Integers, Sequences, FiniteSets

CONSTANTS
    Entries,    \* rows that may be on the list
    Start,      \* the list at first
    Limit,      \* rows on a page
    Kinds,      \* which lists are read: "staff", "market", "platform"
    Matching    \* rows for the platform asked for, when one is

ASSUME ListingAssumption ==
    /\ Start \in Seq(Entries) /\ Limit \in Nat \ {0}
    /\ Kinds \subseteq {"staff", "market", "platform"}

VARIABLES
    list,       \* the rows that satisfy the filter, newest first
    reader,     \* who reads it page by page
    shaken      \* history: "left" when a row left the list during the reading,
                \* "came" when one came between the two queries of a page,
                \* "grew" when one came at all

listVars == <<list, reader, shaken>>

Reader == [kind : Kinds, page : Nat, seen : SUBSET Entries, found : Seq(Entries), total : Nat,
           asked : SUBSET {"rows", "count"}, done : BOOLEAN]

ListingTypeOK ==
    /\ \A i \in DOMAIN list : list[i] \in Entries
    /\ reader.kind \in Kinds /\ reader.page \in Nat /\ reader.total \in Nat
    /\ reader.seen \subseteq Entries /\ reader.asked \subseteq {"rows", "count"}
    /\ \A i \in DOMAIN reader.found : reader.found[i] \in Entries
    /\ Len(reader.found) <= Limit /\ reader.done \in BOOLEAN
    /\ shaken \subseteq {"left", "came", "grew"}

ListingInit ==
    /\ list = Start
    /\ \E k \in Kinds : reader = [kind |-> k, page |-> 1, seen |-> {}, found |-> <<>>,
                                  total |-> 0, asked |-> {}, done |-> FALSE]
    /\ shaken = {}

\* Rows n + 1 to n + m of s, as far as there are any.
Slice(s, n, m) == SubSeq(s, n + 1, IF n + m < Len(s) THEN n + m ELSE Len(s))

Skip == (reader.page - 1) * Limit
TotalPages(total) == (total + Limit - 1) \div Limit

Listed == {list[i] : i \in DOMAIN list}

-----------------------------------------------------------------------------
\* Mutant: a page has one row more, which tells whether there is a next one.
WidePage == Slice(list, Skip, Limit + 1)

\* Mutant: pages are counted from zero when rows are skipped.
SkipPage == Slice(list, reader.page * Limit, Limit)

StaffPage == Slice(list, Skip, Limit)

\* The places of s that hold a row for the platform, and the k-th of them.
Passing(s) == {i \in DOMAIN s : s[i] \in Matching}
Place(P, k) == CHOOSE i \in P : Cardinality({j \in P : j <= i}) = k

Filtered(s) ==
    LET P == Passing(s)
    IN  [k \in 1 .. Cardinality(P) |-> s[Place(P, k)]]

\* Rows are skipped by the query and then once more in memory.  With a platform the
\* first rows of the list are filtered in memory, and they are all there is.
MarketRows ==
    IF reader.kind = "platform"
    THEN Filtered(Slice(list, 0, 3 * Limit))
    ELSE Slice(list, Skip, Limit)

MarketPage == Slice(MarketRows, Skip, Limit)

FetchRows ==
    /\ ~reader.done /\ "rows" \notin reader.asked
    /\ reader' = [reader EXCEPT
                     !.found = IF reader.kind = "staff" THEN StaffPage ELSE MarketPage,
                     !.total = IF reader.kind = "platform" THEN Len(MarketRows) ELSE @,
                     !.asked = @ \cup {"rows"}]
    /\ UNCHANGED <<list, shaken>>

\* The two queries run side by side.
CountRows ==
    /\ ~reader.done /\ "count" \notin reader.asked
    /\ reader' = [reader EXCEPT !.total = IF reader.kind = "platform" THEN @ ELSE Len(list),
                                !.asked = @ \cup {"count"}]
    /\ UNCHANGED <<list, shaken>>

\* The reader goes on to the next page while there is one.
TurnPage ==
    /\ reader.asked = {"rows", "count"}
    /\ reader' = [reader EXCEPT
                     !.seen = @ \cup {reader.found[i] : i \in DOMAIN reader.found},
                     !.page = IF @ < TotalPages(reader.total) THEN @ + 1 ELSE @,
                     !.done = reader.page >= TotalPages(reader.total),
                     !.asked = {}, !.found = <<>>]
    /\ UNCHANGED <<list, shaken>>

RowComes(r) ==
    /\ ~reader.done
    /\ r \notin Listed
    /\ list' = <<r>> \o list
    /\ shaken' = shaken \cup {"grew"} \cup (IF reader.asked = {} THEN {} ELSE {"came"})
    /\ UNCHANGED reader

RowLeaves(i) ==
    /\ ~reader.done
    /\ i \in DOMAIN list
    /\ list' = SubSeq(list, 1, i - 1) \o SubSeq(list, i + 1, Len(list))
    /\ shaken' = shaken \cup {"left"}
    /\ UNCHANGED reader

ListingNext ==
    \/ FetchRows \/ CountRows \/ TurnPage
    \/ \E r \in Entries : RowComes(r)
    \/ \E i \in DOMAIN list : RowLeaves(i)

ListingSpec == ListingInit /\ [][ListingNext]_listVars

-----------------------------------------------------------------------------
\* Whoever reads a list of the back office to its last page has seen every row that
\* was there when the reading began, whatever was added in front meanwhile - unless a
\* row left the list, or one came between the query and the count of a page.
NoRowMissed ==
    reader.done /\ reader.kind = "staff" /\ shaken \cap {"left", "came"} = {} =>
        {Start[i] : i \in DOMAIN Start} \subseteq reader.seen

\* "Published (ACTIVE) tasks with pagination": the pages of an unchanged marketplace
\* show every published task.
PagesCoverMarket ==
    reader.done /\ reader.kind = "market" /\ shaken = {} => Listed \subseteq reader.seen
-----------------------------------------------------------------------------
(* The inductive invariant behind NoRowMissed                               *)

\* While no row leaves, the rows of the start are the last ones of the list.
Came == Len(list) - Len(Start)

StartIsLast ==
    /\ Came \in Nat
    /\ \A i \in DOMAIN Start : list[Came + i] = Start[i]

\* What the two queries of a page brought is still so, and of the rows of the start
\* those on earlier pages were seen: rows that come move them to later places.
PagesHold ==
    /\ StartIsLast
    /\ "rows" \in reader.asked => reader.found = StaffPage
    /\ "count" \in reader.asked => reader.total = Len(list)
    /\ \A i \in DOMAIN Start :
          Came + i <= Skip \/ reader.done => Start[i] \in reader.seen

ListingInv ==
    /\ list \in Seq(Entries) /\ shaken \subseteq {"left", "came", "grew"}
    /\ reader \in [kind : Kinds, page : Nat \ {0}, seen : {reader.seen},
                    found : {reader.found}, total : {reader.total},
                    asked : SUBSET {"rows", "count"}, done : BOOLEAN]
    /\ reader.done => reader.asked = {}
    /\ reader.kind = "staff" /\ shaken \cap {"left", "came"} = {} => PagesHold
=============================================================================
