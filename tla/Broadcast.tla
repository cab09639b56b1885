------------------------------ MODULE Broadcast ------------------------------
(***************************************************************************)
(* Announcing a published campaign to every contributor, page by page        *)
(* (notifyContributorsOfNewTask in tasks.service.ts), each page by batches   *)
(* that Resend accepts in part or not at all (sendBatch in email.service.ts). *)
(* Nobody awaits a broadcast.  Every publishTask that gets past its guards     *)
(* starts one: two of them at once, or one of a paused or terminated campaign  *)
(* that is published again (Settlement), announce the same campaign twice.     *)
(* Users join, verify, are suspended and come back while broadcasts run.       *)
(***************************************************************************)
EXTENDS Integers, Sequences, FiniteSets

CONSTANTS
    Readers,    \* users but the creator, by the order of their ids: numbers
    Heralds,    \* broadcasts of the campaign, one for every publishTask
    PageSize, BatchLimit

ASSUME BroadcastAssumption ==
    /\ Readers \subseteq Nat \ {0} /\ IsFiniteSet(Readers)
    /\ PageSize \in Nat \ {0} /\ BatchLimit \in Nat \ {0}

VARIABLES
    reachable,  \* active contributors with a verified e-mail
    herald,     \* the broadcasts
    mails,      \* the mails of each broadcast that everybody got
    loyal,      \* history: reachable all the time since each broadcast began
    spilt,      \* history: those whose mail Resend did not take
    forsaken    \* history: broadcasts of which the last one of a page left, or
                \* whose process died

broadcastVars == <<reachable, herald, mails, loyal, spilt, forsaken>>

Herald == [step : {"waiting", "page", "send", "done"}, cursor : Readers \cup {0},
           batch : SUBSET Readers, full : BOOLEAN]

BroadcastTypeOK ==
    /\ reachable \subseteq Readers
    /\ herald \in [Heralds -> Herald]
    /\ mails \in [Heralds -> [Readers -> Nat]]
    /\ loyal \in [Heralds -> SUBSET Readers] /\ spilt \in [Heralds -> SUBSET Readers]
    /\ forsaken \subseteq Heralds

Unborn == [step |-> "waiting", cursor |-> 0, batch |-> {}, full |-> FALSE]

BroadcastInit ==
    /\ reachable \in SUBSET Readers
    /\ herald = [b \in Heralds |-> Unborn]
    /\ mails = [b \in Heralds |-> [p \in Readers |-> 0]]
    /\ loyal = [b \in Heralds |-> {}] /\ spilt = [b \in Heralds |-> {}] /\ forsaken = {}

\* The first n of a set of ids, in their order.
FirstOf(S, n) == {p \in S : Cardinality({q \in S : q <= p}) <= n}
Lowest(S) == CHOOSE p \in S : \A q \in S : p <= q
Highest(S) == CHOOSE p \in S : \A q \in S : q <= p

-----------------------------------------------------------------------------
\* A publishTask starts broadcast b, unless TASK_BROADCAST_EMAIL_ENABLED is false.
Publish(b) ==
    /\ herald[b].step = "waiting"
    /\ herald' = [herald EXCEPT ![b].step = "page"]
    /\ loyal' = [loyal EXCEPT ![b] = reachable]
    /\ UNCHANGED <<reachable, mails, spilt, forsaken>>

\* Mutant: the page starts with the cursor's row.
PageFromCursor(b) == FirstOf({p \in reachable : p >= herald[b].cursor}, PageSize)

\* Prisma's cursor: rows from the cursor's id on, of which the first is skipped,
\* whether or not it is the cursor's.
Page(b) ==
    LET rows == {p \in reachable : p >= herald[b].cursor}
        rest == IF herald[b].cursor = 0 \/ rows = {} THEN rows ELSE rows \ {Lowest(rows)}
    IN  FirstOf(rest, PageSize)

FindContributors(b) ==
    /\ herald[b].step = "page"
    /\ herald' = [herald EXCEPT ![b] =
           IF Page(b) = {} THEN [@ EXCEPT !.step = "done"]
           ELSE [@ EXCEPT !.step = "send", !.batch = Page(b), !.cursor = Highest(Page(b)),
                          !.full = Cardinality(Page(b)) = PageSize]]
    /\ UNCHANGED <<reachable, mails, loyal, spilt, forsaken>>

\* A page that is not full is the last one.
AfterChunk(b, chunk) ==
    IF herald[b].batch # chunk THEN "send" ELSE IF herald[b].full THEN "page" ELSE "done"

\* Resend takes some of a chunk, or nothing; the rest only counts as failed, and so
\* does all of the chunk when the answer is lost.
SendChunk(b, taken) ==
    LET chunk == FirstOf(herald[b].batch, BatchLimit)
    IN  /\ herald[b].step = "send"
        /\ taken \subseteq chunk
        /\ mails' = [mails EXCEPT ![b] =
               [p \in Readers |-> mails[b][p] + (IF p \in taken THEN 1 ELSE 0)]]
        /\ herald' = [herald EXCEPT ![b].step = AfterChunk(b, chunk), ![b].batch = @ \ chunk]
        /\ spilt' = [spilt EXCEPT ![b] = @ \cup (chunk \ taken)]
        /\ UNCHANGED <<reachable, loyal, forsaken>>

\* The process dies or the query of a page fails; nothing takes the broadcast up again.
DropHerald(b) ==
    /\ herald[b].step \in {"page", "send"}
    /\ herald' = [herald EXCEPT ![b].step = "done", ![b].batch = {}]
    /\ forsaken' = forsaken \cup {b}
    /\ UNCHANGED <<reachable, mails, loyal, spilt>>

\* A user verifies an e-mail address, or is let in again.
Admit(p) ==
    /\ p \notin reachable
    /\ reachable' = reachable \cup {p}
    /\ UNCHANGED <<herald, mails, loyal, spilt, forsaken>>

\* A user is suspended.
Suspend(p) ==
    /\ p \in reachable
    /\ reachable' = reachable \ {p}
    /\ loyal' = [b \in Heralds |-> loyal[b] \ {p}]
    /\ forsaken' = forsaken \cup {b \in Heralds : herald[b].cursor = p}
    /\ UNCHANGED <<herald, mails, spilt>>

Announce(b) ==
    \/ Publish(b) \/ FindContributors(b) \/ DropHerald(b)
    \/ \E taken \in SUBSET herald[b].batch : SendChunk(b, taken)

BroadcastNext ==
    \/ \E b \in Heralds : Announce(b)
    \/ \E p \in Readers : Admit(p) \/ Suspend(p)

BroadcastSpec == BroadcastInit /\ [][BroadcastNext]_broadcastVars

-----------------------------------------------------------------------------
\* A broadcast mails nobody twice (a campaign published twice does), and at its end
\* everybody who could be reached from its beginning on was mailed, whoever came and
\* went meanwhile ("one bad address must not abandon the rest of a broadcast") - but
\* for mails that Resend did not take, and unless the last one of a page was suspended
\* before the next page was read.
HeardOnce(b) ==
    /\ \A p \in Readers : mails[b][p] <= 1
    /\ herald[b].step = "done" /\ b \notin forsaken =>
          \A p \in loyal[b] \ spilt[b] : mails[b][p] = 1

\* Each broadcast of the campaign reaches everybody once.
EverybodyHearsOnce == \A b \in Heralds : HeardOnce(b)
=============================================================================
