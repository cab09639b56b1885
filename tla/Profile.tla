------------------------------ MODULE Profile ------------------------------
(***************************************************************************)
(* One account's legal name, identity number and social handles             *)
(* (users.service.ts, with dojah.service.ts for the lookup), and the review *)
(* of its handles by staff (social-verification.service.ts).                *)
(*                                                                          *)
(* A handle is up to spelling in capitals, and an identity has one name:    *)
(* two matching name parts are a match.  First and last name are one value, *)
(* blank when either is.  The cool-downs, off as shipped, would only refuse.*)
(***************************************************************************)
EXTENDS Integers

CONSTANTS
    Platforms,  \* SOCIAL_PLATFORMS, as numbers in their order
    Handles,    \* handles on a platform
    Names,      \* legal names
    Nins,       \* identity numbers
    Registered, \* those Dojah has a first and a last name for (external)
    OwnerOf,    \* whose each of them is, according to Dojah (external)
    Checked,    \* of a number: "name" as shipped, "record" when DOJAH_ENFORCE_NAME_MATCH
                \* is off, "nothing" under DOJAH_MOCK_VERIFICATION
    Hands,      \* the user's handlers in flight at the same time
    Desks,      \* staff reviews in flight at the same time
    MaxGen,     \* bound on the review rows of a platform over time
    NoHandle, NoName, NoNin

ASSUME ProfileAssumption ==
    /\ Platforms \subseteq Nat /\ MaxGen \in Nat
    /\ Registered \subseteq Nins /\ OwnerOf \in [Registered -> Names]
    /\ Checked \in {"name", "record", "nothing"}
    /\ NoHandle \notin Handles /\ NoName \notin Names /\ NoNin \notin Nins

VARIABLES
    name, locked,   \* legal name, legalNamesLockedAt is set
    nin,            \* identity number, when verified
    others,         \* identity numbers of other accounts
    handle,         \* socialMediaHandles of the profile
    row,            \* the review row of each platform, and the how-manieth it is
    hand,           \* the user's handlers in flight
    desk,           \* reviews in flight: the row read and the decision
    read,           \* history: the handle a reviewer read and decided on
    behind,         \* history: platforms whose row was left as it was by a
                    \* handler that replaced the handle
    overtaken,      \* history: platforms submitted again during a review
    contested,      \* history: platforms with two reviews at once
    raced           \* history: which user handlers overlapped

person == <<name, locked, nin, others>>
reviews == <<read, overtaken, contested>>
vars == <<person, handle, row, hand, desk, behind, reviews, raced>>

Profiles == [Platforms -> Handles \cup {NoHandle}]
Steps == {"idle", "write", "queue", "onboard", "submit", "holder", "claim"}

Job == [step : Steps, prev : Profiles, next : Profiles, left : SUBSET Platforms,
        name : Names \cup {NoName}, nin : Nins \cup {NoNin}]

Row == [gen : 0 .. MaxGen, status : {"NONE", "PENDING", "VERIFIED", "REJECTED"},
        handle : Handles \cup {NoHandle}]

Review == [platform : Platforms, gen : 0 .. MaxGen, handle : Handles \cup {NoHandle},
           decision : {"VERIFIED", "REJECTED"}]

TypeOK ==
    /\ name \in Names \cup {NoName} /\ locked \in BOOLEAN
    /\ nin \in Nins \cup {NoNin} /\ others \subseteq Nins
    /\ handle \in Profiles
    /\ row \in [Platforms -> Row]
    /\ hand \in [Hands -> Job]
    /\ DOMAIN desk \subseteq Desks /\ \A d \in DOMAIN desk : desk[d] \in Review
    /\ read \in Profiles
    /\ behind \subseteq Platforms
    /\ overtaken \subseteq Platforms /\ contested \subseteq Platforms
    /\ raced \subseteq {"handles", "names", "nin"}

Unlinked == [p \in Platforms |-> NoHandle]
Idle == [step |-> "idle", prev |-> Unlinked, next |-> Unlinked, left |-> {},
         name |-> NoName, nin |-> NoNin]

\* What signup leaves: an empty profile.
Init ==
    /\ name = NoName /\ locked = FALSE /\ nin = NoNin
    /\ others \in SUBSET Nins
    /\ handle = Unlinked /\ read = Unlinked
    /\ row = [p \in Platforms |-> [gen |-> 0, status |-> "NONE", handle |-> NoHandle]]
    /\ hand = [h \in Hands |-> Idle]
    /\ desk = [d \in {} |-> 0]
    /\ behind = {} /\ overtaken = {} /\ contested = {} /\ raced = {}

Start(h, job) == hand[h].step = "idle" /\ hand' = [hand EXCEPT ![h] = job]
Go(h, step) == hand' = [hand EXCEPT ![h].step = step]
Leave(h) == hand' = [hand EXCEPT ![h] = Idle]

InFlight(steps) == \E h \in Hands : hand[h].step \in steps
Overlap(what, steps) == IF InFlight(steps) THEN {what} ELSE {}

Linking == {"write", "queue", "onboard"}

\* The reviews of the row that platform p has now.
ReviewsOf(p) == {d \in DOMAIN desk : desk[d].platform = p /\ desk[d].gen = row[p].gen}

\* The upsert that (re)submits platform p with handle x.
Upsert(p, x) ==
    /\ row[p].status = "NONE" => row[p].gen < MaxGen
    /\ row' = [row EXCEPT ![p] =
                  [gen |-> IF row[p].status = "NONE" THEN row[p].gen + 1 ELSE row[p].gen,
                   status |-> "PENDING", handle |-> x]]
    /\ IF row[p].status # "NONE" /\ ReviewsOf(p) # {}
       THEN overtaken' = overtaken \cup {p} /\ UNCHANGED contested
       ELSE overtaken' = overtaken \ {p} /\ contested' = contested \ {p}
    /\ behind' = behind \ {p}
    /\ UNCHANGED read

-----------------------------------------------------------------------------
(* updateProfile and linkSocialMedia: the handles given, merged with those   *)
(* read, are written; then the changed ones are queued, one by one.          *)

\* The handles are read, and x is what will be written.
Relink(h, x) ==
    /\ Start(h, [Idle EXCEPT !.step = "write", !.prev = handle, !.next = x])
    /\ raced' = raced \cup Overlap("handles", Linking \cup {"submit"})
    /\ UNCHANGED <<person, handle, row, desk, behind, reviews>>

\* Of any number of platforms.
UpdateProfile(h, given, x) ==
    /\ given # {}
    /\ Relink(h, [p \in Platforms |-> IF p \in given THEN x[p] ELSE handle[p]])

\* Of one; a handle that is the same already is written again, and not queued.
LinkSocialMedia(h, p, x) == Relink(h, [handle EXCEPT ![p] = x])

WriteHandles(h) ==
    LET j == hand[h]
        changed == {p \in Platforms : j.prev[p] # j.next[p]}
    IN  /\ j.step = "write"
        /\ handle' = j.next
        /\ IF changed = {} THEN Leave(h)
           ELSE hand' = [hand EXCEPT ![h].step = "queue", ![h].left = changed]
        /\ UNCHANGED <<person, row, desk, behind, reviews, raced>>

Done(h, p) ==
    IF hand[h].left = {p} THEN Leave(h)
    ELSE hand' = [hand EXCEPT ![h].left = @ \ {p}]

\* Mutant: only platforms that have no row are queued.
QueueNew(h, p) ==
    /\ hand[h].step = "queue"
    /\ p \in hand[h].left /\ \A q \in hand[h].left : p <= q
    /\ hand[h].next[p] # NoHandle
    /\ IF row[p].status = "NONE" THEN Upsert(p, hand[h].next[p])
       ELSE UNCHANGED <<row, behind, reviews>>
    /\ Done(h, p)
    /\ UNCHANGED <<person, handle, desk, raced>>

QueueReview(h, p) ==
    /\ hand[h].step = "queue"
    /\ p \in hand[h].left /\ \A q \in hand[h].left : p <= q
    /\ hand[h].next[p] # NoHandle
    /\ Upsert(p, hand[h].next[p])
    /\ Done(h, p)
    /\ UNCHANGED <<person, handle, desk, raced>>

\* A platform that was unlinked loses its row.
DeleteRow(h, p) ==
    /\ hand[h].step = "queue"
    /\ p \in hand[h].left /\ \A q \in hand[h].left : p <= q
    /\ hand[h].next[p] = NoHandle
    /\ row' = [row EXCEPT ![p].status = "NONE", ![p].handle = NoHandle]
    /\ overtaken' = overtaken \ {p} /\ contested' = contested \ {p}
    /\ behind' = behind \ {p}
    /\ Done(h, p)
    /\ UNCHANGED <<person, handle, desk, read, raced>>

\* submitVerification, of a linked handle and with the right code.
SubmitVerification(h, p) ==
    /\ handle[p] # NoHandle
    /\ Start(h, [Idle EXCEPT !.step = "submit", !.next = [Unlinked EXCEPT ![p] = handle[p]],
                             !.left = {p}])
    /\ raced' = raced \cup Overlap("handles", Linking)
    /\ UNCHANGED <<person, handle, row, desk, behind, reviews>>

UpsertVerification(h, p) ==
    /\ hand[h].step = "submit" /\ p \in hand[h].left
    /\ Upsert(p, hand[h].next[p])
    /\ Leave(h)
    /\ UNCHANGED <<person, handle, desk, raced>>

-----------------------------------------------------------------------------
(* completeOnboarding                                                       *)

\* Mutant: a name that is there already may be replaced.
OnboardAnyName(h, n, x) ==
    /\ Start(h, [Idle EXCEPT !.step = "onboard", !.name = n, !.next = x])
    /\ raced' = raced \cup Overlap("handles", Linking \cup {"submit"})
                      \cup Overlap("names", {"onboard"})
    /\ UNCHANGED <<person, handle, row, desk, behind, reviews>>

\* assertLegalNameUpdatesAllowed: a name may be stated again, until it is locked.
NameAllowed(n) == ~locked /\ (name # NoName /\ n # NoName => n = name)

\* legalNamesLockUpdate: a full name is locked, and stays so.
Locks(n) == locked \/ n # NoName

CompleteOnboarding(h, n, x) ==
    /\ NameAllowed(n)
    /\ Start(h, [Idle EXCEPT !.step = "onboard", !.name = n, !.next = x])
    /\ raced' = raced \cup Overlap("handles", Linking \cup {"submit"})
                      \cup Overlap("names", {"onboard"})
    /\ UNCHANGED <<person, handle, row, desk, behind, reviews>>

\* The handles are replaced by those given, and no review is queued.  What another
\* handler locked meanwhile stays locked.
UpsertProfile(h) ==
    LET j == hand[h]
    IN  /\ j.step = "onboard"
        /\ name' = j.name /\ handle' = j.next
        /\ locked' = Locks(j.name)
        /\ behind' = behind \cup {p \in Platforms : /\ row[p].status # "NONE"
                                                    /\ row[p].handle # j.next[p]}
        /\ Leave(h)
        /\ UNCHANGED <<nin, others, row, desk, reviews, raced>>

-----------------------------------------------------------------------------
(* verifyNIN                                                                *)

\* assertProfileHasLegalNamesForNin.
HasLegalNames == name # NoName

\* DojahService.lookupNin: a number without a name on record is refused.
Found(n) == Checked = "nothing" \/ n \in Registered

\* profileNamesMatchIdentityName: two parts of the profile's name are on record.
NamesMatch(who, n) == OwnerOf[n] = who

\* assertNinIdentityMatchesProfile, when it is called.
MatchesProfile(who, n) == Checked = "name" => NamesMatch(who, n)

VerifyNIN(h, n) ==
    /\ nin = NoNin
    /\ HasLegalNames
    /\ Start(h, [Idle EXCEPT !.step = "holder", !.name = name, !.nin = n])
    /\ raced' = raced \cup Overlap("nin", {"holder", "claim"})
    /\ UNCHANGED <<person, handle, row, desk, behind, reviews>>

\* Mutant: any identity that exists will do.
LookupAny(h) ==
    /\ hand[h].step = "holder"
    /\ hand[h].nin \notin others
    /\ Found(hand[h].nin)
    /\ Go(h, "claim")
    /\ UNCHANGED <<person, handle, row, desk, behind, reviews, raced>>

\* No other account holds the number, Dojah knows it, and its record matches the name
\* read.
LookupNin(h) ==
    /\ hand[h].step = "holder"
    /\ hand[h].nin \notin others
    /\ Found(hand[h].nin)
    /\ MatchesProfile(hand[h].name, hand[h].nin)
    /\ Go(h, "claim")
    /\ UNCHANGED <<person, handle, row, desk, behind, reviews, raced>>

\* The unique index refuses a number claimed by another account meanwhile.  The
\* name is locked now if it was not.
ClaimNin(h) ==
    /\ hand[h].step = "claim"
    /\ hand[h].nin \notin others
    /\ nin' = hand[h].nin
    /\ locked' = TRUE
    /\ Leave(h)
    /\ UNCHANGED <<name, others, handle, row, desk, behind, reviews, raced>>

\* Another account's verifyNIN.
OthersClaim(n) ==
    /\ n # nin /\ n \notin others
    /\ others' = others \cup {n}
    /\ UNCHANGED <<name, locked, nin, handle, row, hand, desk, behind, reviews, raced>>

\* A check fails, the database or Dojah refuses, or the process dies.
DropHand(h) ==
    /\ hand[h].step # "idle"
    /\ behind' = IF hand[h].step = "queue" THEN behind \cup hand[h].left ELSE behind
    /\ Leave(h)
    /\ UNCHANGED <<person, handle, row, desk, reviews, raced>>

-----------------------------------------------------------------------------
(* approve and reject                                                       *)

\* Mutant: a decided request may be decided again.
ReviewAny(d, p, decision) ==
    /\ d \notin DOMAIN desk
    /\ row[p].status # "NONE"
    /\ desk' = [e \in DOMAIN desk \cup {d} |->
                   IF e # d THEN desk[e]
                   ELSE [platform |-> p, gen |-> row[p].gen, handle |-> row[p].handle,
                         decision |-> decision]]
    /\ contested' = IF ReviewsOf(p) = {} THEN contested ELSE contested \cup {p}
    /\ UNCHANGED <<person, handle, row, hand, read, behind, overtaken, raced>>

\* getPendingOrThrow.
StartReview(d, p, decision) ==
    /\ d \notin DOMAIN desk
    /\ row[p].status = "PENDING"
    /\ desk' = [e \in DOMAIN desk \cup {d} |->
                   IF e # d THEN desk[e]
                   ELSE [platform |-> p, gen |-> row[p].gen, handle |-> row[p].handle,
                         decision |-> decision]]
    /\ contested' = IF ReviewsOf(p) = {} THEN contested ELSE contested \cup {p}
    /\ UNCHANGED <<person, handle, row, hand, read, behind, overtaken, raced>>

\* Mutant: the status is taken from the applications.
DecideDeclined(d) ==
    LET p == desk[d].platform
    IN  /\ d \in DOMAIN desk
        /\ desk[d].gen = row[p].gen /\ row[p].status # "NONE"
        /\ row' = [row EXCEPT ![p].status =
                      IF desk[d].decision = "REJECTED" THEN "DECLINED" ELSE "VERIFIED"]
        /\ read' = [read EXCEPT ![p] = desk[d].handle]
        /\ desk' = [e \in DOMAIN desk \ {d} |-> desk[e]]
        /\ UNCHANGED <<person, handle, hand, behind, overtaken, contested, raced>>

\* The row is written whatever it holds by now; the update fails (DropDesk) when
\* it was deleted, also if the platform has another row since.
Decide(d) ==
    LET p == desk[d].platform
    IN  /\ d \in DOMAIN desk
        /\ desk[d].gen = row[p].gen /\ row[p].status # "NONE"
        /\ row' = [row EXCEPT ![p].status = desk[d].decision]
        /\ read' = [read EXCEPT ![p] = desk[d].handle]
        /\ desk' = [e \in DOMAIN desk \ {d} |-> desk[e]]
        /\ UNCHANGED <<person, handle, hand, behind, overtaken, contested, raced>>

DropDesk(d) ==
    /\ d \in DOMAIN desk
    /\ desk' = [e \in DOMAIN desk \ {d} |-> desk[e]]
    /\ UNCHANGED <<person, handle, row, hand, behind, reviews, raced>>

-----------------------------------------------------------------------------
Onboarding(h) ==
    \/ \E n \in Names \cup {NoName}, x \in Profiles : CompleteOnboarding(h, n, x)
    \/ UpsertProfile(h)

Verification(h) ==
    \/ \E n \in Nins : VerifyNIN(h, n)
    \/ LookupNin(h) \/ ClaimNin(h)

LinkingHandler(h) ==
    \/ \E p \in Platforms, x \in Handles \cup {NoHandle} : LinkSocialMedia(h, p, x)
    \/ \E given \in SUBSET Platforms : \E x \in [given -> Handles \cup {NoHandle}] :
          UpdateProfile(h, given, x)
    \/ WriteHandles(h)
    \/ \E p \in Platforms : \/ QueueReview(h, p) \/ DeleteRow(h, p)
                            \/ SubmitVerification(h, p) \/ UpsertVerification(h, p)

Staff(d) ==
    \/ \E p \in Platforms, decision \in {"VERIFIED", "REJECTED"} : StartReview(d, p, decision)
    \/ Decide(d) \/ DropDesk(d)

Next ==
    \/ \E h \in Hands : Onboarding(h) \/ Verification(h) \/ LinkingHandler(h) \/ DropHand(h)
    \/ \E d \in Desks : Staff(d)
    \/ \E n \in Nins : OthersClaim(n)

Spec == Init /\ [][Next]_vars

-----------------------------------------------------------------------------
(* Properties                                                               *)

Queued(p) == \E h \in Hands : hand[h].step = "queue" /\ p \in hand[h].left

\* A verified identity number belongs to no second account and, where names are
\* checked, to the person named in the profile, although name and holder are read
\* before Dojah is asked - unless two onboardings overlapped, of which the second wins
\* (verifyNIN).
NinIsOwn ==
    nin # NoNin =>
        /\ nin \notin others
        /\ "names" \notin raced /\ Checked = "name" => OwnerOf[nin] = name

\* Who was verified stays verified with the same number and name, unless two
\* verifications or two onboardings overlapped (verifyNIN, completeOnboarding).
IdentityIsKept ==
    [][nin # NoNin => /\ "nin" \in raced \/ nin' = nin
                      /\ "names" \in raced \/ name' = name]_vars

\* buildPlatformStatuses: how a platform is shown to the user.
Shown(p) ==
    IF handle[p] = NoHandle THEN "NOT_LINKED"
    ELSE IF row[p].status = "NONE" THEN "AWAITING_SUBMISSION" ELSE row[p].status

\* A handle shown as approved is the one on the verified row: a changed handle
\* falls back to PENDING once its update has gone through - except where an update
\* died before, or onboarding replaced a handle that had a row, and unless
\* handlers that link or submit overlapped
\* (queueAdminReviewForChangedSocialHandles, getConnectedSocials).
ApprovedIsLinked ==
    "handles" \notin raced =>
        \A p \in Platforms \ behind :
            Shown(p) = "VERIFIED" /\ ~Queued(p) => row[p].handle = handle[p]

\* What staff verified or rejected is the handle they read, unless the platform
\* was submitted again while they were at it (approve, reject).
DecidedIsRead ==
    \A p \in Platforms \ overtaken :
        row[p].status \in {"VERIFIED", "REJECTED"} => row[p].handle = read[p]

\* A decision stands until the user submits again or unlinks, unless two reviews
\* of the same row overlapped (getPendingOrThrow).
DecisionStands ==
    [][\A p \in Platforms \ contested' :
          row[p].status \in {"VERIFIED", "REJECTED"} =>
              row'[p].status \in {row[p].status, "PENDING", "NONE"}]_vars

-----------------------------------------------------------------------------
(* The inductive invariant of ProfileProofs                                  *)

In(steps) == {h \in Hands : hand[h].step \in steps}
Alone(steps) == \A g, h \in In(steps) : g = h

\* A name once there is locked, and what a verification has read of name and
\* number is still so, unless onboardings or verifications overlapped.
PersonHolds ==
    /\ name # NoName => locked
    /\ nin # NoNin => nin \notin others
    /\ \A h \in In({"claim"}) : MatchesProfile(hand[h].name, hand[h].nin)
    /\ "names" \notin raced =>
          /\ nin # NoNin => name # NoName /\ MatchesProfile(name, nin)
          /\ In({"onboard"}) # {} => name = NoName
          /\ Alone({"onboard"})
          /\ \A h \in In({"holder", "claim"}) : hand[h].name = name /\ name # NoName
    /\ "nin" \notin raced =>
          /\ Alone({"holder", "claim"})
          /\ In({"holder", "claim"}) # {} => nin = NoNin

\* Only submissions overlap each other; what a handler has read or written of the
\* handles is still there, and rows agree with the profile but for those queued.
HandlesHold ==
    "handles" \notin raced =>
        /\ \A g \in In(Linking), h \in In(Linking \cup {"submit"}) : g = h
        /\ \A h \in In({"write"}) : hand[h].prev = handle
        /\ \A h \in In({"queue"}) : hand[h].next = handle
        /\ \A h \in In({"submit"}) : \A p \in hand[h].left : hand[h].next[p] = handle[p]
        /\ \A p \in Platforms \ behind :
              row[p].status # "NONE" /\ ~Queued(p) => row[p].handle = handle[p]

\* Reviews are of rows that exist or existed, and know the handle of the row that
\* there is unless it was submitted again.  A decided row has no other review.
ReviewsHold ==
    /\ \A d \in DOMAIN desk : desk[d].gen <= row[desk[d].platform].gen
    /\ \A p \in Platforms : row[p].status # "NONE" =>
          /\ p \notin overtaken => \A d \in ReviewsOf(p) : desk[d].handle = row[p].handle
          /\ p \notin contested =>
                /\ \A d, e \in ReviewsOf(p) : d = e
                /\ row[p].status # "PENDING" => ReviewsOf(p) = {}

ProfileInv == TypeOK /\ PersonHolds /\ HandlesHold /\ ReviewsHold /\ DecidedIsRead
=============================================================================
