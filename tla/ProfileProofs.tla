--------------------------- MODULE ProfileProofs ---------------------------
(***************************************************************************)
(* Name, identity number and handles of one account under any number of     *)
(* handlers and reviews in flight.                                          *)
(***************************************************************************)
EXTENDS Profile, TLAPS

-----------------------------------------------------------------------------
\* Handlers

\* A free handler.
LEMMA IdleJob == Idle \in Job /\ Idle.step = "idle" /\ Unlinked \in Profiles
  BY DEF Idle, Job, Steps, Unlinked, Profiles

\* The types of what a handler holds.
LEMMA JobFields ==
    ASSUME NEW j \in Job
    PROVE  /\ j.step \in Steps /\ j.prev \in Profiles /\ j.next \in Profiles
           /\ j.left \subseteq Platforms
           /\ j.name \in Names \cup {NoName} /\ j.nin \in Nins \cup {NoNin}
  BY DEF Job

\* One handler is replaced.
LEMMA Slot ==
    ASSUME hand \in [Hands -> Job], NEW h \in Hands, NEW m \in Job,
           hand' = [hand EXCEPT ![h] = m]
    PROVE  /\ hand' \in [Hands -> Job] /\ hand'[h] = m
           /\ \A g \in Hands : g # h => hand'[g] = hand[g]
  OBVIOUS

\* A handler that begins was free and changes no other.
LEMMA Starts ==
    ASSUME TypeOK, NEW h \in Hands, NEW m \in Job, Start(h, m)
    PROVE  /\ hand' \in [Hands -> Job] /\ hand'[h] = m /\ hand[h].step = "idle"
           /\ \A g \in Hands : g # h => hand'[g] = hand[g]
  BY Slot DEF Start, TypeOK

\* A handler that goes on keeps what it holds and changes no other.
LEMMA Goes ==
    ASSUME TypeOK, NEW h \in Hands, NEW s \in Steps, Go(h, s)
    PROVE  /\ hand' \in [Hands -> Job] /\ hand'[h] = [hand[h] EXCEPT !.step = s]
           /\ \A g \in Hands : g # h => hand'[g] = hand[g]
<1>1. hand[h] \in Job
  BY DEF TypeOK
<1>2. [hand[h] EXCEPT !.step = s] \in Job
  BY <1>1 DEF Job
<1>3. hand' = [hand EXCEPT ![h] = [hand[h] EXCEPT !.step = s]]
  BY DEF Go
<1> QED
  BY <1>2, <1>3, Slot DEF TypeOK

\* A handler that ends changes no other.
LEMMA Leaves ==
    ASSUME TypeOK, NEW h \in Hands, Leave(h)
    PROVE  /\ hand' \in [Hands -> Job] /\ hand'[h] = Idle
           /\ \A g \in Hands : g # h => hand'[g] = hand[g]
  BY Slot, IdleJob DEF Leave, TypeOK

\* A handler that is done with a platform ends or goes on with the rest.
LEMMA DoneMoves ==
    ASSUME TypeOK, NEW h \in Hands, NEW p \in Platforms, Done(h, p),
           hand[h].step = "queue", p \in hand[h].left
    PROVE  /\ hand' \in [Hands -> Job]
           /\ \A g \in Hands : g # h => hand'[g] = hand[g]
           /\ \/ hand[h].left = {p} /\ hand'[h] = Idle
              \/ /\ hand'[h].step = "queue" /\ hand'[h].left = hand[h].left \ {p}
                 /\ hand'[h].next = hand[h].next /\ hand'[h].prev = hand[h].prev
                 /\ hand'[h].name = hand[h].name /\ hand'[h].nin = hand[h].nin
<1>1. CASE hand[h].left = {p}
  BY <1>1, Leaves DEF Done
<1>2. CASE hand[h].left # {p}
  <2> DEFINE m == [hand[h] EXCEPT !.left = @ \ {p}]
  <2>1. hand[h] \in Job
    BY DEF TypeOK
  <2>2. /\ m \in Job /\ m.step = "queue" /\ m.left = hand[h].left \ {p}
        /\ m.next = hand[h].next /\ m.prev = hand[h].prev
        /\ m.name = hand[h].name /\ m.nin = hand[h].nin
    BY <2>1 DEF Job
  <2>3. hand' = [hand EXCEPT ![h] = m]
    BY <1>2 DEF Done
  <2> HIDE DEF m
  <2> QED
    BY <2>2, <2>3, Slot DEF TypeOK
<1> QED
  BY <1>1, <1>2

\* The overlaps that are recorded.
LEMMA Overlaps ==
    ASSUME NEW what, NEW steps
    PROVE  /\ Overlap(what, steps) \subseteq {what}
           /\ what \notin Overlap(what, steps) => In(steps) = {}
  BY DEF Overlap, InFlight, In

-----------------------------------------------------------------------------
\* What each user handler does to the handler's record

\* updateProfile and linkSocialMedia begin.
LEMMA RelinkMoves ==
    ASSUME TypeOK, NEW h \in Hands, NEW x \in Profiles, Relink(h, x)
    PROVE  /\ hand' \in [Hands -> Job] /\ hand[h].step = "idle"
           /\ hand'[h].step = "write" /\ hand'[h].prev = handle
           /\ \A g \in Hands : g # h => hand'[g] = hand[g]
<1> DEFINE m == [Idle EXCEPT !.step = "write", !.prev = handle, !.next = x]
<1>1. m \in Job /\ m.step = "write" /\ m.prev = handle
  BY IdleJob DEF Job, Idle, Steps, TypeOK
<1>2. Start(h, m)
  BY DEF Relink
<1> HIDE DEF m
<1> QED
  BY <1>1, <1>2, Starts

\* Both handlers that link begin by it.
LEMMA Relinks ==
    ASSUME TypeOK, NEW h \in Hands, LinkingHandler(h)
    PROVE  \/ \E x \in Profiles : Relink(h, x)
           \/ WriteHandles(h)
           \/ \E p \in Platforms : \/ QueueReview(h, p) \/ DeleteRow(h, p)
                                  \/ SubmitVerification(h, p) \/ UpsertVerification(h, p)
<1>1. ASSUME NEW given \in SUBSET Platforms, NEW x \in [given -> Handles \cup {NoHandle}],
             UpdateProfile(h, given, x)
      PROVE  \E y \in Profiles : Relink(h, y)
  BY <1>1 DEF UpdateProfile, Profiles, TypeOK
<1>2. ASSUME NEW p \in Platforms, NEW x \in Handles \cup {NoHandle}, LinkSocialMedia(h, p, x)
      PROVE  \E y \in Profiles : Relink(h, y)
  BY <1>2 DEF LinkSocialMedia, Profiles, TypeOK
<1> QED
  BY <1>1, <1>2 DEF LinkingHandler

\* The handles are written; what has changed is left to queue.
LEMMA WriteMoves ==
    ASSUME TypeOK, NEW h \in Hands, WriteHandles(h)
    PROVE  /\ hand' \in [Hands -> Job] /\ hand[h].step = "write"
           /\ handle' = hand[h].next /\ handle' \in Profiles
           /\ \A g \in Hands : g # h => hand'[g] = hand[g]
           /\ \/ hand'[h] = Idle /\ \A p \in Platforms : hand[h].prev[p] = hand[h].next[p]
              \/ /\ hand'[h].step = "queue" /\ hand'[h].next = hand[h].next
                 /\ hand'[h].left = {p \in Platforms : hand[h].prev[p] # hand[h].next[p]}
<1> DEFINE changed == {p \in Platforms : hand[h].prev[p] # hand[h].next[p]}
<1>1. /\ hand[h].step = "write" /\ handle' = hand[h].next
      /\ IF changed = {} THEN Leave(h)
         ELSE hand' = [hand EXCEPT ![h].step = "queue", ![h].left = changed]
  BY DEF WriteHandles
<1>2. hand[h] \in Job /\ changed \in SUBSET Platforms /\ handle' \in Profiles
  BY <1>1, JobFields DEF TypeOK
<1>3. CASE changed = {}
  BY <1>1, <1>2, <1>3, Leaves
<1>4. CASE changed # {}
  <2> HIDE DEF changed
  <2> DEFINE m == [hand[h] EXCEPT !.step = "queue", !.left = changed]
  <2>1. /\ m \in Job /\ m.step = "queue" /\ m.left = changed /\ m.next = hand[h].next
    BY <1>2 DEF Job, Steps
  <2>2. hand' = [hand EXCEPT ![h] = m]
    BY <1>1, <1>4
  <2> HIDE DEF m
  <2>3. /\ hand' \in [Hands -> Job] /\ hand'[h] = m
        /\ \A g \in Hands : g # h => hand'[g] = hand[g]
    BY <2>1, <2>2, Slot DEF TypeOK
  <2> QED
    BY <1>1, <1>2, <2>1, <2>3 DEF changed
<1> QED
  BY <1>3, <1>4

\* submitVerification begins.
LEMMA SubmitMoves ==
    ASSUME TypeOK, NEW h \in Hands, NEW p \in Platforms, SubmitVerification(h, p)
    PROVE  /\ hand' \in [Hands -> Job] /\ hand[h].step = "idle"
           /\ hand'[h].step = "submit" /\ hand'[h].left = {p}
           /\ hand'[h].next[p] = handle[p]
           /\ \A g \in Hands : g # h => hand'[g] = hand[g]
<1> DEFINE y == [Unlinked EXCEPT ![p] = handle[p]]
           m == [Idle EXCEPT !.step = "submit", !.next = y, !.left = {p}]
<1>1. y \in Profiles /\ y[p] = handle[p]
  BY IdleJob DEF TypeOK, Profiles, Unlinked
<1> HIDE DEF y
<1>2. m \in Job /\ m.step = "submit" /\ m.left = {p} /\ m.next = y
  BY <1>1, IdleJob DEF Job, Idle, Steps
<1>3. Start(h, m)
  BY DEF SubmitVerification, y
<1> HIDE DEF m
<1> QED
  BY <1>1, <1>2, <1>3, Starts

\* completeOnboarding begins.
LEMMA OnboardMoves ==
    ASSUME TypeOK, NEW h \in Hands, NEW n \in Names \cup {NoName}, NEW x \in Profiles,
           CompleteOnboarding(h, n, x)
    PROVE  /\ hand' \in [Hands -> Job] /\ hand[h].step = "idle"
           /\ hand'[h].step = "onboard"
           /\ \A g \in Hands : g # h => hand'[g] = hand[g]
<1> DEFINE m == [Idle EXCEPT !.step = "onboard", !.name = n, !.next = x]
<1>1. m \in Job /\ m.step = "onboard"
  BY IdleJob DEF Job, Idle, Steps
<1>2. Start(h, m)
  BY DEF CompleteOnboarding
<1> HIDE DEF m
<1> QED
  BY <1>1, <1>2, Starts

\* verifyNIN begins.
LEMMA VerifyMoves ==
    ASSUME TypeOK, NEW h \in Hands, NEW n \in Nins, VerifyNIN(h, n)
    PROVE  /\ hand' \in [Hands -> Job] /\ hand[h].step = "idle"
           /\ hand'[h].step = "holder" /\ hand'[h].name = name /\ hand'[h].nin = n
           /\ \A g \in Hands : g # h => hand'[g] = hand[g]
<1> DEFINE m == [Idle EXCEPT !.step = "holder", !.name = name, !.nin = n]
<1>1. m \in Job /\ m.step = "holder" /\ m.name = name /\ m.nin = n
  BY IdleJob DEF Job, Idle, Steps, TypeOK
<1>2. Start(h, m)
  BY DEF VerifyNIN
<1> HIDE DEF m
<1> QED
  BY <1>1, <1>2, Starts

\* The lookup succeeded.
LEMMA LookupMoves ==
    ASSUME TypeOK, NEW h \in Hands, LookupNin(h)
    PROVE  /\ hand' \in [Hands -> Job] /\ hand[h].step = "holder"
           /\ hand'[h].step = "claim" /\ hand'[h].name = hand[h].name
           /\ hand'[h].nin = hand[h].nin /\ MatchesProfile(hand'[h].name, hand'[h].nin)
           /\ \A g \in Hands : g # h => hand'[g] = hand[g]
<1>1. /\ hand[h].step = "holder" /\ Go(h, "claim")
      /\ MatchesProfile(hand[h].name, hand[h].nin)
  BY DEF LookupNin
<1>2. /\ hand' \in [Hands -> Job] /\ hand'[h] = [hand[h] EXCEPT !.step = "claim"]
      /\ \A g \in Hands : g # h => hand'[g] = hand[g]
  BY <1>1, Goes DEF Steps
<1>3. hand'[h].step = "claim" /\ hand'[h].name = hand[h].name /\ hand'[h].nin = hand[h].nin
  BY <1>2 DEF TypeOK, Job
<1> QED
  BY <1>1, <1>2, <1>3

-----------------------------------------------------------------------------
\* What the steps do to the review rows and to the desks

\* The types of a row.
LEMMA RowFields ==
    ASSUME NEW r \in Row
    PROVE  /\ r.gen \in 0 .. MaxGen /\ r.gen \in Nat
           /\ r.status \in {"NONE", "PENDING", "VERIFIED", "REJECTED"}
           /\ r.handle \in Handles \cup {NoHandle}
  BY DEF Row

\* One row is replaced.
LEMMA RowSlot ==
    ASSUME row \in [Platforms -> Row], NEW p \in Platforms, NEW r \in Row,
           row' = [row EXCEPT ![p] = r]
    PROVE  /\ row' \in [Platforms -> Row] /\ row'[p] = r
           /\ \A q \in Platforms : q # p => row'[q] = row[q]
  OBVIOUS

\* A platform is submitted: its row is PENDING, and a new one if there was none.
LEMMA UpsertMoves ==
    ASSUME TypeOK, NEW p \in Platforms, NEW x \in Handles \cup {NoHandle}, Upsert(p, x)
    PROVE  /\ row' \in [Platforms -> Row]
           /\ row'[p].status = "PENDING" /\ row'[p].handle = x
           /\ row'[p].gen = IF row[p].status = "NONE" THEN row[p].gen + 1 ELSE row[p].gen
           /\ \A q \in Platforms : q # p => row'[q] = row[q]
           /\ behind' = behind \ {p} /\ read' = read
           /\ \A q \in Platforms : q # p => /\ q \in overtaken' <=> q \in overtaken
                                            /\ q \in contested' <=> q \in contested
           /\ overtaken' \subseteq Platforms /\ contested' \subseteq Platforms
           /\ \/ row[p].status # "NONE" /\ p \in overtaken' /\ contested' = contested
              \/ row[p].status = "NONE" \/ ReviewsOf(p) = {}
<1> DEFINE g == IF row[p].status = "NONE" THEN row[p].gen + 1 ELSE row[p].gen
           r == [gen |-> g, status |-> "PENDING", handle |-> x]
<1>1. row[p] \in Row /\ MaxGen \in Nat
  BY ProfileAssumption DEF TypeOK
<1>2. row[p].status = "NONE" => row[p].gen < MaxGen
  BY DEF Upsert
<1>3. g \in 0 .. MaxGen
  <2>1. row[p].gen \in Nat /\ row[p].gen <= MaxGen
    BY <1>1, RowFields
  <2> QED
    BY <1>1, <1>2, <2>1
<1> HIDE DEF g
<1>4. r \in Row /\ r.gen = g /\ r.status = "PENDING" /\ r.handle = x
  BY <1>3 DEF Row
<1>5. row' = [row EXCEPT ![p] = r]
  BY DEF Upsert, g
<1> HIDE DEF r
<1>6. row' \in [Platforms -> Row] /\ row'[p] = r /\ \A q \in Platforms : q # p => row'[q] = row[q]
  BY <1>4, <1>5, RowSlot DEF TypeOK
<1>7. behind' = behind \ {p} /\ read' = read
  BY DEF Upsert
<1>8. row'[p].gen = IF row[p].status = "NONE" THEN row[p].gen + 1 ELSE row[p].gen
  BY <1>4, <1>6 DEF g
<1>9. CASE row[p].status # "NONE" /\ ReviewsOf(p) # {}
  <2>1. overtaken' = overtaken \cup {p} /\ contested' = contested
    BY <1>9 DEF Upsert
  <2> QED
    BY <1>4, <1>6, <1>7, <1>8, <1>9, <2>1 DEF TypeOK
<1>10. CASE ~(row[p].status # "NONE" /\ ReviewsOf(p) # {})
  <2>1. overtaken' = overtaken \ {p} /\ contested' = contested \ {p}
    BY <1>10 DEF Upsert
  <2> QED
    BY <1>4, <1>6, <1>7, <1>8, <1>10, <2>1 DEF TypeOK
<1> QED
  BY <1>9, <1>10

\* A row is deleted.
LEMMA DeleteMoves ==
    ASSUME TypeOK, NEW h \in Hands, NEW p \in Platforms, DeleteRow(h, p)
    PROVE  /\ row' \in [Platforms -> Row]
           /\ row'[p].status = "NONE" /\ row'[p].gen = row[p].gen
           /\ \A q \in Platforms : q # p => row'[q] = row[q]
           /\ behind' = behind \ {p}
           /\ overtaken' = overtaken \ {p} /\ contested' = contested \ {p}
<1> DEFINE r == [row[p] EXCEPT !.status = "NONE", !.handle = NoHandle]
<1>1. row[p] \in Row
  BY DEF TypeOK
<1>2. r \in Row /\ r.status = "NONE" /\ r.gen = row[p].gen
  BY <1>1 DEF Row
<1>3. row' = [row EXCEPT ![p] = r]
  BY DEF DeleteRow
<1> HIDE DEF r
<1>4. /\ row' \in [Platforms -> Row] /\ row'[p] = r
      /\ \A q \in Platforms : q # p => row'[q] = row[q]
  BY <1>2, <1>3, RowSlot DEF TypeOK
<1> QED
  BY <1>2, <1>4 DEF DeleteRow

\* A review begins.
LEMMA ReviewMoves ==
    ASSUME TypeOK, NEW d \in Desks, NEW p \in Platforms,
           NEW decision \in {"VERIFIED", "REJECTED"}, StartReview(d, p, decision)
    PROVE  /\ DOMAIN desk' = DOMAIN desk \cup {d} /\ desk'[d] \in Review
           /\ desk'[d].platform = p /\ desk'[d].gen = row[p].gen
           /\ desk'[d].handle = row[p].handle
           /\ \A e \in DOMAIN desk : e # d /\ desk'[e] = desk[e]
<1> DEFINE v == [platform |-> p, gen |-> row[p].gen, handle |-> row[p].handle,
                 decision |-> decision]
<1>1. row[p] \in Row
  BY DEF TypeOK
<1>2. /\ v \in Review /\ v.platform = p /\ v.gen = row[p].gen /\ v.handle = row[p].handle
  BY <1>1, RowFields DEF Review
<1> HIDE DEF v
<1>3. d \notin DOMAIN desk
      /\ desk' = [e \in DOMAIN desk \cup {d} |-> IF e # d THEN desk[e] ELSE v]
  BY DEF StartReview, v
<1> QED
  BY <1>2, <1>3

\* The types of a review.
LEMMA ReviewFields ==
    ASSUME NEW v \in Review
    PROVE  /\ v.platform \in Platforms /\ v.gen \in Nat /\ v.handle \in Handles \cup {NoHandle}
           /\ v.decision \in {"VERIFIED", "REJECTED"}
  BY DEF Review

\* A decision is written on the row it was made on.
LEMMA DecideMoves ==
    ASSUME TypeOK, NEW d \in Desks, Decide(d), NEW p \in Platforms, p = desk[d].platform
    PROVE  /\ d \in ReviewsOf(p) /\ row[p].status # "NONE"
           /\ row' \in [Platforms -> Row] /\ read' \in Profiles
           /\ row'[p].status \in {"VERIFIED", "REJECTED"}
           /\ row'[p].gen = row[p].gen /\ row'[p].handle = row[p].handle
           /\ read'[p] = desk[d].handle
           /\ \A q \in Platforms : q # p => row'[q] = row[q] /\ read'[q] = read[q]
           /\ DOMAIN desk' = DOMAIN desk \ {d}
           /\ \A e \in DOMAIN desk' : desk'[e] = desk[e]
<1> DEFINE r == [row[p] EXCEPT !.status = desk[d].decision]
<1>1. d \in DOMAIN desk /\ desk[d] \in Review /\ desk[d].gen = row[p].gen /\ row[p].status # "NONE"
  BY DEF Decide, TypeOK
<1>2. row[p] \in Row /\ p \in Platforms
  BY <1>1, ReviewFields DEF TypeOK
<1>3. /\ r \in Row /\ r.status \in {"VERIFIED", "REJECTED"}
      /\ r.gen = row[p].gen /\ r.handle = row[p].handle
  BY <1>1, <1>2, ReviewFields DEF Row
<1>4. row' = [row EXCEPT ![p] = r]
  BY DEF Decide
<1> HIDE DEF r
<1>5. row' \in [Platforms -> Row] /\ row'[p] = r /\ \A q \in Platforms : q # p => row'[q] = row[q]
  BY <1>2, <1>3, <1>4 DEF TypeOK
<1>6. read' = [read EXCEPT ![p] = desk[d].handle]
  BY DEF Decide
<1>7. /\ read' \in Profiles /\ read'[p] = desk[d].handle
      /\ \A q \in Platforms : q # p => read'[q] = read[q]
  BY <1>1, <1>2, <1>6, ReviewFields DEF TypeOK, Profiles
<1>8. desk' = [e \in DOMAIN desk \ {d} |-> desk[e]]
  BY DEF Decide
<1>9. d \in ReviewsOf(p)
  BY <1>1 DEF ReviewsOf
<1> QED
  BY <1>1, <1>2, <1>3, <1>5, <1>7, <1>8, <1>9

\* A review is given up.
LEMMA DropMoves ==
    ASSUME TypeOK, NEW d \in Desks, DropDesk(d)
    PROVE  /\ DOMAIN desk' = DOMAIN desk \ {d}
           /\ \A e \in DOMAIN desk' : desk'[e] = desk[e]
  BY DEF DropDesk

-----------------------------------------------------------------------------
\* Types

\* Every step keeps the types.
LEMMA Types ==
    ASSUME TypeOK, [Next]_vars
    PROVE  TypeOK'
<1> USE DEF person, reviews
<1>1. ASSUME NEW h \in Hands, NEW x \in Profiles, Relink(h, x)
      PROVE  TypeOK'
  <2>1. hand' \in [Hands -> Job] /\ raced' \subseteq {"handles", "names", "nin"}
    BY <1>1, RelinkMoves, Overlaps DEF Relink, TypeOK
  <2> QED
    BY <1>1, <2>1 DEF Relink, TypeOK
<1>2. ASSUME NEW h \in Hands, WriteHandles(h)
      PROVE  TypeOK'
  <2>1. hand' \in [Hands -> Job] /\ handle' \in Profiles
    BY <1>2, WriteMoves
  <2> QED
    BY <1>2, <2>1 DEF WriteHandles, TypeOK
<1>3. ASSUME NEW h \in Hands, NEW p \in Platforms, QueueReview(h, p)
      PROVE  TypeOK'
  <2>1. hand' \in [Hands -> Job] /\ hand[h].next[p] \in Handles \cup {NoHandle}
    BY <1>3, DoneMoves, JobFields DEF QueueReview, TypeOK, Profiles
  <2>2. /\ row' \in [Platforms -> Row] /\ behind' \subseteq Platforms /\ read' = read
        /\ overtaken' \subseteq Platforms /\ contested' \subseteq Platforms
    BY <1>3, <2>1, UpsertMoves DEF QueueReview, TypeOK
  <2> QED
    BY <1>3, <2>1, <2>2 DEF QueueReview, TypeOK
<1>4. ASSUME NEW h \in Hands, NEW p \in Platforms, DeleteRow(h, p)
      PROVE  TypeOK'
  <2>1. hand' \in [Hands -> Job]
    BY <1>4, DoneMoves DEF DeleteRow
  <2>2. /\ row' \in [Platforms -> Row] /\ behind' \subseteq Platforms
        /\ overtaken' \subseteq Platforms /\ contested' \subseteq Platforms
    BY <1>4, DeleteMoves DEF TypeOK
  <2> QED
    BY <1>4, <2>1, <2>2 DEF DeleteRow, TypeOK
<1>5. ASSUME NEW h \in Hands, NEW p \in Platforms, SubmitVerification(h, p)
      PROVE  TypeOK'
  <2>1. hand' \in [Hands -> Job] /\ raced' \subseteq {"handles", "names", "nin"}
    BY <1>5, SubmitMoves, Overlaps DEF SubmitVerification, TypeOK
  <2> QED
    BY <1>5, <2>1 DEF SubmitVerification, TypeOK
<1>6. ASSUME NEW h \in Hands, NEW p \in Platforms, UpsertVerification(h, p)
      PROVE  TypeOK'
  <2>1. hand' \in [Hands -> Job] /\ hand[h].next[p] \in Handles \cup {NoHandle}
    BY <1>6, Leaves, JobFields DEF UpsertVerification, TypeOK, Profiles
  <2>2. /\ row' \in [Platforms -> Row] /\ behind' \subseteq Platforms /\ read' = read
        /\ overtaken' \subseteq Platforms /\ contested' \subseteq Platforms
    BY <1>6, <2>1, UpsertMoves DEF UpsertVerification, TypeOK
  <2> QED
    BY <1>6, <2>1, <2>2 DEF UpsertVerification, TypeOK
<1>7. ASSUME NEW h \in Hands, NEW n \in Names \cup {NoName}, NEW x \in Profiles,
             CompleteOnboarding(h, n, x)
      PROVE  TypeOK'
  <2>1. hand' \in [Hands -> Job] /\ raced' \subseteq {"handles", "names", "nin"}
    BY <1>7, OnboardMoves, Overlaps DEF CompleteOnboarding, TypeOK
  <2> QED
    BY <1>7, <2>1 DEF CompleteOnboarding, TypeOK
<1>8. ASSUME NEW h \in Hands, UpsertProfile(h)
      PROVE  TypeOK'
  <2>1. /\ hand' \in [Hands -> Job] /\ name' \in Names \cup {NoName} /\ handle' \in Profiles
        /\ locked' \in BOOLEAN /\ behind' \subseteq Platforms
    BY <1>8, Leaves, JobFields DEF UpsertProfile, Locks, TypeOK
  <2> QED
    BY <1>8, <2>1 DEF UpsertProfile, Locks, TypeOK
<1>9. ASSUME NEW h \in Hands, NEW n \in Nins, VerifyNIN(h, n)
      PROVE  TypeOK'
  <2>1. hand' \in [Hands -> Job] /\ raced' \subseteq {"handles", "names", "nin"}
    BY <1>9, VerifyMoves, Overlaps DEF VerifyNIN, TypeOK
  <2> QED
    BY <1>9, <2>1 DEF VerifyNIN, TypeOK
<1>10. ASSUME NEW h \in Hands, LookupNin(h)
       PROVE  TypeOK'
  <2>1. hand' \in [Hands -> Job]
    BY <1>10, LookupMoves
  <2> QED
    BY <1>10, <2>1 DEF LookupNin, TypeOK
<1>11. ASSUME NEW h \in Hands, ClaimNin(h)
       PROVE  TypeOK'
  <2>1. hand' \in [Hands -> Job] /\ nin' \in Nins \cup {NoNin} /\ locked' \in BOOLEAN
    BY <1>11, Leaves, JobFields DEF ClaimNin, TypeOK
  <2> QED
    BY <1>11, <2>1 DEF ClaimNin, TypeOK
<1>12. ASSUME NEW h \in Hands, DropHand(h)
       PROVE  TypeOK'
  <2>1. hand' \in [Hands -> Job] /\ behind' \subseteq Platforms
    BY <1>12, Leaves, JobFields DEF DropHand, TypeOK
  <2> QED
    BY <1>12, <2>1 DEF DropHand, TypeOK
<1>13. ASSUME NEW n \in Nins, OthersClaim(n)
       PROVE  TypeOK'
  BY <1>13 DEF OthersClaim, TypeOK
<1>14. ASSUME NEW d \in Desks, NEW p \in Platforms,
              NEW decision \in {"VERIFIED", "REJECTED"}, StartReview(d, p, decision)
       PROVE  TypeOK'
  <2>1. /\ DOMAIN desk' = DOMAIN desk \cup {d} /\ desk'[d] \in Review
        /\ \A e \in DOMAIN desk : desk'[e] = desk[e]
    BY <1>14, ReviewMoves
  <2>2. DOMAIN desk \subseteq Desks /\ \A e \in DOMAIN desk : desk[e] \in Review
    BY DEF TypeOK
  <2>3. DOMAIN desk' \subseteq Desks /\ \A e \in DOMAIN desk' : desk'[e] \in Review
    BY ONLY <2>1, <2>2, d \in Desks
  <2> QED
    BY <1>14, <2>3 DEF StartReview, TypeOK
<1>15. ASSUME NEW d \in Desks, Decide(d)
       PROVE  TypeOK'
  <2>1. /\ DOMAIN desk' \subseteq Desks /\ \A e \in DOMAIN desk' : desk'[e] \in Review
        /\ row' \in [Platforms -> Row] /\ read' \in Profiles
    <3> PICK p \in Platforms : p = desk[d].platform
      BY <1>15, ReviewFields DEF Decide, TypeOK
    <3>1. /\ DOMAIN desk' = DOMAIN desk \ {d} /\ \A e \in DOMAIN desk' : desk'[e] = desk[e]
          /\ row' \in [Platforms -> Row] /\ read' \in Profiles
      BY <1>15, DecideMoves
    <3> QED
      BY <3>1 DEF TypeOK
  <2> QED
    BY <1>15, <2>1 DEF Decide, TypeOK
<1>16. ASSUME NEW d \in Desks, DropDesk(d)
       PROVE  TypeOK'
  <2>1. DOMAIN desk' \subseteq Desks /\ \A e \in DOMAIN desk' : desk'[e] \in Review
    BY <1>16, DropMoves DEF TypeOK
  <2> QED
    BY <1>16, <2>1 DEF DropDesk, TypeOK
<1>17. CASE UNCHANGED vars
  BY <1>17 DEF vars, TypeOK
<1> QED
  BY Relinks, <1>1, <1>2, <1>3, <1>4, <1>5, <1>6, <1>7, <1>8, <1>9, <1>10, <1>11, <1>12, <1>13,
     <1>14, <1>15, <1>16, <1>17
     DEF Next, Onboarding, Verification, Staff

-----------------------------------------------------------------------------
\* The person

\* Which handlers are at certain steps when one of them moves.
LEMMA InMoves ==
    ASSUME NEW h \in Hands, NEW S, \A g \in Hands : g # h => hand'[g] = hand[g]
    PROVE  /\ hand'[h].step \notin S => In(S)' = In(S) \ {h}
           /\ hand'[h].step \in S => In(S)' = In(S) \cup {h}
           /\ h \in In(S) <=> hand[h].step \in S
           /\ \A g \in In(S)' : g # h => g \in In(S) /\ hand'[g] = hand[g]
           /\ In(S) \subseteq Hands /\ In(S)' \subseteq Hands
  BY DEF In

\* A handler that is neither onboarding nor verifying afterwards, and writes
\* nothing of the person.
LEMMA PersonAside ==
    ASSUME TypeOK, PersonHolds, NEW h \in Hands,
           \A g \in Hands : g # h => hand'[g] = hand[g],
           hand'[h].step \notin {"onboard", "holder", "claim"},
           raced \subseteq raced', UNCHANGED person
    PROVE  PersonHolds'
<1>1. /\ In({"onboard"})' \subseteq In({"onboard"})
      /\ In({"claim"})' \subseteq In({"claim"})
      /\ In({"holder", "claim"})' \subseteq In({"holder", "claim"})
      /\ \A g \in In({"claim"})' : hand'[g] = hand[g]
      /\ \A g \in In({"holder", "claim"})' : hand'[g] = hand[g]
  BY DEF In
<1> QED
  BY <1>1 DEF PersonHolds, Alone, person

\* Every step keeps what is true of name and number.
LEMMA PersonStep ==
    ASSUME ProfileInv, [Next]_vars
    PROVE  PersonHolds'
<1> USE DEF person
<1>0. TypeOK /\ PersonHolds
  BY DEF ProfileInv
<1>1. ASSUME NEW h \in Hands, NEW x \in Profiles, Relink(h, x)
      PROVE  PersonHolds'
  <2>1. raced \subseteq raced' /\ UNCHANGED person
    BY <1>1 DEF Relink
  <2> QED
    BY <1>0, <1>1, <2>1, RelinkMoves, PersonAside
<1>2. ASSUME NEW h \in Hands, WriteHandles(h)
      PROVE  PersonHolds'
  <2>1. raced \subseteq raced' /\ UNCHANGED person
    BY <1>2 DEF WriteHandles
  <2>2. hand'[h].step \notin {"onboard", "holder", "claim"}
    BY <1>0, <1>2, WriteMoves, IdleJob
  <2> QED
    BY <1>0, <1>2, <2>1, <2>2, WriteMoves, PersonAside
<1>3. ASSUME NEW h \in Hands, NEW p \in Platforms, QueueReview(h, p) \/ DeleteRow(h, p)
      PROVE  PersonHolds'
  <2>1. /\ raced \subseteq raced' /\ UNCHANGED person /\ Done(h, p)
        /\ hand[h].step = "queue" /\ p \in hand[h].left
    BY <1>3 DEF QueueReview, DeleteRow
  <2>2. hand'[h].step \notin {"onboard", "holder", "claim"}
    BY <1>0, <2>1, DoneMoves, IdleJob
  <2> QED
    BY <1>0, <2>1, <2>2, DoneMoves, PersonAside
<1>4. ASSUME NEW h \in Hands, NEW p \in Platforms, SubmitVerification(h, p)
      PROVE  PersonHolds'
  <2>1. raced \subseteq raced' /\ UNCHANGED person
    BY <1>4 DEF SubmitVerification
  <2> QED
    BY <1>0, <1>4, <2>1, SubmitMoves, PersonAside
<1>5. ASSUME NEW h \in Hands, DropHand(h) \/ \E p \in Platforms : UpsertVerification(h, p)
      PROVE  PersonHolds'
  <2>1. raced \subseteq raced' /\ UNCHANGED person /\ Leave(h)
    BY <1>5 DEF UpsertVerification, DropHand
  <2> QED
    BY <1>0, <2>1, Leaves, IdleJob, PersonAside
<1>6. ASSUME NEW h \in Hands, NEW n \in Names \cup {NoName}, NEW x \in Profiles,
             CompleteOnboarding(h, n, x)
      PROVE  PersonHolds'
  <2>1. /\ UNCHANGED person /\ raced \subseteq raced' /\ name = NoName
        /\ "names" \notin raced' => In({"onboard"}) = {}
    BY <1>0, <1>6, Overlaps DEF CompleteOnboarding, NameAllowed, PersonHolds
  <2>2. /\ In({"onboard"})' = In({"onboard"}) \cup {h}
        /\ In({"claim"})' \subseteq In({"claim"})
        /\ In({"holder", "claim"})' \subseteq In({"holder", "claim"})
        /\ \A g \in In({"claim"})' : hand'[g] = hand[g]
        /\ \A g \in In({"holder", "claim"})' : hand'[g] = hand[g]
    BY <1>0, <1>6, OnboardMoves DEF In
  <2> QED
    BY <1>0, <2>1, <2>2 DEF PersonHolds, Alone
<1>7. ASSUME NEW h \in Hands, UpsertProfile(h)
      PROVE  PersonHolds'
  <2>1. /\ hand[h].step = "onboard" /\ name' = hand[h].name /\ UNCHANGED <<nin, others, raced>>
        /\ locked' = (locked \/ name' # NoName) /\ Leave(h)
    BY <1>7 DEF UpsertProfile, Locks
  <2>2. /\ h \in In({"onboard"}) /\ In({"onboard"})' = In({"onboard"}) \ {h}
        /\ In({"claim"})' \subseteq In({"claim"})
        /\ In({"holder", "claim"})' \subseteq In({"holder", "claim"})
        /\ \A g \in In({"claim"})' : hand'[g] = hand[g]
    BY <1>0, <2>1, Leaves, IdleJob DEF In
  <2>3. "names" \notin raced =>
           /\ nin = NoNin
           /\ In({"onboard"})' = {} /\ In({"holder", "claim"}) = {}
    BY <1>0, <2>2, ProfileAssumption DEF PersonHolds, Alone, TypeOK
  <2>4. name' # NoName => locked'
    BY <2>1
  <2> QED
    BY <1>0, <2>1, <2>2, <2>3, <2>4 DEF PersonHolds, Alone
<1>8. ASSUME NEW h \in Hands, NEW n \in Nins, VerifyNIN(h, n)
      PROVE  PersonHolds'
  <2>1. /\ UNCHANGED person /\ raced \subseteq raced' /\ name # NoName /\ nin = NoNin
        /\ "nin" \notin raced' => In({"holder", "claim"}) = {}
    BY <1>8, Overlaps DEF VerifyNIN, HasLegalNames
  <2>2. /\ In({"onboard"})' \subseteq In({"onboard"})
        /\ In({"claim"})' \subseteq In({"claim"})
        /\ In({"holder", "claim"})' = In({"holder", "claim"}) \cup {h}
        /\ \A g \in In({"claim"})' : hand'[g] = hand[g]
        /\ \A g \in In({"holder", "claim"})' : g # h => hand'[g] = hand[g] 
        /\ hand'[h].name = name
    BY <1>0, <1>8, VerifyMoves DEF In
  <2> QED
    BY <1>0, <2>1, <2>2 DEF PersonHolds, Alone
<1>9. ASSUME NEW h \in Hands, LookupNin(h)
      PROVE  PersonHolds'
  <2>1. UNCHANGED person /\ raced' = raced
    BY <1>9 DEF LookupNin
  <2>2. /\ In({"onboard"})' \subseteq In({"onboard"})
        /\ In({"claim"})' = In({"claim"}) \cup {h}
        /\ In({"holder", "claim"})' = In({"holder", "claim"}) /\ h \in In({"holder", "claim"})
        /\ \A g \in In({"holder", "claim"}) : g # h => hand'[g] = hand[g] 
        /\ In({"claim"}) \subseteq In({"holder", "claim"})
        /\ hand'[h].name = hand[h].name /\ MatchesProfile(hand'[h].name, hand'[h].nin)
    BY <1>0, <1>9, LookupMoves DEF In
  <2> QED
    BY <1>0, <2>1, <2>2 DEF PersonHolds, Alone
<1>10. ASSUME NEW h \in Hands, ClaimNin(h)
       PROVE  PersonHolds'
  <2>1. /\ hand[h].step = "claim" /\ nin' = hand[h].nin /\ nin' \notin others /\ locked'
        /\ UNCHANGED <<name, others, raced>> /\ Leave(h)
    BY <1>10 DEF ClaimNin
  <2>2. /\ In({"onboard"})' \subseteq In({"onboard"})
        /\ In({"claim"})' = In({"claim"}) \ {h} /\ h \in In({"claim"})
        /\ In({"holder", "claim"})' = In({"holder", "claim"}) \ {h} 
        /\ h \in In({"holder", "claim"})
        /\ \A g \in In({"holder", "claim"})' : hand'[g] = hand[g] 
        /\ In({"claim"})' \subseteq In({"holder", "claim"})'
    BY <1>0, <2>1, Leaves, IdleJob DEF In
  <2>3. /\ MatchesProfile(hand[h].name, nin')
        /\ "names" \notin raced => name # NoName /\ MatchesProfile(name, nin')
    BY <1>0, <2>1, <2>2 DEF PersonHolds
  <2> QED
    BY <1>0, <2>1, <2>2, <2>3 DEF PersonHolds, Alone
<1>11. ASSUME NEW n \in Nins, OthersClaim(n)
       PROVE  PersonHolds'
  BY <1>0, <1>11 DEF OthersClaim, PersonHolds, In, Alone
<1>12. ASSUME UNCHANGED <<person, hand, raced>>
       PROVE  PersonHolds'
  BY <1>0, <1>12 DEF PersonHolds, In, Alone
<1>13. ASSUME NEW d \in Desks, Staff(d)
       PROVE  PersonHolds'
  BY <1>12, <1>13 DEF Staff, StartReview, Decide, DropDesk
<1>14. CASE UNCHANGED vars
  BY <1>12, <1>14 DEF vars
<1> QED
  BY Relinks, <1>0, <1>1, <1>2, <1>3, <1>4, <1>5, <1>6, <1>7, <1>8, <1>9, <1>10, <1>11, <1>13, <1>14
     DEF Next, Onboarding, Verification

-----------------------------------------------------------------------------
\* The handles

\* A handler that neither links nor submits afterwards, and leaves the handles as
\* they are and the rows in agreement with them.
LEMMA HandlesAside ==
    ASSUME HandlesHold, "handles" \notin raced, handle' = handle,
           NEW h \in Hands, \A g \in Hands : g # h => hand'[g] = hand[g],
           hand'[h].step \notin Linking \cup {"submit"},
           \A p \in Platforms \ behind' :
              row'[p].status # "NONE" /\ ~Queued(p)' => row'[p].handle = handle[p]
    PROVE  HandlesHold'
<1>1. \A g \in Hands : hand'[g].step \in Linking \cup {"submit"} => hand'[g] = hand[g]
  OBVIOUS
<1>2. \A g \in In(Linking)', i \in In(Linking \cup {"submit"})' : g = i
  BY <1>1 DEF HandlesHold, In
<1>3. \A g \in In({"write"})' : hand'[g].prev = handle'
  BY <1>1 DEF HandlesHold, In, Linking
<1>4. \A g \in In({"queue"})' : hand'[g].next = handle'
  BY <1>1 DEF HandlesHold, In, Linking
<1>5. \A g \in In({"submit"})' : \A p \in hand'[g].left : hand'[g].next[p] = handle'[p]
  BY <1>1 DEF HandlesHold, In
<1> QED
  BY <1>2, <1>3, <1>4, <1>5 DEF HandlesHold

\* While handlers did not overlap, one that links is the only one that links or submits.
LEMMA OnlyHand ==
    ASSUME HandlesHold, "handles" \notin raced, NEW h \in Hands, hand[h].step \in Linking
    PROVE  \A g \in Hands : hand[g].step \in Linking \cup {"submit"} => g = h
  BY DEF HandlesHold, In

\* Every step keeps what is true of the handles.
LEMMA HandlesStep ==
    ASSUME ProfileInv, [Next]_vars
    PROVE  HandlesHold'
<1>0. TypeOK /\ HandlesHold
  BY DEF ProfileInv
<1>1. ASSUME NEW h \in Hands, NEW x \in Profiles, Relink(h, x)
      PROVE  HandlesHold'
  <2> SUFFICES ASSUME "handles" \notin raced'
               PROVE  HandlesHold'
    BY DEF HandlesHold
  <2>1. /\ UNCHANGED <<handle, row, behind>> /\ raced \subseteq raced'
        /\ In(Linking \cup {"submit"}) = {}
    BY <1>1, Overlaps DEF Relink
  <2>2. /\ \A g \in Hands : hand'[g].step \in Linking \cup {"submit"} => g = h
        /\ hand'[h].step = "write" /\ hand'[h].prev = handle
    BY <1>0, <1>1, <2>1, RelinkMoves DEF In
  <2>3. \A p \in Platforms : ~Queued(p) /\ ~Queued(p)'
    BY <2>1, <2>2 DEF Queued, In, Linking
  <2> QED
    BY <1>0, <2>1, <2>2, <2>3 DEF HandlesHold, In, Linking
<1>2. ASSUME NEW h \in Hands, WriteHandles(h)
      PROVE  HandlesHold'
  <2> SUFFICES ASSUME "handles" \notin raced
               PROVE  HandlesHold'
    BY <1>2 DEF HandlesHold, WriteHandles
  <2> DEFINE changed == {p \in Platforms : hand[h].prev[p] # hand[h].next[p]}
  <2>1. /\ UNCHANGED <<row, behind, raced>> /\ handle' = hand[h].next
        /\ hand[h].step = "write" /\ hand[h].prev = handle
    BY <1>0, <1>2 DEF WriteHandles, HandlesHold, In
  <2>2. \A g \in Hands : hand[g].step \in Linking \cup {"submit"} => g = h
    BY <1>0, <2>1, OnlyHand DEF Linking
  <2>3. /\ \A g \in Hands : hand'[g].step \in Linking \cup {"submit"} => g = h
        /\ \/ hand'[h].step = "idle" /\ changed = {}
           \/ hand'[h].step = "queue" /\ hand'[h].next = handle' /\ hand'[h].left = changed
    BY <1>0, <1>2, <2>1, <2>2, WriteMoves, IdleJob
  <2>4. \A p \in Platforms : ~Queued(p) /\ (~Queued(p)' => handle'[p] = handle[p])
    BY <2>1, <2>2, <2>3 DEF Queued, Linking
  <2> HIDE DEF changed
  <2> QED
    BY <1>0, <2>1, <2>3, <2>4 DEF HandlesHold, In, Linking
<1>3. ASSUME NEW h \in Hands, NEW p \in Platforms, QueueReview(h, p) \/ DeleteRow(h, p)
      PROVE  HandlesHold'
  <2> SUFFICES ASSUME "handles" \notin raced
               PROVE  HandlesHold'
    BY <1>3 DEF HandlesHold, QueueReview, DeleteRow
  <2>1. /\ UNCHANGED <<handle, raced>> /\ hand[h].step = "queue" /\ p \in hand[h].left
        /\ hand[h].next = handle /\ Done(h, p)
    BY <1>0, <1>3 DEF QueueReview, DeleteRow, HandlesHold, In
  <2>2. \A g \in Hands : hand[g].step \in Linking \cup {"submit"} => g = h
    BY <1>0, <2>1, OnlyHand DEF Linking
  <2>3. /\ \A g \in Hands : hand'[g].step \in Linking \cup {"submit"} => g = h
        /\ \/ hand'[h].step = "idle" /\ hand[h].left = {p}
           \/ /\ hand'[h].step = "queue" /\ hand'[h].next = handle
              /\ hand'[h].left = hand[h].left \ {p}
    BY <1>0, <2>1, <2>2, DoneMoves, IdleJob
  <2>4. /\ behind' = behind \ {p} /\ \A q \in Platforms : q # p => row'[q] = row[q]
        /\ row'[p].status # "NONE" => row'[p].handle = handle[p]
    <3>1. CASE QueueReview(h, p)
      <4>1. handle[p] \in Handles \cup {NoHandle} /\ Upsert(p, handle[p])
        BY <1>0, <2>1, <3>1 DEF QueueReview, TypeOK, Profiles
      <4> QED
        BY <1>0, <4>1, UpsertMoves
    <3>2. CASE DeleteRow(h, p)
      BY <1>0, <3>2, DeleteMoves
    <3> QED
      BY <1>3, <3>1, <3>2
  <2>5. \A q \in Platforms : q # p /\ ~Queued(q)' => ~Queued(q)
    BY <2>1, <2>2, <2>3 DEF Queued, Linking
  <2> QED
    BY <1>0, <2>1, <2>3, <2>4, <2>5 DEF HandlesHold, In, Linking
<1>4. ASSUME NEW h \in Hands, NEW p \in Platforms, SubmitVerification(h, p)
      PROVE  HandlesHold'
  <2> SUFFICES ASSUME "handles" \notin raced'
               PROVE  HandlesHold'
    BY DEF HandlesHold
  <2>1. /\ UNCHANGED <<handle, row, behind>> /\ raced \subseteq raced' /\ In(Linking) = {}
    BY <1>4, Overlaps DEF SubmitVerification
  <2>2. /\ hand'[h].step = "submit" /\ hand'[h].left = {p} /\ hand'[h].next[p] = handle[p]
        /\ \A g \in Hands : g # h => hand'[g] = hand[g]
    BY <1>0, <1>4, SubmitMoves
  <2>3. In(Linking)' = {}
    BY <2>1, <2>2 DEF In, Linking
  <2>4. \A q \in Platforms : ~Queued(q) /\ ~Queued(q)'
    BY <2>1, <2>3 DEF Queued, In, Linking
  <2>5. \A g \in In({"submit"})' : \A q \in hand'[g].left : hand'[g].next[q] = handle[q]
    BY <1>0, <2>1, <2>2 DEF HandlesHold, In
  <2> QED
    BY <1>0, <2>1, <2>3, <2>4, <2>5 DEF HandlesHold, In, Linking
<1>5. ASSUME NEW h \in Hands, NEW p \in Platforms, UpsertVerification(h, p)
      PROVE  HandlesHold'
  <2> SUFFICES ASSUME "handles" \notin raced
               PROVE  HandlesHold'
    BY <1>5 DEF HandlesHold, UpsertVerification
  <2>1. /\ UNCHANGED <<handle, raced>> /\ hand[h].step = "submit" /\ p \in hand[h].left
        /\ Leave(h) /\ hand[h].next[p] = handle[p] /\ Upsert(p, handle[p])
    BY <1>0, <1>5 DEF UpsertVerification, HandlesHold, In
  <2>2. hand'[h].step = "idle" /\ \A g \in Hands : g # h => hand'[g] = hand[g]
    BY <1>0, <2>1, Leaves, IdleJob
  <2>3. /\ behind' = behind \ {p} /\ \A q \in Platforms : q # p => row'[q] = row[q]
        /\ row'[p].handle = handle[p]
    BY <1>0, <2>1, UpsertMoves DEF TypeOK, Profiles
  <2>4. \A q \in Platforms : Queued(q)' <=> Queued(q)
    BY <2>1, <2>2 DEF Queued
  <2>5. \A q \in Platforms \ behind' :
           row'[q].status # "NONE" /\ ~Queued(q)' => row'[q].handle = handle[q]
    BY <1>0, <2>3, <2>4 DEF HandlesHold
  <2> QED
    BY <1>0, <2>1, <2>2, <2>5, HandlesAside DEF Linking
<1>6. ASSUME NEW h \in Hands, NEW n \in Names \cup {NoName}, NEW x \in Profiles,
             CompleteOnboarding(h, n, x)
      PROVE  HandlesHold'
  <2> SUFFICES ASSUME "handles" \notin raced'
               PROVE  HandlesHold'
    BY DEF HandlesHold
  <2>1. /\ UNCHANGED <<handle, row, behind>> /\ raced \subseteq raced'
        /\ In(Linking \cup {"submit"}) = {}
    BY <1>6, Overlaps DEF CompleteOnboarding
  <2>2. /\ \A g \in Hands : hand'[g].step \in Linking \cup {"submit"} => g = h
        /\ hand'[h].step = "onboard"
    BY <1>0, <1>6, <2>1, OnboardMoves DEF In
  <2>3. \A p \in Platforms : ~Queued(p) /\ ~Queued(p)'
    BY <2>1, <2>2 DEF Queued, In, Linking
  <2> QED
    BY <1>0, <2>1, <2>2, <2>3 DEF HandlesHold, In, Linking
<1>7. ASSUME NEW h \in Hands, UpsertProfile(h)
      PROVE  HandlesHold'
  <2> SUFFICES ASSUME "handles" \notin raced
               PROVE  HandlesHold'
    BY <1>7 DEF HandlesHold, UpsertProfile
  <2>1. /\ UNCHANGED <<row, raced>> /\ handle' = hand[h].next /\ hand[h].step = "onboard"
        /\ Leave(h)
        /\ \A p \in Platforms \ behind' :
              row[p].status # "NONE" => row[p].handle = handle'[p]
    BY <1>7 DEF UpsertProfile
  <2>2. \A g \in Hands : hand[g].step \in Linking \cup {"submit"} => g = h
    BY <1>0, <2>1, OnlyHand DEF Linking
  <2>3. \A g \in Hands : hand'[g].step \notin Linking \cup {"submit"}
    BY <1>0, <2>1, <2>2, Leaves, IdleJob DEF Linking
  <2> QED
    BY <2>1, <2>3 DEF HandlesHold, In, Linking
<1>8. ASSUME NEW h \in Hands, Verification(h)
      PROVE  HandlesHold'
  <2> SUFFICES ASSUME "handles" \notin raced'
               PROVE  HandlesHold'
    BY DEF HandlesHold
  <2>1. /\ UNCHANGED <<handle, row, behind>> /\ raced \subseteq raced'
        /\ \A g \in Hands : g # h => hand'[g] = hand[g]
        /\ hand[h].step # "queue" /\ hand'[h].step \notin Linking \cup {"submit"}
    <3>1. CASE \E n \in Nins : VerifyNIN(h, n)
      BY <1>0, <3>1, VerifyMoves DEF VerifyNIN, Linking
    <3>2. CASE LookupNin(h)
      BY <1>0, <3>2, LookupMoves DEF LookupNin, Linking
    <3>3. CASE ClaimNin(h)
      BY <1>0, <3>3, Leaves, IdleJob DEF ClaimNin, Linking
    <3> QED
      BY <1>8, <3>1, <3>2, <3>3 DEF Verification
  <2>2. \A p \in Platforms : Queued(p)' <=> Queued(p)
    BY <2>1 DEF Queued, Linking
  <2>3. \A p \in Platforms \ behind' :
           row'[p].status # "NONE" /\ ~Queued(p)' => row'[p].handle = handle[p]
    BY <1>0, <2>1, <2>2 DEF HandlesHold
  <2>4. "handles" \notin raced
    BY <2>1
  <2> QED
    BY ONLY <1>0, <2>1, <2>3, <2>4, HandlesAside
<1>9. ASSUME NEW h \in Hands, DropHand(h)
      PROVE  HandlesHold'
  <2> SUFFICES ASSUME "handles" \notin raced
               PROVE  HandlesHold'
    BY <1>9 DEF HandlesHold, DropHand
  <2>1. /\ UNCHANGED <<handle, row, raced>> /\ Leave(h) /\ behind \subseteq behind'
        /\ hand[h].step = "queue" => hand[h].left \subseteq behind'
    BY <1>9 DEF DropHand
  <2>2. hand'[h].step = "idle" /\ \A g \in Hands : g # h => hand'[g] = hand[g]
    BY <1>0, <2>1, Leaves, IdleJob
  <2>3. \A p \in Platforms \ behind' : Queued(p) => Queued(p)'
    BY <2>1, <2>2 DEF Queued
  <2>4. \A p \in Platforms \ behind' :
           row'[p].status # "NONE" /\ ~Queued(p)' => row'[p].handle = handle[p]
    BY <1>0, <2>1, <2>3 DEF HandlesHold
  <2> QED
    BY <1>0, <2>1, <2>2, <2>4, HandlesAside DEF Linking
<1>10. ASSUME UNCHANGED <<handle, hand, row, behind, raced>>
       PROVE  HandlesHold'
  BY <1>0, <1>10 DEF HandlesHold, In, Queued
<1>11. ASSUME NEW d \in Desks, Decide(d)
       PROVE  HandlesHold'
  <2>1. UNCHANGED <<handle, hand, behind, raced>>
    BY <1>11 DEF Decide
  <2> PICK q \in Platforms : q = desk[d].platform
    BY <1>0, <1>11, ReviewFields DEF Decide, TypeOK
  <2>2. /\ \A p \in Platforms : row'[p].handle = row[p].handle
        /\ \A p \in Platforms : row'[p].status # "NONE" => row[p].status # "NONE"
    BY <1>0, <1>11, DecideMoves
  <2> QED
    BY <1>0, <2>1, <2>2 DEF HandlesHold, In, Queued
<1>12. ASSUME NEW d \in Desks, Staff(d)
       PROVE  HandlesHold'
  BY <1>10, <1>11, <1>12 DEF Staff, StartReview, DropDesk
<1>13. CASE UNCHANGED vars
  BY <1>10, <1>13 DEF vars
<1>14. ASSUME NEW n \in Nins, OthersClaim(n)
       PROVE  HandlesHold'
  BY <1>10, <1>14 DEF OthersClaim
<1> QED
  BY Relinks, <1>0, <1>1, <1>2, <1>3, <1>4, <1>5, <1>6, <1>7, <1>8, <1>9, <1>12, <1>13, <1>14
     DEF Next, Onboarding

-----------------------------------------------------------------------------
\* The reviews

\* A step that keeps the reviews of every platform, or some of them, and its row.
LEMMA ReviewsAside ==
    ASSUME ReviewsHold, UNCHANGED <<row, overtaken, contested>>,
           DOMAIN desk' \subseteq DOMAIN desk, \A d \in DOMAIN desk' : desk'[d] = desk[d]
    PROVE  ReviewsHold'
<1>1. \A p \in Platforms : /\ ReviewsOf(p)' \subseteq ReviewsOf(p)
                            /\ \A d \in ReviewsOf(p)' : desk'[d] = desk[d]
  BY DEF ReviewsOf
<1> QED
  BY <1>1 DEF ReviewsHold

\* A (re)submission keeps what is true of the reviews.
LEMMA UpsertReviews ==
    ASSUME TypeOK, ReviewsHold, DecidedIsRead, NEW p \in Platforms,
           NEW x \in Handles \cup {NoHandle}, Upsert(p, x), UNCHANGED desk
    PROVE  ReviewsHold' /\ DecidedIsRead'
<1>1. /\ row'[p].status = "PENDING"
      /\ row'[p].gen = IF row[p].status = "NONE" THEN row[p].gen + 1 ELSE row[p].gen
      /\ \A q \in Platforms : q # p => row'[q] = row[q]
      /\ read' = read
      /\ \A q \in Platforms : q # p => /\ q \in overtaken' <=> q \in overtaken
                                       /\ q \in contested' <=> q \in contested
      /\ \/ row[p].status # "NONE" /\ p \in overtaken' /\ contested' = contested
         \/ row[p].status = "NONE" \/ ReviewsOf(p) = {}
  BY UpsertMoves
<1>2. /\ row[p].gen \in Nat
      /\ \A d \in DOMAIN desk : desk[d].gen \in Nat /\ desk[d].platform \in Platforms
  BY RowFields, ReviewFields DEF TypeOK
<1>3. \A d \in DOMAIN desk : desk[d].gen <= row[desk[d].platform].gen
  BY DEF ReviewsHold
<1>4. \A d \in DOMAIN desk : desk[d].gen <= row'[desk[d].platform].gen
  BY <1>1, <1>2, <1>3
<1>5. \A q \in Platforms : q # p => ReviewsOf(q)' = ReviewsOf(q)
  BY <1>1 DEF ReviewsOf
<1>6. CASE row[p].status = "NONE"
  <2>1. ReviewsOf(p)' = {}
    BY <1>1, <1>2, <1>3, <1>6 DEF ReviewsOf
  <2> QED
    BY <1>1, <1>4, <1>5, <2>1 DEF ReviewsHold, DecidedIsRead
<1>7. CASE row[p].status # "NONE"
  <2>1. ReviewsOf(p)' = ReviewsOf(p)
    BY <1>1, <1>7 DEF ReviewsOf
  <2> QED
    BY <1>1, <1>4, <1>5, <1>7, <2>1 DEF ReviewsHold, DecidedIsRead
<1> QED
  BY <1>6, <1>7

\* Every step keeps what is true of the reviews.
LEMMA ReviewsStep ==
    ASSUME ProfileInv, [Next]_vars
    PROVE  ReviewsHold' /\ DecidedIsRead'
<1>0. TypeOK /\ ReviewsHold /\ DecidedIsRead
  BY DEF ProfileInv
<1>1. CASE UNCHANGED <<row, reviews, desk>>
  BY <1>0, <1>1, ReviewsAside DEF reviews, DecidedIsRead
<1>2. ASSUME NEW h \in Hands, NEW p \in Platforms, QueueReview(h, p) \/ UpsertVerification(h, p)
      PROVE  ReviewsHold' /\ DecidedIsRead'
  <2>1. hand[h].next[p] \in Handles \cup {NoHandle}
    BY <1>0, JobFields DEF TypeOK, Profiles
  <2>2. Upsert(p, hand[h].next[p]) /\ UNCHANGED desk
    BY <1>2 DEF QueueReview, UpsertVerification
  <2> QED
    BY <1>0, <2>1, <2>2, UpsertReviews
<1>3. ASSUME NEW h \in Hands, NEW p \in Platforms, DeleteRow(h, p)
      PROVE  ReviewsHold' /\ DecidedIsRead'
  <2>1. /\ UNCHANGED <<desk, read>>
        /\ overtaken' = overtaken \ {p} /\ contested' = contested \ {p}
    BY <1>3 DEF DeleteRow
  <2>2. /\ row'[p].status = "NONE" /\ row'[p].gen = row[p].gen
        /\ \A q \in Platforms : q # p => row'[q] = row[q]
    BY <1>0, <1>3, DeleteMoves
  <2>3. \A q \in Platforms : ReviewsOf(q)' = ReviewsOf(q) /\ row'[q].gen = row[q].gen
    BY <2>1, <2>2 DEF ReviewsOf
  <2>4. \A d \in DOMAIN desk : desk[d].platform \in Platforms
    BY <1>0, ReviewFields DEF TypeOK
  <2> QED
    BY <1>0, <2>1, <2>2, <2>3, <2>4 DEF ReviewsHold, DecidedIsRead
<1>4. ASSUME NEW d \in Desks, NEW p \in Platforms,
             NEW decision \in {"VERIFIED", "REJECTED"}, StartReview(d, p, decision)
      PROVE  ReviewsHold' /\ DecidedIsRead'
  <2>1. /\ UNCHANGED <<row, read, overtaken>> /\ row[p].status = "PENDING"
        /\ contested' = IF ReviewsOf(p) = {} THEN contested ELSE contested \cup {p}
    BY <1>4 DEF StartReview
  <2>2. /\ DOMAIN desk' = DOMAIN desk \cup {d}
        /\ desk'[d].platform = p /\ desk'[d].gen = row[p].gen
        /\ desk'[d].handle = row[p].handle
        /\ \A e \in DOMAIN desk : e # d /\ desk'[e] = desk[e]
    BY <1>0, <1>4, ReviewMoves
  <2>3. /\ ReviewsOf(p)' = ReviewsOf(p) \cup {d}
        /\ \A q \in Platforms : q # p => ReviewsOf(q)' = ReviewsOf(q)
        /\ \A q \in Platforms : \A e \in ReviewsOf(q) : desk'[e] = desk[e]
    BY <2>1, <2>2 DEF ReviewsOf
  <2>4. row[p].gen \in Nat
    BY <1>0, RowFields DEF TypeOK
  <2>5. \A e \in DOMAIN desk' : desk'[e].gen <= row[desk'[e].platform].gen
    BY <1>0, <2>2, <2>4 DEF ReviewsHold
  <2>6. \A q \in Platforms : row[q].status # "NONE" /\ q \notin overtaken =>
           \A e \in ReviewsOf(q)' : desk'[e].handle = row[q].handle
    BY <1>0, <2>2, <2>3 DEF ReviewsHold
  <2>7. \A q \in Platforms : row[q].status # "NONE" /\ q \notin contested' =>
           /\ \A e, f \in ReviewsOf(q)' : e = f
           /\ row[q].status # "PENDING" => ReviewsOf(q)' = {}
    BY <1>0, <2>1, <2>3 DEF ReviewsHold
  <2> QED
    BY <1>0, <2>1, <2>5, <2>6, <2>7 DEF ReviewsHold, DecidedIsRead
<1>5. ASSUME NEW d \in Desks, Decide(d)
      PROVE  ReviewsHold' /\ DecidedIsRead'
  <2>1. UNCHANGED <<overtaken, contested>> /\ desk[d] \in Review
    BY <1>0, <1>5 DEF Decide, TypeOK
  <2> PICK p \in Platforms : p = desk[d].platform
    BY <2>1, ReviewFields
  <2>2. /\ d \in ReviewsOf(p) /\ p \in Platforms /\ row[p].status # "NONE"
        /\ row'[p].gen = row[p].gen /\ row'[p].handle = row[p].handle
        /\ read'[p] = desk[d].handle
        /\ \A q \in Platforms : q # p => row'[q] = row[q] /\ read'[q] = read[q]
        /\ DOMAIN desk' = DOMAIN desk \ {d}
        /\ \A e \in DOMAIN desk' : desk'[e] = desk[e]
    BY <1>0, <1>5, DecideMoves
  <2>3. \A e \in DOMAIN desk : desk[e].platform \in Platforms
    BY <1>0, ReviewFields DEF TypeOK
  <2>4. \A q \in Platforms : row'[q].gen = row[q].gen /\ row'[q].handle = row[q].handle
    BY <2>2
  <2>5. /\ ReviewsOf(p)' = ReviewsOf(p) \ {d}
        /\ \A q \in Platforms : /\ ReviewsOf(q)' \subseteq ReviewsOf(q)
                                /\ \A e \in ReviewsOf(q)' : desk'[e] = desk[e]
    BY <2>2, <2>4 DEF ReviewsOf
  <2>6. \A e \in DOMAIN desk' : desk'[e].gen <= row'[desk'[e].platform].gen
    BY <1>0, <2>2, <2>3, <2>4 DEF ReviewsHold
  <2>7. p \notin contested => ReviewsOf(p)' = {}
    BY <1>0, <2>2, <2>5 DEF ReviewsHold
  <2>8. p \notin overtaken => desk[d].handle = row[p].handle
    BY <1>0, <2>2 DEF ReviewsHold
  <2>9. \A q \in Platforms : row'[q].status # "NONE" => row[q].status # "NONE"
    BY <2>2
  <2>10. ReviewsHold'
    BY <1>0, <2>1, <2>2, <2>4, <2>5, <2>6, <2>7, <2>9 DEF ReviewsHold
  <2>11. DecidedIsRead'
    BY <1>0, <2>1, <2>2, <2>4, <2>8 DEF DecidedIsRead
  <2> QED
    BY <2>10, <2>11
<1>6. ASSUME NEW d \in Desks, DropDesk(d)
      PROVE  ReviewsHold' /\ DecidedIsRead'
  <2>1. UNCHANGED <<row, read, overtaken, contested>>
    BY <1>6 DEF DropDesk, reviews
  <2>2. DOMAIN desk' \subseteq DOMAIN desk /\ \A e \in DOMAIN desk' : desk'[e] = desk[e]
    BY <1>0, <1>6, DropMoves
  <2> QED
    BY <1>0, <2>1, <2>2, ReviewsAside DEF DecidedIsRead
<1>7. CASE UNCHANGED vars
  BY <1>1, <1>7 DEF vars
<1>8. ASSUME NEW h \in Hands, Onboarding(h) \/ Verification(h)
      PROVE  ReviewsHold' /\ DecidedIsRead'
  BY <1>1, <1>8
     DEF Onboarding, Verification, CompleteOnboarding, UpsertProfile, VerifyNIN, LookupNin, ClaimNin
<1>9. ASSUME NEW h \in Hands, NEW x,
             \/ Relink(h, x) \/ WriteHandles(h) \/ DropHand(h)
             \/ \E p \in Platforms : SubmitVerification(h, p)
      PROVE  ReviewsHold' /\ DecidedIsRead'
  BY <1>1, <1>9 DEF Relink, WriteHandles, DropHand, SubmitVerification
<1>10. ASSUME NEW n \in Nins, OthersClaim(n)
       PROVE  ReviewsHold' /\ DecidedIsRead'
  BY <1>1, <1>10 DEF OthersClaim, reviews
<1> QED
  BY Relinks, <1>0, <1>2, <1>3, <1>4, <1>5, <1>6, <1>7, <1>8, <1>9, <1>10 DEF Next, Staff

-----------------------------------------------------------------------------
\* The invariant and what follows from it

\* A new account.
LEMMA ProfileInit ==
    ASSUME Init
    PROVE  ProfileInv
<1>1. TypeOK
  <2>1. [gen |-> 0, status |-> "NONE", handle |-> NoHandle] \in Row
    BY ProfileAssumption DEF Row
  <2>2. row \in [Platforms -> Row] /\ hand \in [Hands -> Job]
    BY <2>1, IdleJob DEF Init
  <2>3. /\ name \in Names \cup {NoName} /\ nin \in Nins \cup {NoNin} /\ others \subseteq Nins
        /\ handle \in Profiles /\ read \in Profiles
        /\ behind = {} /\ overtaken = {} /\ contested = {} /\ raced = {}
    BY IdleJob DEF Init
  <2>4. locked \in BOOLEAN /\ DOMAIN desk = {}
    BY DEF Init
  <2> QED
    BY <2>2, <2>3, <2>4 DEF TypeOK
<1>2. /\ \A S : In(S) = {h \in Hands : "idle" \in S} /\ DOMAIN desk = {}
      /\ \A p \in Platforms : row[p].status = "NONE"
  BY IdleJob DEF Init, In
<1>3. PersonHolds
  BY <1>2 DEF Init, PersonHolds, Alone
<1>4. HandlesHold
  BY <1>2 DEF Init, HandlesHold, Linking
<1>5. ReviewsHold /\ DecidedIsRead
  BY <1>2 DEF ReviewsHold, DecidedIsRead
<1> QED
  BY <1>1, <1>3, <1>4, <1>5 DEF ProfileInv

\* Every step of the user, of other users and of staff keeps the invariant.
LEMMA ProfileStep ==
    ASSUME ProfileInv, [Next]_vars
    PROVE  ProfileInv'
  BY Types, PersonStep, HandlesStep, ReviewsStep DEF ProfileInv

\* The invariant of name, number, handles and reviews holds throughout, however
\* many handlers and reviews overlap.
THEOREM ProfileInvariant == Spec => []ProfileInv
  BY ProfileInit, ProfileStep, PTL DEF Spec

\* The variables keep their types.
THEOREM ProfileTypes == Spec => []TypeOK
<1>1. ProfileInv => TypeOK
  BY DEF ProfileInv
<1> QED
  BY <1>1, ProfileInvariant, PTL

\* A verified number is the named person's and no one else's, unless two
\* onboardings overlapped (verifyNIN).
THEOREM NinOwned == Spec => []NinIsOwn
<1>1. ProfileInv => NinIsOwn
  BY DEF ProfileInv, PersonHolds, NinIsOwn, MatchesProfile, NamesMatch
<1> QED
  BY <1>1, ProfileInvariant, PTL

\* Number and name of a verified user do not change, unless verifications or
\* onboardings overlapped (verifyNIN, completeOnboarding).
THEOREM IdentityKept == Spec => IdentityIsKept
<1> DEFINE Kept == nin # NoNin => /\ "nin" \in raced \/ nin' = nin
                                  /\ "names" \in raced \/ name' = name
<1>1. ASSUME ProfileInv, [Next]_vars
      PROVE  Kept
  <2> SUFFICES ASSUME nin # NoNin
               PROVE  /\ "nin" \in raced \/ nin' = nin
                      /\ "names" \in raced \/ name' = name
    OBVIOUS
  <2>1. TypeOK /\ PersonHolds
    BY <1>1 DEF ProfileInv
  <2>2. ASSUME nin' # nin
        PROVE  "nin" \in raced
    <3>1. \E h \in Hands : ClaimNin(h)
      BY <1>1, <2>2
         DEF Next, vars, person, Onboarding, Verification, LinkingHandler, UpdateProfile,
             LinkSocialMedia, Staff, Relink,
             WriteHandles, QueueReview, DeleteRow, SubmitVerification, UpsertVerification,
             CompleteOnboarding, UpsertProfile, VerifyNIN, LookupNin, OthersClaim, DropHand,
             StartReview, Decide, DropDesk
    <3>2. In({"holder", "claim"}) # {}
      BY <3>1 DEF ClaimNin, In
    <3> QED
      BY <2>1, <3>2 DEF PersonHolds
  <2>3. ASSUME name' # name
        PROVE  "names" \in raced
    <3>1. \E h \in Hands : UpsertProfile(h)
      BY <1>1, <2>3
         DEF Next, vars, person, Onboarding, Verification, LinkingHandler, UpdateProfile,
             LinkSocialMedia, Staff, Relink,
             WriteHandles, QueueReview, DeleteRow, SubmitVerification, UpsertVerification,
             CompleteOnboarding, VerifyNIN, LookupNin, ClaimNin, OthersClaim, DropHand,
             StartReview, Decide, DropDesk
    <3>2. In({"onboard"}) # {}
      BY <3>1 DEF UpsertProfile, In
    <3> QED
      BY <2>1, <3>2 DEF PersonHolds
  <2> QED
    BY <2>2, <2>3
<1>2. ProfileInv /\ [Next]_vars => [Kept]_vars
  BY <1>1
<1> QED
  BY <1>2, ProfileInvariant, PTL DEF Spec, IdentityIsKept

\* An approved handle is the linked one, but for the excuses that the property
\* names (queueAdminReviewForChangedSocialHandles).
THEOREM ApprovedLinked == Spec => []ApprovedIsLinked
<1>1. ProfileInv => ApprovedIsLinked
  BY DEF ProfileInv, HandlesHold, ApprovedIsLinked, Shown
<1> QED
  BY <1>1, ProfileInvariant, PTL

\* What staff decided on is what they read, unless it was submitted again
\* meanwhile (approve, reject).
THEOREM DecidedRead == Spec => []DecidedIsRead
<1>1. ProfileInv => DecidedIsRead
  BY DEF ProfileInv
<1> QED
  BY <1>1, ProfileInvariant, PTL

\* A decision stands until the user acts, unless two reviews overlapped
\* (getPendingOrThrow).
THEOREM DecisionsStand == Spec => DecisionStands
<1> DEFINE Stands == \A p \in Platforms \ contested' :
                        row[p].status \in {"VERIFIED", "REJECTED"} =>
                           row'[p].status \in {row[p].status, "PENDING", "NONE"}
<1>1. ASSUME ProfileInv, [Next]_vars
      PROVE  Stands
  <2>1. TypeOK /\ ReviewsHold
    BY <1>1 DEF ProfileInv
  <2>2. CASE row' = row
    BY <2>2
  <2>3. ASSUME NEW h \in Hands, NEW p \in Platforms, NEW x \in Handles \cup {NoHandle},
               Upsert(p, x)
        PROVE  Stands
    BY <2>1, <2>3, UpsertMoves
  <2>4. ASSUME NEW h \in Hands, NEW p \in Platforms, DeleteRow(h, p)
        PROVE  Stands
    BY <2>1, <2>4, DeleteMoves
  <2>5. ASSUME NEW d \in Desks, Decide(d)
        PROVE  Stands
    <3>1. UNCHANGED contested /\ desk[d] \in Review
      BY <2>1, <2>5 DEF Decide, TypeOK
    <3> PICK p \in Platforms : p = desk[d].platform
      BY <3>1, ReviewFields
    <3>2. /\ d \in ReviewsOf(p) /\ row[p].status # "NONE"
          /\ \A q \in Platforms : q # p => row'[q] = row[q]
      BY <2>1, <2>5, DecideMoves
    <3>3. p \notin contested => row[p].status = "PENDING"
      BY <2>1, <3>2 DEF ReviewsHold
    <3> QED
      BY <3>1, <3>2, <3>3
  <2>6. \/ row' = row
        \/ \E h \in Hands, p \in Platforms :
              \/ DeleteRow(h, p)
              \/ Upsert(p, hand[h].next[p])
        \/ \E d \in Desks : Decide(d)
    BY <1>1
       DEF Next, vars, Onboarding, Verification, LinkingHandler, UpdateProfile,
             LinkSocialMedia, Staff, Relink,
           WriteHandles, QueueReview, SubmitVerification, UpsertVerification,
           CompleteOnboarding, UpsertProfile, VerifyNIN, LookupNin, ClaimNin, OthersClaim,
           DropHand, StartReview, DropDesk
  <2>7. \A h \in Hands, p \in Platforms : hand[h].next[p] \in Handles \cup {NoHandle}
    BY <2>1, JobFields DEF TypeOK, Profiles
  <2> QED
    BY <2>2, <2>3, <2>4, <2>5, <2>6, <2>7
<1>2. ProfileInv /\ [Next]_vars => [Stands]_vars
  BY <1>1
<1> QED
  BY <1>2, ProfileInvariant, PTL DEF Spec, DecisionStands
=============================================================================
