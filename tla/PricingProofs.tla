--------------------------- MODULE PricingProofs ---------------------------
(***************************************************************************)
(* Rates, shares and quotes for every rate, fee, budget and headcount.      *)
(* First the arithmetic: rounding to kobo, and the quotient that turns a    *)
(* budget into places; then the campaign's row under overlapping updates.   *)
(***************************************************************************)
EXTENDS Pricing, TLAPS

-----------------------------------------------------------------------------
\* Arithmetic

\* What \div is.
LEMMA Quotient ==
    ASSUME NEW x \in Int, NEW d \in Nat \ {0}
    PROVE  /\ x \div d \in Int
           /\ d * (x \div d) <= x
           /\ x < d * (x \div d) + d
  OBVIOUS

\* Natural numbers have natural quotients.
LEMMA QuotientNat ==
    ASSUME NEW x \in Nat, NEW d \in Nat \ {0}
    PROVE  x \div d \in Nat
  OBVIOUS

\* Products of naturals are naturals.
LEMMA Product ==
    ASSUME NEW x \in Nat, NEW y \in Nat
    PROVE  x * y \in Nat
  OBVIOUS

\* Multiplying keeps the order.
LEMMA Monotone ==
    ASSUME NEW x \in Nat, NEW y \in Nat, NEW z \in Nat, x <= y
    PROVE  z * x <= z * y
  OBVIOUS

\* Math.round is off by half a unit at most.
LEMMA RoundBounds ==
    ASSUME NEW n \in Nat, NEW d \in Nat \ {0}
    PROVE  /\ Round(n, d) \in Nat
           /\ 2 * (d * Round(n, d)) <= 2 * n + d
           /\ 2 * n < 2 * (d * Round(n, d)) + d
<1> DEFINE D == 2 * d
           N == 2 * n + d
           q == Round(n, d)
<1>1. D \in Nat \ {0} /\ N \in Nat
  OBVIOUS
<1>2. q = N \div D
  BY DEF Round
<1>3. D = 2 * d /\ N = 2 * n + d
  OBVIOUS
<1> HIDE DEF D, N, q
<1>4. q \in Nat /\ D * q <= N /\ N < D * q + D
  BY <1>1, <1>2, Quotient, QuotientNat
<1>5. d * q \in Nat /\ D * q = 2 * (d * q)
  BY <1>3, <1>4, Product
<1>6. 2 * (d * q) <= 2 * n + d /\ 2 * n < 2 * (d * q) + d
  BY <1>1, <1>3, <1>4, <1>5
<1> QED
  BY <1>4, <1>6 DEF q

\* An even division is exact.
LEMMA RoundExact ==
    ASSUME NEW r \in Nat, NEW s \in Nat \ {0}
    PROVE  Round(r * s, s) = r
<1> DEFINE q == Round(r * s, s)
<1>1. r * s \in Nat
  OBVIOUS
<1>2. /\ q \in Nat
      /\ 2 * (s * q) <= 2 * (r * s) + s
      /\ 2 * (r * s) < 2 * (s * q) + s
  BY <1>1, RoundBounds
<1> HIDE DEF q
<1>3. s * q \in Nat
  BY <1>2
<1>4. CASE q > r
  <2>1. s * (r + 1) <= s * q
    BY <1>2, <1>4, Monotone
  <2>2. s * (r + 1) = r * s + s
    OBVIOUS
  <2> QED
    BY <1>1, <1>2, <1>3, <2>1, <2>2
<1>5. CASE q < r
  <2>1. s * (q + 1) <= s * r
    BY <1>2, <1>5, Monotone
  <2>2. s * (q + 1) = s * q + s /\ s * r = r * s
    BY <1>2
  <2> QED
    BY <1>1, <1>2, <1>3, <2>1, <2>2
<1> QED
  BY <1>2, <1>4, <1>5 DEF q

\* Every category in use has a rate of at least 120 naira.
LEMMA RateBounds ==
    ASSUME NEW c \in Categories, NEW k \in Contents
    PROVE  UnitRate(c, k) \in Nat /\ UnitRate(c, k) >= 12000
<1>1. CategoryAmount[c] \in Nat /\ CategoryAmount[c] >= 12000
  BY PricingAssumption DEF CategoryAmount
<1>2. Premium[k] \in Nat
  BY PricingAssumption DEF Premium
<1> QED
  BY <1>1, <1>2 DEF UnitRate

\* The headcount taken is within the limit.
LEMMA CountBounds ==
    ASSUME NEW n \in Nat \ {0}
    PROVE  Count(n) \in 1 .. MaxCount
  BY PricingAssumption DEF Count

\* The funded total is an amount.
LEMMA TotalNat ==
    ASSUME NEW p \in Nat, NEW f \in Nat
    PROVE  TotalBudget(p, f) \in Nat
<1>1. p * (100 + f) \in Nat
  BY Product
<1> QED
  BY <1>1, RoundBounds DEF TotalBudget

\* Shares rounded to kobo add up to the pool within half a kobo each.
LEMMA ShareBounds ==
    ASSUME NEW p \in Nat, NEW s \in Nat \ {0}
    PROVE  /\ Share(p, s) \in Nat
           /\ 2 * (s * Share(p, s) - p) \in -s .. s
<1>1. /\ Share(p, s) \in Nat
      /\ 2 * (s * Share(p, s)) <= 2 * p + s
      /\ 2 * p < 2 * (s * Share(p, s)) + s
  BY RoundBounds DEF Share
<1>2. s * Share(p, s) \in Nat
  BY <1>1, Product
<1> QED
  BY <1>1, <1>2

-----------------------------------------------------------------------------
\* Rows

\* The types of the fields of a row.
LEMMA RowFields ==
    ASSUME NEW r \in Row
    PROVE  /\ r.cat \in Categories /\ r.content \in Contents /\ r.slots \in 1 .. MaxCount
           /\ r.pool \in Nat /\ r.budget \in Nat /\ r.perTask \in Nat
           /\ r.fee \in Fees /\ r.fee \in Nat /\ r.slots \in Nat \ {0}
<1>1. /\ r.cat \in Categories /\ r.content \in Contents /\ r.slots \in 1 .. MaxCount
      /\ r.pool \in Nat /\ r.budget \in Nat /\ r.perTask \in Nat /\ r.fee \in Fees
  BY DEF Row
<1>2. r.slots \in Nat \ {0}
  BY <1>1, PricingAssumption
<1>3. r.fee \in Nat
  BY <1>1, PricingAssumption
<1> QED
  BY <1>1, <1>2, <1>3

\* A priced row is well formed, and its pool and budget fit what it asks for.
LEMMA PricedRow ==
    ASSUME NEW c \in Categories, NEW k \in Contents, NEW n \in Nat \ {0}, NEW f \in Fees
    PROVE  /\ Priced(c, k, n, f) \in Row
           /\ Rated(Priced(c, k, n, f)) /\ Funded(Priced(c, k, n, f))
           /\ Priced(c, k, n, f).cat = c /\ Priced(c, k, n, f).content = k
<1> DEFINE rate == UnitRate(c, k)
           slots == Count(n)
           pool == Pool(rate, slots)
           total == TotalBudget(pool, f)
<1>1. f \in Nat /\ slots \in 1 .. MaxCount /\ slots \in Nat /\ rate \in Nat
  BY PricingAssumption, CountBounds, RateBounds
<1>2. pool \in Nat
  BY <1>1, Product DEF Pool
<1>3. total \in Nat
  BY <1>1, <1>2, TotalNat
<1> HIDE DEF rate, slots, pool, total
<1>4. Priced(c, k, n, f) = [cat |-> c, content |-> k, slots |-> slots, pool |-> pool,
                            budget |-> total, perTask |-> rate, fee |-> f]
  BY DEF Priced, rate, slots, pool, total
<1>5. Priced(c, k, n, f) \in Row
  BY <1>1, <1>2, <1>3, <1>4 DEF Row
<1>6. pool = Pool(UnitRate(c, k), slots) /\ total = TotalBudget(pool, f)
  BY DEF pool, total, rate
<1> QED
  BY <1>4, <1>5, <1>6 DEF Rated, RatedFor, Funded

\* A legacy row is well formed and has no pool.
LEMMA LegacyRow ==
    ASSUME NEW c \in Categories, NEW k \in Contents, NEW n \in Nat \ {0},
           NEW b \in Nat, NEW f \in Fees
    PROVE  Legacy(c, k, n, b, f) \in Row /\ Legacy(c, k, n, b, f).pool = 0
  BY CountBounds DEF Legacy, Row

\* The amount shared out is a natural number.
LEMMA PoolNat ==
    ASSUME NEW r \in Row
    PROVE  (IF r.pool > 0 THEN r.pool ELSE r.budget) \in Nat
  BY RowFields

-----------------------------------------------------------------------------
\* Steps

\* An update is added to those in flight.
LEMMA BeginStep ==
    ASSUME PricingInv, NEW e \in Editors, NEW fields \in SUBSET Fields, NEW new \in Row,
           Begin(e, fields, new),
           \/ PriceFields \subseteq fields /\ Rated(new) /\ Funded(new)
           \/ fields = {"slots", "perTask"},
           "cat" \notin fields => new.cat = row.cat,
           "content" \notin fields => new.content \in {row.content, "NONE"},
           fields = {"slots", "perTask"} => new.slots = row.slots
    PROVE  PricingInv'
<1>1. /\ DOMAIN edit' = DOMAIN edit \cup {e}
      /\ edit'[e] = [fields |-> fields, new |-> new]
      /\ \A d \in DOMAIN edit : d # e /\ edit'[d] = edit[d]
      /\ UNCHANGED <<row, fee, asked>> /\ crossed' = (crossed \/ DOMAIN edit # {})
  BY DEF Begin
<1>2. edit'[e].fields = fields /\ edit'[e].new = new
  BY <1>1
<1>3. TypeOK'
  BY <1>1, <1>2 DEF PricingInv, TypeOK
<1>4. BudgetIsPoolPlusFee'
  BY <1>1 DEF PricingInv, BudgetIsPoolPlusFee
<1>5. EditsHold'
  BY <1>1, <1>2 DEF PricingInv, EditsHold
<1>6. ReadHolds'
  <2> SUFFICES ASSUME ~crossed'
               PROVE  ReadHolds'
    BY DEF ReadHolds
  <2>1. ~crossed /\ DOMAIN edit' = {e}
    BY <1>1
  <2> QED
    BY <1>1, <1>2, <2>1 DEF PricingInv, ReadHolds
<1> QED
  BY <1>3, <1>4, <1>5, <1>6 DEF PricingInv

\* A repricing update fits the row it has read.
LEMMA RepriceStep ==
    ASSUME PricingInv, NEW e \in Editors, NEW given \in SUBSET {"cat", "content"},
           NEW c \in Categories, NEW k \in Contents, NEW n \in Counts \cup {row.slots},
           Reprice(e, given, c, k, n)
    PROVE  PricingInv'
<1> DEFINE cat == IF "cat" \in given THEN c ELSE row.cat
           content == IF "content" \in given THEN k ELSE row.content
<1>1. /\ cat \in Categories /\ content \in Contents /\ n \in Nat \ {0} /\ fee \in Fees
      /\ "cat" \notin given => cat = row.cat
      /\ "content" \notin given => content = row.content
      /\ "content" \in given => content = k
  BY RowFields, PricingAssumption DEF PricingInv, TypeOK
<1>2. Written(given, k) \in SUBSET Fields /\ PriceFields \subseteq Written(given, k)
  BY DEF Fields, PriceFields, Written
<1>3. /\ "cat" \notin Written(given, k) => "cat" \notin given
      /\ "content" \notin Written(given, k) => "content" \notin given \/ k = "NONE"
      /\ Written(given, k) # {"slots", "perTask"}
  <2>1. "pool" \in PriceFields
    BY DEF Fields, PriceFields
  <2> QED
    BY <2>1 DEF Written
<1>4. Begin(e, Written(given, k), Priced(cat, content, n, fee))
  BY DEF Reprice
<1> HIDE DEF cat, content
<1>5. /\ Priced(cat, content, n, fee) \in Row
      /\ Rated(Priced(cat, content, n, fee)) /\ Funded(Priced(cat, content, n, fee))
      /\ Priced(cat, content, n, fee).cat = cat
      /\ Priced(cat, content, n, fee).content = content
  BY <1>1, PricedRow
<1> QED
  BY <1>1, <1>2, <1>3, <1>4, <1>5, BeginStep

\* An update of the audience only has read the headcount it writes.
LEMMA EditAudienceStep ==
    ASSUME PricingInv, NEW e \in Editors, EditAudience(e)
    PROVE  PricingInv'
<1> DEFINE pool == IF row.pool > 0 THEN row.pool ELSE row.budget
           share == Share(pool, row.slots)
           new == [row EXCEPT !.perTask = share]
<1>1. row \in Row
  BY DEF PricingInv, TypeOK
<1>2. Begin(e, {"slots", "perTask"}, new)
  BY DEF EditAudience
<1>3. pool \in Nat /\ row.slots \in Nat \ {0}
  BY <1>1, RowFields, PoolNat
<1>4. share \in Nat
  BY <1>3, ShareBounds
<1> HIDE DEF share
<1>5. /\ new \in Row /\ new.slots = row.slots
      /\ new.cat = row.cat /\ new.content = row.content
  BY <1>1, <1>4 DEF Row
<1> HIDE DEF new
<1>6. {"slots", "perTask"} \in SUBSET Fields
  BY DEF Fields
<1> QED
  BY <1>2, <1>5, <1>6, BeginStep

\* An update writes its fields.
LEMMA WriteStep ==
    ASSUME PricingInv, NEW e \in Editors, Write(e)
    PROVE  PricingInv'
<1> DEFINE u == edit[e]
<1>1. /\ e \in DOMAIN edit /\ DOMAIN edit' = DOMAIN edit \ {e}
      /\ \A d \in DOMAIN edit' : edit'[d] = edit[d]
      /\ fee' = fee /\ crossed' = crossed
      /\ asked' = IF PriceFields \subseteq u.fields THEN u.new.content ELSE asked
  BY DEF Write
<1>2. row \in Row /\ u.new \in Row /\ u.fields \subseteq Fields
  BY <1>1 DEF PricingInv, TypeOK
<1>3. row' = [f \in Fields |-> IF f \in u.fields THEN u.new[f] ELSE row[f]]
  BY DEF Write
<1>4. row' = [cat |-> IF "cat" \in u.fields THEN u.new.cat ELSE row.cat,
              content |-> IF "content" \in u.fields THEN u.new.content ELSE row.content,
              slots |-> IF "slots" \in u.fields THEN u.new.slots ELSE row.slots,
              pool |-> IF "pool" \in u.fields THEN u.new.pool ELSE row.pool,
              budget |-> IF "budget" \in u.fields THEN u.new.budget ELSE row.budget,
              perTask |-> IF "perTask" \in u.fields THEN u.new.perTask ELSE row.perTask,
              fee |-> IF "fee" \in u.fields THEN u.new.fee ELSE row.fee]
  BY <1>2, <1>3 DEF Row, Fields
<1>5. row' \in Row /\ asked' \in Contents
  BY <1>1, <1>2, <1>4, RowFields DEF Row, PricingInv, TypeOK
<1>6. TypeOK'
  BY <1>1, <1>5 DEF PricingInv, TypeOK
<1>7. EditsHold'
  BY <1>1 DEF PricingInv, EditsHold
<1>8. CASE PriceFields \subseteq u.fields /\ Rated(u.new) /\ Funded(u.new)
  <2>1. {"slots", "pool", "budget", "perTask", "fee"} \subseteq u.fields
    BY <1>8 DEF PriceFields, Fields
  <2>2. /\ row'.slots = u.new.slots /\ row'.pool = u.new.pool
        /\ row'.budget = u.new.budget /\ row'.fee = u.new.fee /\ asked' = u.new.content
    BY <1>1, <1>4, <1>8, <2>1
  <2>3. BudgetIsPoolPlusFee'
    BY <1>8, <2>2 DEF BudgetIsPoolPlusFee, Funded
  <2>4. ReadHolds'
    <3> SUFFICES ASSUME ~crossed
                 PROVE  ReadHolds'
      BY <1>1 DEF ReadHolds
    <3>1. DOMAIN edit' = {}
      BY <1>1 DEF PricingInv, ReadHolds
    <3>2. /\ "cat" \notin u.fields => u.new.cat = row.cat
          /\ "content" \notin u.fields => u.new.content \in {row.content, "NONE"}
      BY <1>1 DEF PricingInv, ReadHolds
    <3>3. row'.cat = u.new.cat /\ asked' \in {row'.content, "NONE"}
      BY <1>4, <2>2, <3>2
    <3>4. RatedFor(row', asked')
      BY <1>8, <2>2, <3>3 DEF Rated, RatedFor
    <3> QED
      BY <3>1, <3>3, <3>4 DEF ReadHolds
  <2> QED
    BY <1>6, <1>7, <2>3, <2>4 DEF PricingInv
<1>9. CASE u.fields = {"slots", "perTask"}
  <2>1. /\ row'.cat = row.cat /\ row'.content = row.content /\ row'.pool = row.pool
        /\ row'.budget = row.budget /\ row'.fee = row.fee /\ row'.slots = u.new.slots /\ asked' = asked
    <3>1. ~(PriceFields \subseteq u.fields)
      BY <1>9 DEF PriceFields, Fields
    <3> QED
      BY <1>1, <1>4, <1>9, <3>1
  <2>2. BudgetIsPoolPlusFee'
    BY <2>1 DEF PricingInv, BudgetIsPoolPlusFee
  <2>3. ReadHolds'
    <3> SUFFICES ASSUME ~crossed
                 PROVE  ReadHolds'
      BY <1>1 DEF ReadHolds
    <3>1. DOMAIN edit' = {}
      BY <1>1 DEF PricingInv, ReadHolds
    <3>2. u.new.slots = row.slots
      BY <1>1, <1>9 DEF PricingInv, ReadHolds
    <3>3. (row.pool > 0 => RatedFor(row, asked)) /\ asked \in {row.content, "NONE"}
      BY <1>1 DEF PricingInv, ReadHolds
    <3>4. row'.pool > 0 => RatedFor(row', asked')
      BY <2>1, <3>2, <3>3 DEF RatedFor
    <3> QED
      BY <2>1, <3>1, <3>3, <3>4 DEF ReadHolds
  <2> QED
    BY <1>6, <1>7, <2>2, <2>3 DEF PricingInv
<1> QED
  BY <1>1, <1>8, <1>9 DEF PricingInv, EditsHold

\* Campaigns are created priced, or are legacy.
LEMMA PricingInit == Init => PricingInv
<1> SUFFICES ASSUME Init
             PROVE  PricingInv
  OBVIOUS
<1>1. DOMAIN edit = {} /\ fee \in Fees /\ crossed = FALSE /\ asked = row.content
  BY DEF Init
<1>2. EditsHold
  BY <1>1 DEF EditsHold
<1>3. PICK c \in Categories, k \in Contents, n \in Counts :
         \/ row = Priced(c, k, n, fee)
         \/ \E b \in Budgets : row = Legacy(c, k, n, b, fee)
  BY DEF Init
<1>4. n \in Nat \ {0}
  BY PricingAssumption
<1>5. CASE row = Priced(c, k, n, fee)
  <2>1. row \in Row /\ Rated(row) /\ Funded(row) /\ row.content \in Contents
    BY <1>1, <1>4, <1>5, PricedRow, RowFields
  <2> QED
    BY <1>1, <1>2, <2>1
        DEF Rated, PricingInv, TypeOK, BudgetIsPoolPlusFee, Funded, ReadHolds
<1>6. ASSUME NEW b \in Budgets, row = Legacy(c, k, n, b, fee)
      PROVE  PricingInv
  <2>1. b \in Nat
    BY PricingAssumption
  <2>2. row \in Row /\ row.pool = 0
    BY <1>1, <1>4, <1>6, <2>1, LegacyRow
  <2>3. TypeOK
    BY <1>1, <2>2, RowFields DEF TypeOK
  <2>4. ~(row.pool > 0)
    BY <2>2
  <2>5. BudgetIsPoolPlusFee
    BY <2>4 DEF BudgetIsPoolPlusFee
  <2>6. ReadHolds
    BY <1>1, <2>4 DEF ReadHolds
  <2> QED
    BY <1>2, <2>3, <2>5, <2>6 DEF PricingInv
<1> QED
  BY <1>3, <1>5, <1>6

\* One case per action.
LEMMA PricingStep == PricingInv /\ [Next]_vars => PricingInv'
<1> SUFFICES ASSUME PricingInv, [Next]_vars
             PROVE  PricingInv'
  OBVIOUS
<1>1. ASSUME NEW f \in Fees, Configure(f)
      PROVE  PricingInv'
  BY <1>1 DEF Configure, PricingInv, TypeOK, BudgetIsPoolPlusFee, EditsHold, ReadHolds
<1>2. ASSUME NEW e \in Editors, Drop(e)
      PROVE  PricingInv'
  <2>1. /\ DOMAIN edit' = DOMAIN edit \ {e}
        /\ \A d \in DOMAIN edit' : edit'[d] = edit[d]
        /\ UNCHANGED <<row, fee, asked, crossed>>
    BY <1>2 DEF Drop
  <2> QED
    BY <2>1 DEF PricingInv, TypeOK, BudgetIsPoolPlusFee, EditsHold, ReadHolds
<1>3. CASE UNCHANGED vars
  BY <1>3 DEF vars, PricingInv, TypeOK, BudgetIsPoolPlusFee, EditsHold, ReadHolds
<1> QED
  BY <1>1, <1>2, <1>3, RepriceStep, EditAudienceStep, WriteStep DEF Next

-----------------------------------------------------------------------------
\* Theorems

\* The row is well formed, and every update in flight will keep it so.
THEOREM PricingInvariant == Spec => []PricingInv
<1> QED
  BY PricingInit, PricingStep, PTL DEF Spec

\* The campaign's row and the updates in flight keep their types.
THEOREM PricingTypes == Spec => []TypeOK
<1>1. PricingInv => TypeOK
  BY DEF PricingInv
<1> QED
  BY <1>1, PricingInvariant, PTL

\* Whatever updates overlap, the budget is that of the pool and fee it is stored
\* with (updateTask writes the price fields together).
THEOREM BudgetFitsPool == Spec => []BudgetIsPoolPlusFee
<1>1. PricingInv => BudgetIsPoolPlusFee
  BY DEF PricingInv
<1> QED
  BY <1>1, PricingInvariant, PTL

\* Edits one after the other leave every contributor the full locked rate of what the
\* campaign was last priced for.
LEMMA FullRateHolds == PricingInv => FullRate
<1> SUFFICES ASSUME PricingInv, ~crossed
             PROVE  /\ row.pool > 0 =>
                          Share(ContributorPool, row.slots) = UnitRate(row.cat, asked)
                    /\ asked \in {row.content, "NONE"}
  BY DEF FullRate
<1>1. /\ row.cat \in Categories /\ asked \in Contents /\ row.slots \in Nat \ {0}
      /\ asked \in {row.content, "NONE"}
  BY RowFields DEF PricingInv, TypeOK, ReadHolds
<1>2. ASSUME row.pool > 0
      PROVE  Share(ContributorPool, row.slots) = UnitRate(row.cat, asked)
  <2>1. ContributorPool = UnitRate(row.cat, asked) * row.slots
    BY <1>2 DEF PricingInv, ReadHolds, RatedFor, Pool, ContributorPool
  <2>2. UnitRate(row.cat, asked) \in Nat
    BY <1>1, RateBounds
  <2> QED
    BY <1>1, <2>1, <2>2, RoundExact DEF Share
<1> QED
  BY <1>1, <1>2

\* Unless updates overlapped, contributors get the locked rate in full of what the
\* campaign was last priced for: its own, or that of no content type at all when the
\* last update gave null (updateTask).
THEOREM FullRatePaid == Spec => []FullRate
<1> QED
  BY PricingInvariant, FullRateHolds, PTL

\* For every pool and headcount the shares add up to the pool within the rounding.
THEOREM SharesSum == Spec => []SharesAddUp
<1>1. ASSUME PricingInv
      PROVE  SharesAddUp
  <2>1. row \in Row
    BY <1>1 DEF PricingInv, TypeOK
  <2>2. ContributorPool \in Nat /\ row.slots \in Nat \ {0}
    BY <2>1, RowFields, PoolNat DEF ContributorPool
  <2> QED
    BY <2>2, ShareBounds DEF SharesAddUp
<1> QED
  BY <1>1, PricingInvariant, PTL

\* The places a budget buys, for every rate that is worth a naira: they are funded, unless
\* it is the one place a budget below the price of one is quoted, and two more are not.
LEMMA QuoteBounds ==
    ASSUME NEW r \in Nat, r >= 100, NEW f \in Nat, NEW b \in Nat \ {0},
           NEW n \in SlotsOfBudget(r, b, f)
    PROVE  /\ IF TotalBudget(Pool(r, 1), f) <= b
              THEN TotalBudget(Pool(r, n), f) <= b ELSE n = 1
           /\ TotalBudget(Pool(r, n + 2), f) > b
<1> DEFINE g == 100 + f
           price == r * g
           x == 100 * b
           q == x \div price
<1>1. g \in Nat /\ g >= 100 /\ x \in Nat /\ x = 100 * b
  OBVIOUS
<1>2. price = r * g /\ price \in Nat \ {0} /\ price >= 10000
  <2>1. r * 100 <= r * g
    BY <1>1, Monotone
  <2>2. price \in Nat
    BY <1>1, Product
  <2> QED
    BY <2>1, <2>2
<1>3. n \in {IF m < 1 THEN 1 ELSE m : m \in IF q * price = x THEN {q, q - 1} ELSE {q}}
  BY DEF SlotsOfBudget
<1>4. TotalBudget(Pool(r, n), f) = Round((r * n) * g, 100)
      /\ TotalBudget(Pool(r, n + 2), f) = Round((r * (n + 2)) * g, 100)
  BY DEF TotalBudget, Pool
<1>5. q = x \div price
  OBVIOUS
<1> HIDE DEF g, price, x, q
<1>6. q \in Nat /\ price * q <= x /\ x < price * q + price
  <2>1. x \in Nat /\ x \in Int /\ price \in Nat \ {0}
    BY <1>1, <1>2
  <2>2. /\ x \div price \in Nat /\ price * (x \div price) <= x
        /\ x < price * (x \div price) + price
    BY ONLY <2>1, Quotient, QuotientNat
  <2> QED
    BY ONLY <1>5, <2>2
<1>7. \/ n = IF q < 1 THEN 1 ELSE q
      \/ q * price = x /\ n = IF q - 1 < 1 THEN 1 ELSE q - 1
  <2>1. PICK m \in IF q * price = x THEN {q, q - 1} ELSE {q} : n = IF m < 1 THEN 1 ELSE m
    BY <1>3
  <2>2. m = q \/ (q * price = x /\ m = q - 1)
    BY <2>1
  <2> QED
    BY <2>1, <2>2
<1>8. price * q = q * price
  BY <1>2, <1>6
<1>9. /\ n \in Nat \ {0} /\ n >= q - 1 /\ (n > 1 => n <= q)
      /\ n >= q \/ price * q = x
  BY <1>6, <1>7, <1>8
<1>10. ASSUME NEW s \in Nat
       PROVE  /\ price * s \in Nat
              /\ Round((r * s) * g, 100) \in Nat
              /\ 200 * Round((r * s) * g, 100) <= 2 * (price * s) + 100
              /\ 2 * (price * s) < 200 * Round((r * s) * g, 100) + 100
  <2> DEFINE y == (r * s) * g
  <2>1. y = price * s
    BY <1>1, <1>2
  <2>2. price * s \in Nat
    BY <1>2, Product
  <2> HIDE DEF y
  <2>3. /\ Round(y, 100) \in Nat
        /\ 2 * (100 * Round(y, 100)) <= 2 * y + 100
        /\ 2 * y < 2 * (100 * Round(y, 100)) + 100
    <3>1. y \in Nat /\ 100 \in Nat \ {0}
      BY <2>1, <2>2
    <3> QED
      BY ONLY <3>1, RoundBounds
  <2>4. /\ Round(y, 100) \in Nat
        /\ 200 * Round(y, 100) <= 2 * (price * s) + 100
        /\ 2 * (price * s) < 200 * Round(y, 100) + 100
    BY <2>1, <2>2, <2>3
  <2> QED
    BY <2>2, <2>4 DEF y
<1>11. ASSUME n > 1
       PROVE  TotalBudget(Pool(r, n), f) <= b
  <2>1. price * n <= price * q
    BY <1>2, <1>6, <1>9, <1>11, Monotone
  <2>2. price * n \in Nat /\ price * q \in Nat
    BY <1>2, <1>6, <1>9, Product
  <2> QED
    BY <1>1, <1>4, <1>6, <1>9, <1>10, <2>1, <2>2
<1>12. TotalBudget(Pool(r, n + 2), f) > b
  <2>1. n + 2 \in Nat /\ price * q \in Nat
    BY <1>2, <1>6, <1>9, Product
  <2>2. price * (n + 2) >= x + price
    <3>1. CASE n >= q
      <4>1. price * (q + 2) <= price * (n + 2)
        BY <1>2, <1>6, <1>9, <3>1, Monotone
      <4>2. price * (q + 2) = price * q + 2 * price
        BY <1>2, <1>6
      <4> QED
        BY <1>1, <1>2, <1>6, <1>10, <2>1, <4>1, <4>2
    <3>2. CASE price * q = x
      <4>1. price * (q + 1) <= price * (n + 2)
        BY <1>2, <1>6, <1>9, Monotone
      <4>2. price * (q + 1) = price * q + price
        BY <1>2, <1>6
      <4> QED
        BY <1>1, <1>2, <3>2, <4>1, <4>2
    <3> QED
      BY <1>9, <3>1, <3>2
  <2>3. /\ price * (n + 2) \in Nat
        /\ Round((r * (n + 2)) * g, 100) \in Nat
        /\ 2 * (price * (n + 2)) < 200 * Round((r * (n + 2)) * g, 100) + 100
    BY <1>10, <2>1
  <2> QED
    BY <1>1, <1>2, <1>4, <2>2, <2>3
<1>13. ASSUME TotalBudget(Pool(r, 1), f) > b
       PROVE  n = 1
  <2>1. TotalBudget(Pool(r, 1), f) = Round((r * 1) * (100 + f), 100)
    BY DEF TotalBudget, Pool
  <2>2. price * 1 > x
    BY <1>1, <1>2, <1>10, <1>13, <2>1 DEF g
  <2>3. q = 0
    <3>1. ASSUME q # 0 PROVE FALSE
      <4>1. price * 1 <= price * q
        BY <1>2, <1>6, <3>1, Monotone
      <4> QED
        BY <1>1, <1>2, <1>6, <2>2, <4>1
    <3> QED
      BY <3>1
  <2> QED
    BY <1>7, <2>3
<1>14. TotalBudget(Pool(r, 1), f) \in Int
  BY Product, TotalNat DEF Pool
<1>15. n = 1 \/ n > 1
  BY <1>9
<1> QED
  BY <1>11, <1>12, <1>13, <1>14, <1>15

\* A quote for a budget that pays for a place never promises places it cannot fund, and a
\* smaller one is quoted exactly one (estimateTaskPricing).
THEOREM QuotesFunded == Spec => []QuotesAreFunded
<1>1. ASSUME PricingInv
      PROVE  QuotesAreFunded
  <2>1. row \in Row /\ fee \in Nat
    BY <1>1, PricingAssumption DEF PricingInv, TypeOK
  <2>2. UnitRate(row.cat, row.content) \in Nat /\ UnitRate(row.cat, row.content) >= 12000
    BY <2>1, RowFields, RateBounds
  <2>3. \A b \in Budgets : b \in Nat \ {0}
    BY PricingAssumption
  <2> QED
    BY <2>1, <2>2, <2>3, QuoteBounds DEF QuotesAreFunded
<1> QED
  BY <1>1, PricingInvariant, PTL

=============================================================================
