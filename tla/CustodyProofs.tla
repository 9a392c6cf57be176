---------------------------- MODULE CustodyProofs ----------------------------
(***************************************************************************)
(* Proofs about what is kept for others, in three parts.                     *)
(*                                                                         *)
(* The campaign reserve and the treasury (CampaignReserve, ThotTreasury):     *)
(* budgets are backed, the lifetime authority is finite, spending follows the *)
(* schedule, an acquisition is committed once, and a treasury that also       *)
(* governs a staking pool keeps both promises.                               *)
(*                                                                         *)
(* VaultAccounting, for any objects, calls, sizes and limits: what the        *)
(* provider has or may still accept is always charged, and each scope is      *)
(* charged what its rows add up to and never more than it is allowed.         *)
(*                                                                         *)
(* ReleaseRetention, for any listings, sales and workers: copies paid for     *)
(* with their listing's authorization stay, and when the record says that all *)
(* is deleted only copies of listings that failed before they had a row stay. *)
(***************************************************************************)
EXTENDS ThotTreasury, VaultAccounting, ReleaseRetention, SumTheorems, TLAPS

-----------------------------------------------------------------------------
(* Schedules.                                                              *)

(* A fraction with the same denominator grows with its numerator, and      *)
(* below one it never exceeds the whole.                                   *)
LEMMA FractionGrows ==
    ASSUME NEW d \in Nat \ {0}, NEW w \in Nat, NEW x \in Nat, NEW y \in Nat,
           x <= y, y <= d
    PROVE  /\ (w * x) \div d \in Nat
           /\ (w * x) \div d <= (w * y) \div d
           /\ (w * y) \div d <= w
<1>1. /\ w * x \in Nat /\ w * y \in Nat /\ w * d \in Nat
      /\ w * x <= w * y /\ w * y <= w * d
  OBVIOUS
<1>. DEFINE p == w * x
            q == w * y
            r == w * d
<1>. HIDE DEF p, q, r
<1>2. ASSUME NEW m \in Nat, NEW n \in Nat, m <= n
      PROVE  m \div d \in Nat /\ n \div d \in Nat /\ m \div d <= n \div d
  <2>. DEFINE e == m \div d
              f == n \div d
  <2>1. /\ e \in Nat /\ f \in Nat
        /\ d * e <= m /\ n < d * f + d
    OBVIOUS
  <2>. HIDE DEF e, f
  <2>2. SUFFICES ASSUME f < e PROVE FALSE
    BY <2>1 DEF e, f
  <2>3. d * (f + 1) <= d * e /\ d * (f + 1) = d * f + d
    BY <2>1, <2>2
  <2>4. d * e \in Nat /\ d * f \in Nat
    BY <2>1
  <2>. QED
    BY <1>2, <2>1, <2>3, <2>4
<1>3. (w * d) \div d = w
  OBVIOUS
<1>4. p \in Nat /\ q \in Nat /\ r \in Nat /\ p <= q /\ q <= r
  BY <1>1 DEF p, q, r
<1>5. p \div d \in Nat /\ p \div d <= q \div d /\ q \div d <= r \div d
  BY <1>2, <1>4
<1>. QED
  BY <1>3, <1>5 DEF p, q, r

(* What a created campaign is: its first tranche is part of its budget and *)
(* it ends after its start.                                                *)
WellFormed(k) == k.upfront <= k.budget /\ k.startAt < k.endAt

(* More is unlocked as time passes, and never more than the budget.        *)
LEMMA UnlockedGrows ==
    ASSUME NEW c, campaigns[c] \in CampaignType, WellFormed(campaigns[c]),
           now \in Nat, now' \in Nat, now <= now', campaigns'[c] = campaigns[c]
    PROVE  /\ unlockedBudget(c) \in Nat /\ unlockedBudget(c)' \in Nat
           /\ unlockedBudget(c) <= unlockedBudget(c)'
           /\ unlockedBudget(c) <= campaigns[c].budget
<1>. DEFINE k == campaigns[c]
            t == now
            u == now'
            w == k.budget - k.upfront
            d == k.endAt - k.startAt
<1>1. /\ k.budget \in Nat /\ k.upfront \in Nat /\ k.startAt \in Nat /\ k.endAt \in Nat
      /\ t \in Nat /\ u \in Nat /\ t <= u
      /\ w \in Nat /\ d \in Nat \ {0} /\ k.budget = k.upfront + w
  BY DEF CampaignType, WellFormed
<1>2. unlockedBudget(c) =
        IF t < k.startAt THEN 0 ELSE IF t >= k.endAt THEN k.budget
        ELSE k.upfront + (w * (t - k.startAt)) \div d
  BY DEF unlockedBudget
<1>3. unlockedBudget(c)' =
        IF u < k.startAt THEN 0 ELSE IF u >= k.endAt THEN k.budget
        ELSE k.upfront + (w * (u - k.startAt)) \div d
  BY DEF unlockedBudget
<1>4. ASSUME t >= k.startAt, t < k.endAt
      PROVE  /\ (w * (t - k.startAt)) \div d \in Nat
             /\ (w * (t - k.startAt)) \div d <= w
  <2>. DEFINE x == t - k.startAt
  <2>1. x \in Nat /\ x <= d
    BY <1>1, <1>4
  <2>3. (w * (t - k.startAt)) \div d = (w * x) \div d
    OBVIOUS
  <2>. HIDE DEF x, w, d, k
  <2>4. x \in Nat /\ x <= x /\ x <= d /\ d \in Nat \ {0} /\ w \in Nat
    BY <1>1, <2>1
  <2>2. (w * x) \div d \in Nat /\ (w * x) \div d <= w
    BY <2>4, FractionGrows, Zenon
  <2>. QED
    BY <2>2, <2>3, Zenon
<1>5. ASSUME t >= k.startAt, u < k.endAt
      PROVE  /\ (w * (t - k.startAt)) \div d <= (w * (u - k.startAt)) \div d
             /\ (w * (u - k.startAt)) \div d \in Nat
  <2>. DEFINE x == t - k.startAt
              y == u - k.startAt
  <2>1. x \in Nat /\ y \in Nat /\ x <= y /\ y <= d
    BY <1>1, <1>5
  <2>. HIDE DEF x, y, w, d, k
  <2>2. (w * x) \div d <= (w * y) \div d
    BY <1>1, <2>1, FractionGrows
  <2>3. (w * y) \div d \in Nat
    BY <1>1, <2>1, FractionGrows
  <2>. QED
    BY <2>2, <2>3 DEF x, y
<1>. DEFINE a == (w * (t - k.startAt)) \div d
            b == (w * (u - k.startAt)) \div d
<1>6. /\ t >= k.startAt /\ t < k.endAt => a \in Nat /\ a <= w
      /\ t >= k.startAt /\ u < k.endAt => a <= b /\ b \in Nat
  BY <1>4, <1>5
<1>7. /\ unlockedBudget(c) = IF t < k.startAt THEN 0 ELSE IF t >= k.endAt THEN k.budget
                             ELSE k.upfront + a
      /\ unlockedBudget(c)' = IF u < k.startAt THEN 0 ELSE IF u >= k.endAt THEN k.budget
                              ELSE k.upfront + b
  BY <1>2, <1>3
<1>. HIDE DEF a, b, w, d, t, u
<1>8. CASE t < k.startAt
  <2>1. unlockedBudget(c) = 0
    BY <1>7, <1>8
  <2>2. unlockedBudget(c)' \in Nat
    <3>1. u >= k.startAt /\ u < k.endAt => b \in Nat
      <4>1. SUFFICES ASSUME u >= k.startAt, u < k.endAt PROVE b \in Nat
        OBVIOUS
      <4>. DEFINE y == u - k.startAt
      <4>2. y \in Nat /\ y <= d
        BY <1>1, <4>1 DEF d
      <4>. HIDE DEF y
      <4>3. (w * y) \div d \in Nat
        BY <1>1, <4>2, FractionGrows
      <4>. QED
        BY <4>3 DEF y, b
    <3>. QED
      BY <1>1, <1>7, <3>1
  <2>. QED
    BY <1>1, <2>1, <2>2
<1>9. CASE t >= k.startAt /\ u < k.endAt
  BY <1>1, <1>6, <1>7, <1>9
<1>10. CASE t >= k.startAt /\ u >= k.endAt
  BY <1>1, <1>6, <1>7, <1>10
<1>. QED
  BY <1>1, <1>8, <1>9, <1>10

LEMMA UnlockedType ==
    ASSUME NEW c, campaigns[c] \in CampaignType, WellFormed(campaigns[c]), now \in Nat
    PROVE  unlockedBudget(c) \in Nat
<1>. DEFINE k == campaigns[c]
            w == k.budget - k.upfront
            d == k.endAt - k.startAt
            x == now - k.startAt
<1>1. /\ k.budget \in Nat /\ k.upfront \in Nat /\ k.startAt \in Nat /\ k.endAt \in Nat
      /\ w \in Nat /\ d \in Nat \ {0}
  BY DEF CampaignType, WellFormed
<1>2. unlockedBudget(c) = IF now < k.startAt THEN 0 ELSE IF now >= k.endAt THEN k.budget
                          ELSE k.upfront + (w * x) \div d
  BY DEF unlockedBudget
<1>3. CASE now >= k.startAt /\ now < k.endAt
  <2>1. x \in Nat /\ x <= d
    BY <1>1, <1>3
  <2>2. unlockedBudget(c) = k.upfront + (w * x) \div d
    BY <1>1, <1>2, <1>3
  <2>. HIDE DEF w, x, d, k
  <2>3. (w * x) \div d \in Nat
    BY <1>1, <2>1, FractionGrows
  <2>. QED
    BY <1>1, <2>2, <2>3
<1>4. CASE now < k.startAt \/ now >= k.endAt
  BY <1>1, <1>2, <1>4
<1>. QED
  BY <1>1, <1>3, <1>4

-----------------------------------------------------------------------------
(* The invariant.                                                          *)

AllWellFormed == \A c \in CampaignIds : Created(c) => WellFormed(campaigns[c])
NewAreBlank == \A c \in CampaignIds : ~Created(c) => campaigns[c] = NoCampaign

ReserveInv ==
    /\ ReserveTypeOK /\ AllWellFormed /\ NewAreBlank
    /\ AllocationsAreBacked /\ AuthorityIsFinite /\ SpendingFollowsSchedule

(* What may still be allocated is never more than what is free nor, in v2, *)
(* than the authority that is left.                                        *)
LEMMA AllocatableIsFree ==
    ASSUME ReserveInv, NEW b \in Nat, b > 0, b <= unallocatedBalance
    PROVE  /\ totalAllocated + b <= balance
           /\ ~Shared => totalGrossCommitted + totalAllocated + b <= RESERVE
BY ReserveAssumption
   DEF ReserveInv, ReserveTypeOK, AuthorityIsFinite, unallocatedBalance

LEMMA InitReserve == Init => ReserveInv
<1>. SUFFICES ASSUME Init PROVE ReserveInv
  OBVIOUS
<1>1. NoCampaign \in CampaignType /\ NoCampaign.committed = 0
  BY DEF NoCampaign, CampaignType
<1>2. ReserveTypeOK
  <2>1. MaxCampaigns \in Nat /\ Owners \subseteq People /\ FirstOperator \in People
    BY ReserveAssumption
  <2>2. authorizedBuyers \subseteq People
    BY <2>1 DEF Init
  <2>3. /\ campaigns \in [CampaignIds -> CampaignType]
        /\ acquisitionBuyer \in [Acquisitions -> People \cup {Nobody}]
        /\ acquisitionCampaign \in [Acquisitions -> CampaignIds \cup {0}]
        /\ held \in [Acquisitions -> Nat]
    BY <1>1 DEF Init
  <2>4. /\ now \in Nat
        /\ totalAllocated \in Nat /\ totalGrossCommitted \in Nat
        /\ balance \in Nat /\ credit \in Nat
    BY DEF Init
  <2>5. campaignCount \in 0 .. MaxCampaigns
    BY <2>1 DEF Init
  <2>6. operator \in People /\ paused \in BOOLEAN /\ bound \in BOOLEAN
    BY <2>1, Zenon DEF Init
  <2>. QED
    BY <2>2, <2>3, <2>4, <2>5, <2>6 DEF ReserveTypeOK
<1>3. AllWellFormed /\ NewAreBlank
  BY <1>1 DEF Init, AllWellFormed, NewAreBlank, Created, CampaignIds
<1>4. AllocationsAreBacked /\ AuthorityIsFinite
  BY ReserveAssumption DEF Init, AllocationsAreBacked, AuthorityIsFinite
<1>5. ASSUME NEW c \in CampaignIds PROVE campaigns[c].committed <= unlockedBudget(c)
  <2>1. campaigns[c] = NoCampaign /\ now = 1
    BY DEF Init
  <2>2. unlockedBudget(c) = 0
    BY <2>1 DEF unlockedBudget, NoCampaign
  <2>. QED
    BY <1>1, <2>1, <2>2
<1>. QED
  BY <1>2, <1>3, <1>4, <1>5 DEF ReserveInv, SpendingFollowsSchedule

(* The variables that no budget depends on.                                *)
RestTyped ==
    /\ paused \in BOOLEAN /\ bound \in BOOLEAN
    /\ operator \in People /\ authorizedBuyers \subseteq People
    /\ acquisitionBuyer \in [Acquisitions -> People \cup {Nobody}]
    /\ acquisitionCampaign \in [Acquisitions -> CampaignIds \cup {0}]
    /\ credit \in Nat
    /\ held \in [Acquisitions -> Nat]

LEMMA TypeParts ==
    ReserveTypeOK <=>
        /\ RestTyped /\ now \in Nat
        /\ campaigns \in [CampaignIds -> CampaignType]
        /\ campaignCount \in 0 .. MaxCampaigns
        /\ totalAllocated \in Nat /\ totalGrossCommitted \in Nat
        /\ balance \in Nat
BY DEF ReserveTypeOK, RestTyped

(* A step that spends nothing keeps the invariant, as long as no promised  *)
(* token leaves.                                                           *)
LEMMA SpendsNothing ==
    ASSUME ReserveInv, UNCHANGED <<now, campaigns, campaignCount, totalAllocated,
                                   totalGrossCommitted>>,
           RestTyped', balance' \in Nat, balance' >= balance \/ balance' >= totalAllocated
    PROVE  ReserveInv'
<1>1. ReserveTypeOK
  BY DEF ReserveInv
<1>2. /\ campaigns' \in [CampaignIds -> CampaignType] /\ now' \in Nat
      /\ campaignCount' \in 0 .. MaxCampaigns
      /\ totalAllocated' \in Nat /\ totalGrossCommitted' \in Nat
  BY <1>1, TypeParts
<1>3. ReserveTypeOK'
  BY <1>2 DEF ReserveTypeOK, RestTyped
<1>4. AllWellFormed' /\ NewAreBlank'
  BY DEF ReserveInv, AllWellFormed, NewAreBlank, Created, WellFormed
<1>5. AllocationsAreBacked' /\ AuthorityIsFinite'
  BY <1>1, TypeParts DEF ReserveInv, AllocationsAreBacked, AuthorityIsFinite
<1>6. SpendingFollowsSchedule'
  BY DEF ReserveInv, SpendingFollowsSchedule, unlockedBudget
<1>. QED
  BY <1>3, <1>4, <1>5, <1>6 DEF ReserveInv

LEMMA PeopleKeep ==
    ASSUME ReserveInv, NEW who \in People, NEW value \in BOOLEAN,
           bindMarket \/ setOperator(who) \/ setBuyer(who, value) \/ setPaused(value)
    PROVE  ReserveInv'
<1>1. ReserveTypeOK
  BY DEF ReserveInv
<1>2. /\ UNCHANGED <<now, campaigns, campaignCount, totalAllocated,
                     totalGrossCommitted>>
      /\ UNCHANGED <<acquisitionBuyer, acquisitionCampaign, credit, held, balance>>
  BY DEF bindMarket, setOperator, setBuyer, setPaused, spending, acquired, market
<1>3. /\ paused' \in BOOLEAN /\ bound' \in BOOLEAN
      /\ operator' \in People /\ authorizedBuyers' \subseteq People
  <2>1. CASE bindMarket
    BY <1>1, <2>1 DEF bindMarket, ReserveTypeOK
  <2>2. CASE setOperator(who)
    BY <1>1, <2>2 DEF setOperator, ReserveTypeOK
  <2>3. CASE setBuyer(who, value)
    BY <1>1, <2>3 DEF setBuyer, ReserveTypeOK
  <2>4. CASE setPaused(value)
    BY <1>1, <2>4 DEF setPaused, people, ReserveTypeOK
  <2>. QED
    BY <2>1, <2>2, <2>3, <2>4
<1>4. RestTyped' /\ balance' \in Nat /\ balance' >= balance
  BY <1>1, <1>2, <1>3 DEF ReserveTypeOK, RestTyped
<1>. QED
  BY <1>2, <1>4, SpendsNothing

(* Tokens that come in, at once or as a credit to collect.                 *)
LEMMA TokensComeIn ==
    ASSUME ReserveInv,
           UNCHANGED <<now, spending, paused, people, acquired>>,
           credit' \in Nat, held' \in [Acquisitions -> Nat],
           balance' \in Nat, balance' >= balance \/ balance' >= totalAllocated
    PROVE  ReserveInv'
<1>1. ReserveTypeOK
  BY DEF ReserveInv
<1>2. /\ UNCHANGED <<now, campaigns, campaignCount, totalAllocated,
                     totalGrossCommitted>>
      /\ UNCHANGED <<paused, operator, authorizedBuyers, bound,
                     acquisitionBuyer, acquisitionCampaign>>
  BY DEF spending, people, acquired
<1>3. RestTyped'
  BY <1>1, <1>2 DEF ReserveTypeOK, RestTyped
<1>. QED
  BY <1>2, <1>3, SpendsNothing

(* Refunds and sales reach the reserve as a credit it collects.            *)
LEMMA ReturnsKeep ==
    ASSUME ReserveInv, NEW who, NEW id \in Acquisitions, NEW amount \in Nat,
           cancelOffer(who, id) \/ marketEnds(id, amount)
    PROVE  ReserveInv'
<1>1. ReserveTypeOK /\ held[id] \in Nat
  BY DEF ReserveInv, ReserveTypeOK
<1>2. CASE cancelOffer(who, id)
  <2>1. /\ credit' \in Nat /\ held' \in [Acquisitions -> Nat]
        /\ balance' \in Nat /\ balance' >= balance
    BY <1>1, <1>2 DEF cancelOffer, ReserveTypeOK
  <2>. QED
    BY <1>2, <2>1, TokensComeIn DEF cancelOffer
<1>3. CASE marketEnds(id, amount)
  <2>1. /\ credit' \in Nat /\ held' \in [Acquisitions -> Nat]
        /\ balance' \in Nat /\ balance' >= balance
    BY <1>1, <1>3 DEF marketEnds, ReserveTypeOK
  <2>. QED
    BY <1>3, <2>1, TokensComeIn DEF marketEnds
<1>. QED
  BY <1>2, <1>3

LEMMA CollectKeeps == ASSUME ReserveInv, collectReturns PROVE ReserveInv'
<1>1. /\ credit' \in Nat /\ held' \in [Acquisitions -> Nat]
      /\ balance' \in Nat /\ balance' >= balance
  BY DEF ReserveInv, ReserveTypeOK, collectReturns
<1>. QED
  BY <1>1, TokensComeIn DEF collectReturns

LEMMA DonateKeeps == ASSUME ReserveInv, NEW amount \in Nat, donate(amount) PROVE ReserveInv'
<1>1. /\ credit' \in Nat /\ held' \in [Acquisitions -> Nat]
      /\ balance' \in Nat /\ balance' >= balance
  BY DEF ReserveInv, ReserveTypeOK, donate, market
<1>. QED
  BY <1>1, TokensComeIn DEF donate

(* Time only unlocks.                                                      *)
LEMMA TimeKeeps ==
    ASSUME ReserveInv, Tick
    PROVE  ReserveInv'
<1>1. ReserveTypeOK
  BY DEF ReserveInv
<1>2. /\ now \in Nat /\ now' \in Nat /\ now <= now'
      /\ UNCHANGED <<campaigns, campaignCount, totalAllocated,
                     totalGrossCommitted, balance>>
      /\ UNCHANGED <<paused, operator, authorizedBuyers, bound, acquisitionBuyer,
                     acquisitionCampaign, credit, held>>
  BY <1>1 DEF Tick, spending, people, acquired, market, ReserveTypeOK
<1>3. ReserveTypeOK'
  BY <1>1, <1>2 DEF ReserveTypeOK
<1>4. AllWellFormed' /\ NewAreBlank'
  BY <1>2 DEF ReserveInv, AllWellFormed, NewAreBlank, Created, WellFormed
<1>5. AllocationsAreBacked' /\ AuthorityIsFinite'
  BY <1>2 DEF ReserveInv, AllocationsAreBacked, AuthorityIsFinite
<1>6. ASSUME NEW c \in CampaignIds
      PROVE  campaigns'[c].committed <= unlockedBudget(c)'
  <2>1. campaigns[c] \in CampaignType /\ campaigns'[c] = campaigns[c]
    BY <1>1, <1>2 DEF ReserveTypeOK
  <2>2. campaigns[c].committed \in Nat
    BY <2>1 DEF CampaignType
  <2>3. CASE Created(c)
    <3>1. WellFormed(campaigns[c])
      BY <2>3 DEF ReserveInv, AllWellFormed
    <3>2. /\ unlockedBudget(c) \in Nat /\ unlockedBudget(c)' \in Nat
          /\ unlockedBudget(c) <= unlockedBudget(c)'
      BY <1>2, <2>1, <3>1, UnlockedGrows
    <3>3. campaigns[c].committed <= unlockedBudget(c)
      BY DEF ReserveInv, SpendingFollowsSchedule
    <3>. QED
      BY <2>1, <2>2, <3>2, <3>3
  <2>4. CASE ~Created(c)
    <3>1. campaigns'[c] = NoCampaign
      BY <2>1, <2>4 DEF ReserveInv, NewAreBlank
    <3>2. unlockedBudget(c)' = 0 /\ campaigns'[c].committed = 0
      BY <1>2, <3>1 DEF unlockedBudget, NoCampaign
    <3>. QED
      BY <3>2
  <2>. QED
    BY <2>3, <2>4
<1>. QED
  BY <1>3, <1>4, <1>5, <1>6 DEF ReserveInv, SpendingFollowsSchedule

LEMMA StutterKeeps == ASSUME ReserveInv, UNCHANGED vars PROVE ReserveInv'
<1>1. ReserveTypeOK
  BY DEF ReserveInv
<1>2. /\ UNCHANGED <<now, campaigns, campaignCount, totalAllocated,
                     totalGrossCommitted, balance>>
      /\ UNCHANGED <<paused, operator, authorizedBuyers, bound, acquisitionBuyer,
                     acquisitionCampaign, credit, held>>
  BY DEF vars, spending, people, acquired, market
<1>3. RestTyped' /\ balance' \in Nat /\ balance' >= balance
  BY <1>1, <1>2 DEF ReserveTypeOK, RestTyped
<1>. QED
  BY <1>2, <1>3, SpendsNothing

(* A new campaign takes its budget from what is free and, in v2, from what *)
(* is left of the authority.                                               *)
LEMMA CreateKeeps ==
    ASSUME ReserveInv, NEW b \in Nat, NEW start \in Nat, NEW d \in Nat \ {0},
           NEW u \in Nat, createCampaign(b, start, d, u)
    PROVE  ReserveInv'
<1>. DEFINE id == campaignCount + 1
            from == IF start = 0 THEN now ELSE start
            new == [NoCampaign EXCEPT !.budget = b, !.startAt = from,
                                      !.endAt = from + d, !.upfront = u]
<1>1. /\ id \in CampaignIds /\ b > 0 /\ u <= b /\ from >= now
      /\ b <= unallocatedBalance
      /\ campaignCount' = id
      /\ campaigns' = [campaigns EXCEPT ![id] = new]
      /\ totalAllocated' = totalAllocated + b
      /\ UNCHANGED <<now, totalGrossCommitted, balance>>
      /\ UNCHANGED <<paused, operator, authorizedBuyers, bound, acquisitionBuyer,
                     acquisitionCampaign, credit, held>>
  BY DEF createCampaign, people, acquired, market
<1>2. ReserveTypeOK
  BY DEF ReserveInv
<1>3. from \in Nat
  BY <1>2 DEF ReserveTypeOK
<1>. HIDE DEF from
<1>4. /\ new \in CampaignType /\ new.committed = 0
      /\ new.upfront = u /\ new.budget = b
      /\ new.startAt = from /\ new.endAt = from + d
  <2>1. NoCampaign \in CampaignType /\ NoCampaign.committed = 0
    BY DEF NoCampaign, CampaignType
  <2>2. from + d \in Nat
    BY <1>3
  <2>. QED
    BY <1>3, <2>1, <2>2 DEF CampaignType
<1>. HIDE DEF new
<1>5. campaigns' \in [CampaignIds -> CampaignType]
  BY <1>1, <1>2, <1>4 DEF ReserveTypeOK
<1>6. campaignCount' \in 0 .. MaxCampaigns
  BY <1>1 DEF CampaignIds
<1>7. totalAllocated' \in Nat
  BY <1>1, <1>2 DEF ReserveTypeOK
<1>8. ReserveTypeOK'
  BY <1>1, <1>2, <1>5, <1>6, <1>7 DEF ReserveTypeOK
<1>9. AllocationsAreBacked' /\ AuthorityIsFinite'
  <2>1. /\ totalAllocated + b <= balance
        /\ ~Shared => totalGrossCommitted + totalAllocated + b <= RESERVE
    BY <1>1, AllocatableIsFree
  <2>2. totalGrossCommitted + totalAllocated' = totalGrossCommitted + totalAllocated + b
    BY <1>1, <1>2 DEF ReserveTypeOK
  <2>. QED
    BY <1>1, <2>1, <2>2 DEF AllocationsAreBacked, AuthorityIsFinite
<1>10. \A c \in CampaignIds : campaigns'[c] = IF c = id THEN new ELSE campaigns[c]
  BY <1>1, <1>2 DEF ReserveTypeOK
<1>11. \A c \in CampaignIds : c # id => (Created(c)' <=> Created(c))
  BY <1>1, <1>2 DEF Created, CampaignIds, ReserveTypeOK
<1>12. WellFormed(new)
  BY <1>1, <1>3, <1>4 DEF WellFormed
<1>13. AllWellFormed'
  <2>1. ASSUME NEW c \in CampaignIds, Created(c)' PROVE WellFormed(campaigns'[c])
    BY <1>10, <1>11, <1>12, <2>1 DEF ReserveInv, AllWellFormed
  <2>. QED
    BY <2>1 DEF AllWellFormed, Created, WellFormed
<1>14. NewAreBlank'
  <2>1. ASSUME NEW c \in CampaignIds, ~Created(c)' PROVE campaigns'[c] = NoCampaign
    <3>1. c # id
      BY <1>1, <1>2, <2>1 DEF Created, CampaignIds, ReserveTypeOK
    <3>. QED
      BY <1>10, <1>11, <2>1, <3>1 DEF ReserveInv, NewAreBlank
  <2>. QED
    BY <2>1 DEF NewAreBlank, Created
<1>15. ASSUME NEW c \in CampaignIds PROVE campaigns'[c].committed <= unlockedBudget(c)'
  <2>1. CASE c = id
    <3>. DEFINE w == new.budget - new.upfront
                e == new.endAt - new.startAt
    <3>1. campaigns'[c] = new
      BY <1>10, <2>1
    <3>2. unlockedBudget(c)' = IF now < new.startAt THEN 0
                               ELSE IF now >= new.endAt THEN new.budget
                               ELSE new.upfront + (w * (now - new.startAt)) \div e
      BY <1>1, <3>1 DEF unlockedBudget
    <3>3. CASE now < from
      BY <1>4, <3>1, <3>2, <3>3
    <3>4. CASE now = from
      <4>1. w \in Nat /\ e \in Nat \ {0} /\ now - new.startAt = 0
        BY <1>1, <1>3, <1>4, <3>4
      <4>. HIDE DEF w, e
      <4>2. (w * (now - new.startAt)) \div e = 0
        BY <4>1
      <4>3. unlockedBudget(c)' = u \/ unlockedBudget(c)' = b
        BY <1>1, <1>3, <1>4, <3>2, <3>4, <4>2
      <4>. QED
        BY <1>4, <3>1, <4>3
    <3>. QED
      BY <1>1, <1>2, <1>3, <3>3, <3>4 DEF ReserveTypeOK
  <2>2. CASE c # id
    <3>1. campaigns'[c] = campaigns[c]
      BY <1>10, <2>2
    <3>2. unlockedBudget(c)' = unlockedBudget(c)
      BY <1>1, <3>1 DEF unlockedBudget
    <3>. QED
      BY <3>1, <3>2 DEF ReserveInv, SpendingFollowsSchedule
  <2>. QED
    BY <2>1, <2>2
<1>. QED
  BY <1>8, <1>9, <1>13, <1>14, <1>15 DEF ReserveInv, SpendingFollowsSchedule

(* A step on one existing campaign that keeps its schedule.                *)
Reschedules(c, k) ==
    /\ k \in CampaignType
    /\ k.budget = campaigns[c].budget /\ k.upfront = campaigns[c].upfront
    /\ k.startAt = campaigns[c].startAt /\ k.endAt = campaigns[c].endAt

LEMMA ScheduleKeeps ==
    ASSUME ReserveInv, NEW c \in CampaignIds, Created(c), NEW k,
           Reschedules(c, k), k.committed <= unlockedBudget(c),
           campaigns' = [campaigns EXCEPT ![c] = k],
           UNCHANGED <<now, campaignCount>>
    PROVE  /\ campaigns' \in [CampaignIds -> CampaignType]
           /\ AllWellFormed' /\ NewAreBlank' /\ SpendingFollowsSchedule'
<1>1. ReserveTypeOK
  BY DEF ReserveInv
<1>2. \A j \in CampaignIds : campaigns'[j] = IF j = c THEN k ELSE campaigns[j]
  BY <1>1 DEF ReserveTypeOK
<1>3. campaigns' \in [CampaignIds -> CampaignType]
  BY <1>1 DEF Reschedules, ReserveTypeOK
<1>4. \A j \in CampaignIds : Created(j)' <=> Created(j)
  BY DEF Created
<1>5. AllWellFormed'
  <2>1. ASSUME NEW j \in CampaignIds, Created(j) PROVE WellFormed(campaigns'[j])
    BY <1>2, <2>1 DEF ReserveInv, AllWellFormed, WellFormed, Reschedules
  <2>. QED
    BY <1>4, <2>1 DEF AllWellFormed, Created, WellFormed
<1>6. NewAreBlank'
  BY <1>2, <1>4 DEF ReserveInv, NewAreBlank, Created
<1>7. ASSUME NEW j \in CampaignIds
      PROVE  /\ unlockedBudget(j)' = unlockedBudget(j)
             /\ campaigns'[j].committed <= unlockedBudget(j)
  <2>1. CASE j = c
    <3>1. campaigns'[j] = k
      BY <1>2, <2>1
    <3>2. unlockedBudget(j)' = unlockedBudget(j)
      BY <2>1, <3>1 DEF unlockedBudget, Reschedules
    <3>. QED
      BY <2>1, <3>1, <3>2
  <2>2. CASE j # c
    <3>1. campaigns'[j] = campaigns[j]
      BY <1>2, <2>2
    <3>. QED
      BY <3>1 DEF ReserveInv, SpendingFollowsSchedule, unlockedBudget
  <2>. QED
    BY <2>1, <2>2
<1>. QED
  BY <1>3, <1>5, <1>6, <1>7 DEF SpendingFollowsSchedule

LEMMA CampaignPauseKeeps ==
    ASSUME ReserveInv, NEW c \in CampaignIds, NEW value \in BOOLEAN,
           setCampaignPaused(c, value)
    PROVE  ReserveInv'
<1>. DEFINE k == [campaigns[c] EXCEPT !.paused = value]
<1>1. /\ Created(c) /\ campaigns' = [campaigns EXCEPT ![c] = k]
      /\ UNCHANGED <<now, campaignCount, totalAllocated, totalGrossCommitted, balance>>
      /\ UNCHANGED <<paused, operator, authorizedBuyers, bound, acquisitionBuyer,
                     acquisitionCampaign, credit, held>>
  BY DEF setCampaignPaused, people, acquired, market
<1>2. ReserveTypeOK
  BY DEF ReserveInv
<1>3. campaigns[c] \in CampaignType
  BY <1>2 DEF ReserveTypeOK
<1>4. Reschedules(c, k) /\ k.committed = campaigns[c].committed
  BY <1>3 DEF Reschedules, CampaignType
<1>. HIDE DEF k
<1>5. k.committed <= unlockedBudget(c)
  BY <1>4 DEF ReserveInv, SpendingFollowsSchedule
<1>6. /\ campaigns' \in [CampaignIds -> CampaignType]
      /\ AllWellFormed' /\ NewAreBlank' /\ SpendingFollowsSchedule'
  BY <1>1, <1>4, <1>5, ScheduleKeeps
<1>7. ReserveTypeOK'
  BY <1>1, <1>2, <1>6 DEF ReserveTypeOK
<1>8. AllocationsAreBacked' /\ AuthorityIsFinite'
  BY <1>1 DEF ReserveInv, AllocationsAreBacked, AuthorityIsFinite
<1>. QED
  BY <1>6, <1>7, <1>8 DEF ReserveInv

(* Cancelled by governance or expired for anyone to close.                 *)
LEMMA CloseKeeps ==
    ASSUME ReserveInv, NEW c \in CampaignIds, _close(c)
    PROVE  ReserveInv'
<1>. DEFINE k == [campaigns[c] EXCEPT !.closed = TRUE]
            released == campaigns[c].budget - campaigns[c].committed
<1>1. /\ Created(c) /\ campaigns' = [campaigns EXCEPT ![c] = k]
      /\ released >= 0 /\ totalAllocated >= released
      /\ totalAllocated' = totalAllocated - released
      /\ UNCHANGED <<now, campaignCount, totalGrossCommitted, balance>>
      /\ UNCHANGED <<paused, operator, authorizedBuyers, bound, acquisitionBuyer,
                     acquisitionCampaign, credit, held>>
  BY DEF _close, people, acquired, market
<1>2. ReserveTypeOK
  BY DEF ReserveInv
<1>3. campaigns[c] \in CampaignType
  BY <1>2 DEF ReserveTypeOK
<1>4. Reschedules(c, k) /\ k.committed = campaigns[c].committed
  BY <1>3 DEF Reschedules, CampaignType
<1>5. released \in Nat
  BY <1>1, <1>3 DEF CampaignType
<1>. HIDE DEF k, released
<1>6. k.committed <= unlockedBudget(c)
  BY <1>4 DEF ReserveInv, SpendingFollowsSchedule
<1>7. /\ campaigns' \in [CampaignIds -> CampaignType]
      /\ AllWellFormed' /\ NewAreBlank' /\ SpendingFollowsSchedule'
  BY <1>1, <1>4, <1>6, ScheduleKeeps
<1>8. totalAllocated' \in Nat /\ totalAllocated' <= totalAllocated
  BY <1>1, <1>2, <1>5 DEF ReserveTypeOK
<1>9. ReserveTypeOK'
  BY <1>1, <1>2, <1>7, <1>8 DEF ReserveTypeOK
<1>10. AllocationsAreBacked' /\ AuthorityIsFinite'
  BY <1>1, <1>2, <1>8, ReserveAssumption
     DEF ReserveInv, AllocationsAreBacked, AuthorityIsFinite, ReserveTypeOK
<1>. QED
  BY <1>7, <1>9, <1>10 DEF ReserveInv

(* A purchase moves its price from what is promised to what is spent.      *)
LEMMA PurchaseKeeps ==
    ASSUME ReserveInv, NEW buyer \in People, NEW c \in CampaignIds,
           NEW id \in Acquisitions, NEW gross \in Nat, purchase(buyer, c, id, gross)
    PROVE  ReserveInv'
<1>. DEFINE k == [campaigns[c] EXCEPT !.committed = @ + gross]
<1>1. /\ gross > 0 /\ gross <= remainingAllowance(c) /\ totalAllocated >= gross
      /\ campaigns' = [campaigns EXCEPT ![c] = k]
      /\ totalAllocated' = totalAllocated - gross
      /\ totalGrossCommitted' = totalGrossCommitted + gross
      /\ acquisitionBuyer' = [acquisitionBuyer EXCEPT ![id] = buyer]
      /\ acquisitionCampaign' = [acquisitionCampaign EXCEPT ![id] = c]
      /\ balance' = balance - gross
      /\ held' = [held EXCEPT ![id] = gross]
      /\ UNCHANGED <<now, campaignCount, credit>>
      /\ UNCHANGED <<paused, operator, authorizedBuyers, bound>>
  BY DEF purchase, _commit, people
<1>2. ReserveTypeOK
  BY DEF ReserveInv
<1>3. campaigns[c] \in CampaignType /\ campaigns[c].committed \in Nat
  BY <1>2 DEF ReserveTypeOK, CampaignType
<1>4. Reschedules(c, k) /\ k.committed = campaigns[c].committed + gross
  <2>1. campaigns[c].committed + gross \in Nat
    BY <1>3
  <2>. QED
    BY <1>3, <2>1 DEF Reschedules, CampaignType
<1>. HIDE DEF k
<1>5. Created(c)
  BY <1>1 DEF remainingAllowance, Spendable
<1>6. k.committed <= unlockedBudget(c)
  <2>. DEFINE unlocked == unlockedBudget(c)
              left == unlocked - campaigns[c].committed
  <2>1. unlocked \in Nat
    <3>1. WellFormed(campaigns[c]) /\ now \in Nat
      BY <1>2, <1>5 DEF ReserveInv, AllWellFormed, ReserveTypeOK
    <3>. QED
      BY <1>3, <3>1, UnlockedType
  <2>2. remainingAllowance(c) = IF ~Spendable(c) \/ left <= 0 THEN 0
                                ELSE IF left > balance THEN balance ELSE left
    BY DEF remainingAllowance
  <2>. HIDE DEF unlocked
  <2>3. gross <= left
    BY <1>1, <1>2, <1>3, <2>1, <2>2 DEF ReserveTypeOK
  <2>4. k.committed <= unlocked
    BY <1>3, <1>4, <2>1, <2>3
  <2>. QED
    BY <2>4 DEF unlocked
<1>7. /\ campaigns' \in [CampaignIds -> CampaignType]
      /\ AllWellFormed' /\ NewAreBlank' /\ SpendingFollowsSchedule'
  BY <1>1, <1>4, <1>5, <1>6, ScheduleKeeps
<1>8. /\ totalAllocated' \in Nat /\ totalGrossCommitted' \in Nat
      /\ balance' \in Nat /\ balance' >= totalAllocated'
      /\ totalGrossCommitted' + totalAllocated' = totalGrossCommitted + totalAllocated
  <2>1. /\ totalAllocated \in Nat /\ totalGrossCommitted \in Nat /\ balance \in Nat
        /\ balance >= totalAllocated /\ totalAllocated >= gross
    BY <1>1, <1>2 DEF ReserveInv, ReserveTypeOK, AllocationsAreBacked
  <2>2. /\ totalAllocated' = totalAllocated - gross /\ balance' = balance - gross
        /\ totalGrossCommitted' = totalGrossCommitted + gross
    BY <1>1
  <2>. QED
    BY <2>1, <2>2
<1>9. /\ acquisitionBuyer' \in [Acquisitions -> People \cup {Nobody}]
      /\ acquisitionCampaign' \in [Acquisitions -> CampaignIds \cup {0}]
      /\ held' \in [Acquisitions -> Nat]
  BY <1>1, <1>2 DEF ReserveTypeOK
<1>10. ReserveTypeOK'
  BY <1>1, <1>2, <1>7, <1>8, <1>9 DEF ReserveTypeOK
<1>11. AllocationsAreBacked' /\ AuthorityIsFinite'
  BY <1>8 DEF ReserveInv, AllocationsAreBacked, AuthorityIsFinite
<1>. QED
  BY <1>7, <1>10, <1>11 DEF ReserveInv

LEMMA NextKeeps == ReserveInv /\ [Next]_vars => ReserveInv'
<1>. SUFFICES ASSUME ReserveInv, [Next]_vars PROVE ReserveInv'
  OBVIOUS
<1>. USE ReserveAssumption
<1>1. CASE Governing
  <2>1. ASSUME NEW b \in Budgets, NEW s \in 0 .. MaxTime, NEW d \in Durations,
               NEW u \in Upfronts, createCampaign(b, s, d, u)
        PROVE  ReserveInv'
    <3>1. b \in Nat /\ s \in Nat /\ d \in Nat \ {0} /\ u \in Nat
      OBVIOUS
    <3>. QED
      BY <2>1, <3>1, CreateKeeps
  <2>2. ASSUME NEW c \in CampaignIds, cancelCampaign(c) PROVE ReserveInv'
    BY <2>2, CloseKeeps DEF cancelCampaign
  <2>3. ASSUME NEW c \in CampaignIds, NEW value \in BOOLEAN, setCampaignPaused(c, value)
        PROVE  ReserveInv'
    BY <2>3, CampaignPauseKeeps
  <2>4. ASSUME bindMarket PROVE ReserveInv'
    BY <2>4, PeopleKeep
  <2>5. ASSUME NEW p \in People, NEW value \in BOOLEAN,
               setOperator(p) \/ setBuyer(p, value)
        PROVE  ReserveInv'
    BY <2>5, PeopleKeep
  <2>6. ASSUME NEW value \in BOOLEAN, setPaused(value) PROVE ReserveInv'
    BY <2>6, PeopleKeep
  <2>. QED
    BY <1>1, <2>1, <2>2, <2>3, <2>4, <2>5, <2>6 DEF Governing
<1>2. CASE Trading
  <2>1. ASSUME NEW p \in People, NEW c \in CampaignIds, NEW id \in Acquisitions,
               NEW g \in Grosses, purchase(p, c, id, g)
        PROVE  ReserveInv'
    BY <2>1, PurchaseKeeps
  <2>2. ASSUME NEW p, NEW id \in Acquisitions, cancelOffer(p, id) PROVE ReserveInv'
    BY <2>2, ReturnsKeep
  <2>3. ASSUME NEW id \in Acquisitions, NEW r \in 0 .. Supply, marketEnds(id, r)
        PROVE  ReserveInv'
    <3>1. r \in Nat
      OBVIOUS
    <3>. QED
      BY <2>3, <3>1, ReturnsKeep
  <2>4. ASSUME NEW c \in CampaignIds, expireCampaign(c) PROVE ReserveInv'
    BY <2>4, CloseKeeps DEF expireCampaign
  <2>5. ASSUME collectReturns PROVE ReserveInv'
    BY <2>5, CollectKeeps
  <2>. QED
    BY <1>2, <2>1, <2>2, <2>3, <2>4, <2>5 DEF Trading
<1>3. CASE Tick
  BY <1>3, TimeKeeps
<1>4. ASSUME NEW a \in Budgets, donate(a) PROVE ReserveInv'
  BY <1>4, DonateKeeps
<1>5. CASE UNCHANGED vars
  BY <1>5, StutterKeeps
<1>. QED
  BY <1>1, <1>2, <1>3, <1>4, <1>5 DEF Next

-----------------------------------------------------------------------------

LEMMA ReserveInvariant == Spec => []ReserveInv
BY InitReserve, NextKeeps, PTL DEF Spec

(* Every variable keeps its type: no counter ever goes below zero.         *)
THEOREM ReserveTypeCorrect == Spec => []ReserveTypeOK
BY ReserveInvariant, PTL DEF ReserveInv

(* What open campaigns may still spend is in the reserve, whatever is      *)
(* bought, returned, given, closed or promised, in any number of them.     *)
THEOREM AllocationsStayBacked == Spec => []AllocationsAreBacked
BY ReserveInvariant, PTL DEF ReserveInv

(* The reserve never allocates and spends more than RESERVE in its life,   *)
(* however often purchases come back and gifts arrive.                     *)
THEOREM AuthorityStaysFinite == Spec => []AuthorityIsFinite
BY ReserveInvariant, PTL DEF ReserveInv

(* No campaign is ever ahead of its schedule, through rounding, pauses and *)
(* any purchases.                                                          *)
THEOREM SpendingStaysOnSchedule == Spec => []SpendingFollowsSchedule
BY ReserveInvariant, PTL DEF ReserveInv

(* The campaign of an acquisition, and the buyer who may cancel it, never  *)
(* change: no purchase is committed twice under one id.                    *)
Final == \A id \in Acquisitions : acquisitionCampaign[id] # 0 =>
            /\ acquisitionCampaign'[id] = acquisitionCampaign[id]
            /\ acquisitionBuyer'[id] = acquisitionBuyer[id]

LEMMA StepsAreFinal == ReserveInv /\ [Next]_vars => Final
<1>. SUFFICES ASSUME ReserveInv, [Next]_vars PROVE Final
  OBVIOUS
<1>1. ASSUME NEW p \in People, NEW c \in CampaignIds, NEW id \in Acquisitions,
             NEW g \in Grosses, purchase(p, c, id, g)
      PROVE  Final
  <2>1. /\ acquisitionCampaign[id] = 0
        /\ acquisitionBuyer' = [acquisitionBuyer EXCEPT ![id] = p]
        /\ acquisitionCampaign' = [acquisitionCampaign EXCEPT ![id] = c]
    BY <1>1 DEF purchase, _commit
  <2>2. /\ acquisitionBuyer \in [Acquisitions -> People \cup {Nobody}]
        /\ acquisitionCampaign \in [Acquisitions -> CampaignIds \cup {0}]
    BY DEF ReserveInv, ReserveTypeOK
  <2>. QED
    BY <2>1, <2>2 DEF Final
<1>2. ASSUME UNCHANGED acquired PROVE Final
  BY <1>2 DEF Final, acquired
<1>3. CASE Governing
  <2>1. UNCHANGED acquired
    BY <1>3 DEF Governing, bindMarket, createCampaign, cancelCampaign, _close,
                setCampaignPaused, setOperator, setBuyer, setPaused
  <2>. QED
    BY <1>2, <2>1
<1>4. CASE Trading
  <2>1. \/ UNCHANGED acquired
        \/ \E p \in People, c \in CampaignIds, id \in Acquisitions, g \in Grosses :
              purchase(p, c, id, g)
    BY <1>4 DEF Trading, cancelOffer, marketEnds, expireCampaign, _close, collectReturns
  <2>. QED
    BY <1>1, <1>2, <2>1
<1>5. CASE Tick
  BY <1>2, <1>5 DEF Tick
<1>6. ASSUME NEW a, donate(a) PROVE Final
  BY <1>2, <1>6 DEF donate
<1>7. CASE UNCHANGED vars
  BY <1>2, <1>7 DEF vars
<1>. QED
  BY <1>3, <1>4, <1>5, <1>6, <1>7 DEF Next

(* An acquisition is committed at most once.                               *)
THEOREM AcquisitionsStayFinal == Spec => AcquisitionsAreFinal
<1>1. ReserveInv /\ [Next]_vars => [Final]_vars
  BY StepsAreFinal
<1>2. Spec => [][Final]_vars
  BY <1>1, ReserveInvariant, PTL DEF Spec
<1>. QED
  BY <1>2 DEF AcquisitionsAreFinal, Final

(* Campaigns only ever spend what governance authorised: on schedule, within *)
(* the lifetime authority, from tokens that are there, once for each          *)
(* acquisition (purchase, _close, unallocatedBalance).                        *)
THEOREM SpendingStaysAuthorized == Spec => SpendingIsAuthorized
BY AllocationsStayBacked, AuthorityStaysFinite, SpendingStaysOnSchedule,
   AcquisitionsStayFinal, PTL DEF SpendingIsAuthorized

-----------------------------------------------------------------------------
(* The treasury.  What is proved of a staking pool carries over to the one *)
(* the treasury governs, once each of its steps is one of the pool's.      *)

PoolProofs == INSTANCE StakingPoolProofs WITH
    Owners <- Stakers, MaxCampaigns <- MaxStakingCampaigns,
    campaigns <- poolCampaigns, campaignCount <- poolCampaignCount,
    balance <- poolBalance

LEMMA PoolConstants == PoolProofs!PoolAssumption
BY ReserveAssumption, TreasuryAssumption DEF PoolProofs!PoolAssumption

StakersCanClaim ==
    \A p \in Pool!Unclaimed : now >= positions[p].unlockAt => Pool!MayClaim(p)

(* The pool of the treasury is the pool of the theorems.                   *)
LEMMA SamePool ==
    /\ Pool!Init <=> PoolProofs!Init
    /\ [Pool!Next]_(Pool!vars) => [PoolProofs!Next]_(PoolProofs!vars)
    /\ PoolProofs!MaturedAreClaimable => StakersCanClaim
<1>1. Pool!Init <=> PoolProofs!Init
  BY DEF Pool!Init, PoolProofs!Init, Pool!CampaignIds, PoolProofs!CampaignIds,
         Pool!PositionIds, PoolProofs!PositionIds, Pool!NoCampaign, PoolProofs!NoCampaign,
         Pool!NoStake, PoolProofs!NoStake, Pool!NoOwner, PoolProofs!NoOwner
<1>2. [Pool!Next]_(Pool!vars) => [PoolProofs!Next]_(PoolProofs!vars)
  BY DEF Pool!Next, PoolProofs!Next, Pool!vars, PoolProofs!vars,
         Pool!Participating, PoolProofs!Participating, Pool!Governing, PoolProofs!Governing,
         Pool!Tick, PoolProofs!Tick, Pool!fund, PoolProofs!fund,
         Pool!closeCampaign, PoolProofs!closeCampaign, Pool!MayClose, PoolProofs!MayClose,
         Pool!stake, PoolProofs!stake, Pool!Admits, PoolProofs!Admits,
         Pool!claim, PoolProofs!claim, Pool!MayClaim, PoolProofs!MayClaim,
         Pool!RemoveActive, PoolProofs!RemoveActive,
         Pool!createCampaign, PoolProofs!createCampaign, Pool!BudgetCovers, PoolProofs!BudgetCovers,
         Pool!ValidTerms, PoolProofs!ValidTerms, Pool!rewardFor, PoolProofs!rewardFor,
         Pool!setAdmissionsPaused, PoolProofs!setAdmissionsPaused,
         Pool!recoverFreeTokens, PoolProofs!recoverFreeTokens, Pool!Solvent, PoolProofs!Solvent,
         Pool!protectedBalance, PoolProofs!protectedBalance, Pool!Created, PoolProofs!Created,
         Pool!CampaignIds, PoolProofs!CampaignIds, Pool!PositionIds, PoolProofs!PositionIds,
         Pool!NoCampaign, PoolProofs!NoCampaign, Pool!NoOwner, PoolProofs!NoOwner,
         Pool!totals, PoolProofs!totals, Pool!members, PoolProofs!members
<1>3. PoolProofs!MaturedAreClaimable => StakersCanClaim
  BY DEF StakersCanClaim, PoolProofs!MaturedAreClaimable,
         Pool!Unclaimed, PoolProofs!Unclaimed, Pool!MayClaim, PoolProofs!MayClaim,
         Pool!Solvent, PoolProofs!Solvent,
         Pool!protectedBalance, PoolProofs!protectedBalance,
         Pool!PositionIds, PoolProofs!PositionIds
<1>. QED
  BY <1>1, <1>2, <1>3

(* Beyond the principal the pool never holds more than was ever given, and *)
(* gifts are bounded: what is free to recover is too.                      *)
GiftsAreBounded == poolBalance - totalPrincipal <= MaxFunds

LEMMA PoolValues ==
    ASSUME PoolProofs!PoolInv
    PROVE  /\ totalPrincipal \in Nat /\ totalRewardLiability \in Nat
           /\ totalUnallocatedRewards \in Nat /\ poolBalance \in Nat
           /\ poolBalance >= Pool!protectedBalance
           /\ Pool!protectedBalance = totalPrincipal + totalRewardLiability + totalUnallocatedRewards
           /\ \A c \in Pool!CampaignIds : poolCampaigns[c].unallocatedReward \in Nat
           /\ \A p \in Pool!PositionIds : positions[p].reward \in Nat /\ positions[p].principal \in Nat
<1>1. PoolProofs!PoolTypeOK /\ PoolProofs!Solvent
  BY DEF PoolProofs!PoolInv, PoolProofs!PoolIsSolvent
<1>2. Pool!CampaignIds = PoolProofs!CampaignIds /\ Pool!PositionIds = PoolProofs!PositionIds
  BY DEF Pool!CampaignIds, PoolProofs!CampaignIds, Pool!PositionIds, PoolProofs!PositionIds
<1>3. /\ totalPrincipal \in Nat /\ totalRewardLiability \in Nat
      /\ totalUnallocatedRewards \in Nat /\ poolBalance \in Nat
      /\ poolCampaigns \in [PoolProofs!CampaignIds -> PoolProofs!CampaignType]
      /\ positions \in [PoolProofs!PositionIds -> PoolProofs!PositionType]
  BY <1>1 DEF PoolProofs!PoolTypeOK
<1>4. poolBalance >= Pool!protectedBalance
  BY <1>1 DEF PoolProofs!Solvent, PoolProofs!protectedBalance, Pool!protectedBalance
<1>5. \A c \in Pool!CampaignIds : poolCampaigns[c].unallocatedReward \in Nat
  BY <1>2, <1>3 DEF PoolProofs!CampaignType
<1>6. \A p \in Pool!PositionIds : positions[p].reward \in Nat /\ positions[p].principal \in Nat
  BY <1>2, <1>3 DEF PoolProofs!PositionType
<1>. QED
  BY <1>3, <1>4, <1>5, <1>6 DEF Pool!protectedBalance

LEMMA GiftsStayBounded ==
    ASSUME PoolProofs!PoolInv, GiftsAreBounded, [Pool!Next]_(Pool!vars)
    PROVE  GiftsAreBounded'
<1>0. /\ totalPrincipal \in Nat /\ poolBalance \in Nat /\ MaxFunds \in Nat
      /\ Budgets \subseteq Nat /\ Amounts \subseteq Nat
      /\ \A p \in Pool!PositionIds : positions[p].reward \in Nat /\ positions[p].principal \in Nat
  BY PoolValues, TreasuryAssumption, ReserveAssumption
<1>1. CASE Pool!Participating
  <2>1. ASSUME NEW c \in Pool!CampaignIds, Pool!closeCampaign(c, FALSE, 0)
        PROVE  GiftsAreBounded'
    BY <1>0, <2>1 DEF Pool!closeCampaign, GiftsAreBounded
  <2>2. ASSUME NEW o \in Stakers, NEW c \in Pool!CampaignIds, NEW a \in Amounts,
               NEW t, Pool!stake(o, c, t, a)
        PROVE  GiftsAreBounded'
    <3>1. a \in Nat /\ totalPrincipal' = totalPrincipal + a /\ poolBalance' = poolBalance + a
      BY <1>0, <2>2 DEF Pool!stake
    <3>. QED
      BY <1>0, <3>1 DEF GiftsAreBounded
  <2>3. ASSUME NEW p \in Pool!PositionIds, Pool!claim(p)
        PROVE  GiftsAreBounded'
    <3>1. /\ totalPrincipal' = totalPrincipal - positions[p].principal
          /\ poolBalance' = poolBalance - (positions[p].principal + positions[p].reward)
      BY <2>3 DEF Pool!claim
    <3>. QED
      BY <1>0, <3>1 DEF GiftsAreBounded
  <2>. QED
    BY <1>1, <2>1, <2>2, <2>3 DEF Pool!Participating
<1>2. CASE Pool!Governing
  <2>1. ASSUME NEW s, NEW e, NEW cap, NEW b \in Budgets, NEW m, NEW carried \in {0, b},
               poolBalance + carried <= MaxFunds,
               Pool!createCampaign(s, e, cap, b, m, carried)
        PROVE  GiftsAreBounded'
    <3>1. poolBalance' = poolBalance + carried /\ totalPrincipal' = totalPrincipal
      BY <2>1 DEF Pool!createCampaign
    <3>. QED
      BY <1>0, <2>1, <3>1 DEF GiftsAreBounded
  <2>2. ASSUME NEW c, NEW recovered \in 0 .. MaxFunds, Pool!closeCampaign(c, TRUE, recovered)
        PROVE  GiftsAreBounded'
    BY <1>0, <2>2 DEF Pool!closeCampaign, GiftsAreBounded
  <2>3. ASSUME NEW c, NEW value, Pool!setAdmissionsPaused(c, value)
        PROVE  GiftsAreBounded'
    BY <2>3 DEF Pool!setAdmissionsPaused, Pool!totals, GiftsAreBounded
  <2>4. ASSUME NEW a \in 1 .. MaxFunds, Pool!recoverFreeTokens(a)
        PROVE  GiftsAreBounded'
    BY <1>0, <2>4 DEF Pool!recoverFreeTokens, Pool!totals, GiftsAreBounded
  <2>. QED
    BY <1>2, <2>1, <2>2, <2>3, <2>4 DEF Pool!Governing
<1>3. CASE Pool!Tick
  BY <1>3 DEF Pool!Tick, Pool!totals, GiftsAreBounded
<1>4. ASSUME NEW a \in Budgets, poolBalance + a <= MaxFunds, Pool!fund(a)
      PROVE  GiftsAreBounded'
  BY <1>0, <1>4 DEF Pool!fund, Pool!totals, GiftsAreBounded
<1>5. CASE UNCHANGED Pool!vars
  BY <1>5 DEF Pool!vars, Pool!totals, GiftsAreBounded
<1>. QED
  BY <1>1, <1>2, <1>3, <1>4, <1>5 DEF Pool!Next

(* Each call on the treasury is a call on its pool, or leaves it alone.    *)
LEMMA TreasuryStepsAreThePools ==
    ASSUME ReserveInv, PoolProofs!PoolInv, GiftsAreBounded, [TreasuryNext]_treasuryVars
    PROVE  [Pool!Next]_(Pool!vars)
<1>0. /\ totalPrincipal \in Nat /\ totalRewardLiability \in Nat
      /\ totalUnallocatedRewards \in Nat /\ poolBalance \in Nat
      /\ poolBalance >= Pool!protectedBalance
      /\ Pool!protectedBalance = totalPrincipal + totalRewardLiability + totalUnallocatedRewards
      /\ balance \in Nat /\ credit \in Nat
      /\ MaxFunds \in Nat /\ Budgets \subseteq Nat
  BY PoolValues, TreasuryAssumption, ReserveAssumption DEF ReserveInv, ReserveTypeOK
<1>1. ASSUME UNCHANGED <<now, pool>> PROVE UNCHANGED Pool!vars
  BY <1>1 DEF pool, Pool!vars, Pool!members, Pool!totals
<1>2. CASE StakingGovernance
  <2>1. CASE bindStakingPool
    BY <1>1, <2>1 DEF bindStakingPool
  <2>2. CASE collectFreeStakingBudget
    <3>. DEFINE free == poolBalance - Pool!protectedBalance
    <3>1. Pool!recoverFreeTokens(free)
      BY <2>2 DEF collectFreeStakingBudget
    <3>2. free > 0
      BY <3>1 DEF Pool!recoverFreeTokens
    <3>3. free \in 1 .. MaxFunds
      BY <1>0, <3>2 DEF GiftsAreBounded
    <3>. HIDE DEF free
    <3>. QED
      BY <3>1, <3>3 DEF Pool!Next, Pool!Governing
  <2>3. ASSUME NEW s \in Times, NEW e \in Times, NEW cap \in Caps, NEW b \in Budgets,
               NEW m \in Menus, poolBalance + b <= MaxFunds,
               createStakingCampaign(s, e, cap, b, m)
        PROVE  Pool!Next
    <3>1. Pool!createCampaign(s, e, cap, b, m, b)
      BY <2>3 DEF createStakingCampaign
    <3>. QED
      BY <2>3, <3>1 DEF Pool!Next, Pool!Governing
  <2>4. ASSUME NEW c \in Pool!CampaignIds, closeStakingCampaign(c)
        PROVE  Pool!Next
    <3>. DEFINE free == poolBalance - Pool!protectedBalance + poolCampaigns[c].unallocatedReward
    <3>1. free >= 0 /\ Pool!closeCampaign(c, TRUE, free)
      BY <2>4 DEF closeStakingCampaign
    <3>2. poolCampaigns[c].unallocatedReward \in Nat
      BY PoolValues
    <3>3. totalUnallocatedRewards >= poolCampaigns[c].unallocatedReward
      BY <3>1 DEF Pool!closeCampaign
    <3>4. free \in 0 .. MaxFunds
      BY <1>0, <3>1, <3>2, <3>3 DEF GiftsAreBounded
    <3>. HIDE DEF free
    <3>. QED
      BY <3>1, <3>4 DEF Pool!Next, Pool!Governing
  <2>5. ASSUME NEW c \in Pool!CampaignIds, NEW value \in BOOLEAN,
               setStakingAdmissionsPaused(c, value)
        PROVE  Pool!Next
    BY <2>5 DEF setStakingAdmissionsPaused, Pool!Next, Pool!Governing
  <2>. QED
    BY <1>2, <2>1, <2>2, <2>3, <2>4, <2>5 DEF StakingGovernance
<1>3. CASE Staking
  <2>1. CASE Pool!Participating
    BY <2>1 DEF Pool!Next
  <2>2. ASSUME NEW a \in Budgets, balance + credit + poolBalance + a <= MaxFunds, Pool!fund(a)
        PROVE  Pool!Next
    <3>1. poolBalance + a <= MaxFunds
      BY <1>0, <2>2
    <3>. QED
      BY <2>2, <3>1 DEF Pool!Next
  <2>. QED
    BY <1>3, <2>1, <2>2 DEF Staking
<1>4. CASE Acquiring
  <2>1. now' = now
    <3>1. CASE Governing
      BY <3>1 DEF Governing, bindMarket, createCampaign, cancelCampaign, _close,
                  setCampaignPaused, setOperator, setBuyer, setPaused
    <3>2. CASE Trading
      BY <3>2 DEF Trading, purchase, cancelOffer, marketEnds, expireCampaign, _close,
                  collectReturns
    <3>. QED
      BY <1>4, <3>1, <3>2 DEF Acquiring, donate
  <2>. QED
    BY <1>1, <1>4, <2>1 DEF Acquiring
<1>5. CASE TreasuryTick
  BY <1>5 DEF TreasuryTick, Tick, Pool!Next, Pool!Tick, pool, Pool!members, Pool!totals
<1>6. CASE UNCHANGED treasuryVars
  BY <1>1, <1>6 DEF treasuryVars
<1>. QED
  BY <1>2, <1>3, <1>4, <1>5, <1>6 DEF TreasuryNext

(* Each call leaves the reserve's books sound: a staking budget is taken   *)
(* from what may be allocated, and what the pool gives back comes in.      *)
LEMMA TreasuryKeepsReserve ==
    ASSUME ReserveInv, PoolProofs!PoolInv, [TreasuryNext]_treasuryVars
    PROVE  ReserveInv'
<1>0. /\ totalPrincipal \in Nat /\ totalRewardLiability \in Nat
      /\ totalUnallocatedRewards \in Nat /\ poolBalance \in Nat
      /\ poolBalance >= Pool!protectedBalance
      /\ Pool!protectedBalance = totalPrincipal + totalRewardLiability + totalUnallocatedRewards
      /\ balance \in Nat /\ totalAllocated \in Nat /\ credit \in Nat
      /\ held \in [Acquisitions -> Nat]
      /\ Budgets \subseteq Nat
  BY PoolValues, ReserveAssumption DEF ReserveInv, ReserveTypeOK
<1>1. ASSUME UNCHANGED <<now, spending, paused, people, acquired, market>>,
             balance' \in Nat, balance' >= balance \/ balance' >= totalAllocated
      PROVE  ReserveInv'
  <2>1. credit' \in Nat /\ held' \in [Acquisitions -> Nat]
    BY <1>0, <1>1 DEF market
  <2>. QED
    BY <1>1, <2>1, TokensComeIn
<1>2. ASSUME UNCHANGED <<now, reserve>> PROVE ReserveInv'
  BY <1>0, <1>1, <1>2 DEF reserve
<1>3. CASE StakingGovernance
  <2>1. CASE bindStakingPool
    BY <1>2, <2>1 DEF bindStakingPool
  <2>2. CASE collectFreeStakingBudget
    <3>. DEFINE free == poolBalance - Pool!protectedBalance
    <3>1. /\ Pool!recoverFreeTokens(free) /\ balance' = balance + free
          /\ UNCHANGED <<spending, paused, people, acquired, market>>
      BY <2>2 DEF collectFreeStakingBudget
    <3>2. free \in Nat /\ now' = now
      BY <1>0, <3>1 DEF Pool!recoverFreeTokens
    <3>. HIDE DEF free
    <3>. QED
      BY <1>0, <1>1, <3>1, <3>2
  <2>3. ASSUME NEW s, NEW e, NEW cap, NEW b \in Budgets, NEW m,
               createStakingCampaign(s, e, cap, b, m)
        PROVE  ReserveInv'
    <3>1. /\ b <= unallocatedBalance /\ balance' = balance - b
          /\ UNCHANGED <<spending, paused, people, acquired, market>>
          /\ Pool!createCampaign(s, e, cap, b, m, b)
      BY <2>3 DEF createStakingCampaign, Affordable
    <3>2. b \in Nat /\ b > 0 /\ now' = now
      BY <1>0, <3>1 DEF Pool!createCampaign
    <3>3. totalAllocated + b <= balance
      BY <3>1, <3>2, AllocatableIsFree
    <3>4. balance' \in Nat /\ balance' >= totalAllocated
      BY <1>0, <3>1, <3>2, <3>3
    <3>. QED
      BY <1>1, <3>1, <3>2, <3>4
  <2>4. ASSUME NEW c \in Pool!CampaignIds, closeStakingCampaign(c)
        PROVE  ReserveInv'
    <3>. DEFINE free == poolBalance - Pool!protectedBalance + poolCampaigns[c].unallocatedReward
    <3>1. /\ free >= 0 /\ Pool!closeCampaign(c, TRUE, free) /\ balance' = balance + free
          /\ UNCHANGED <<spending, paused, people, acquired, market>>
      BY <2>4 DEF closeStakingCampaign
    <3>2. poolCampaigns[c].unallocatedReward \in Nat
      BY PoolValues
    <3>3. free \in Nat /\ now' = now
      BY <1>0, <3>1, <3>2 DEF Pool!closeCampaign
    <3>. HIDE DEF free
    <3>. QED
      BY <1>0, <1>1, <3>1, <3>3
  <2>5. ASSUME NEW c, NEW value, setStakingAdmissionsPaused(c, value)
        PROVE  ReserveInv'
    BY <1>2, <2>5 DEF setStakingAdmissionsPaused, Pool!setAdmissionsPaused
  <2>. QED
    BY <1>3, <2>1, <2>2, <2>3, <2>4, <2>5 DEF StakingGovernance
<1>4. CASE Staking
  <2>1. now' = now
    <3>1. ASSUME NEW c, Pool!closeCampaign(c, FALSE, 0) PROVE now' = now
      BY <3>1 DEF Pool!closeCampaign
    <3>2. ASSUME NEW o, NEW c, NEW t, NEW a, Pool!stake(o, c, t, a) PROVE now' = now
      BY <3>2 DEF Pool!stake
    <3>3. ASSUME NEW p, Pool!claim(p) PROVE now' = now
      BY <3>3 DEF Pool!claim
    <3>4. ASSUME NEW a, Pool!fund(a) PROVE now' = now
      BY <3>4 DEF Pool!fund
    <3>. QED
      BY <1>4, <3>1, <3>2, <3>3, <3>4 DEF Staking, Pool!Participating
  <2>. QED
    BY <1>2, <1>4, <2>1 DEF Staking
<1>5. CASE Acquiring
  <2>1. CASE Governing \/ Trading
    <3>1. [Next]_vars
      BY <2>1 DEF Next
    <3>. QED
      BY <3>1, NextKeeps
  <2>2. ASSUME NEW a \in Budgets, donate(a) PROVE ReserveInv'
    BY <1>0, <2>2, DonateKeeps
  <2>. QED
    BY <1>5, <2>1, <2>2 DEF Acquiring
<1>6. CASE TreasuryTick
  BY <1>6, TimeKeeps DEF TreasuryTick
<1>7. CASE UNCHANGED treasuryVars
  BY <1>2, <1>7 DEF treasuryVars
<1>. QED
  BY <1>3, <1>4, <1>5, <1>6, <1>7 DEF TreasuryNext

(* The market holds nothing for an id that no purchase has taken.          *)
HeldIsAcquired == \A id \in Acquisitions : acquisitionCampaign[id] = 0 => held[id] = 0

(* Tokens leave the treasury for a purchase or for a staking budget.       *)
Parts ==
    balance' < balance =>
        \/ \E id \in Acquisitions : held'[id] - held[id] = balance - balance'
        \/ poolBalance' - poolBalance = balance - balance'
           /\ totalUnallocatedRewards' - totalUnallocatedRewards = balance - balance'

LEMMA TreasuryParts ==
    ASSUME ReserveInv, PoolProofs!PoolInv, HeldIsAcquired, [TreasuryNext]_treasuryVars
    PROVE  HeldIsAcquired' /\ Parts
<1>0. /\ totalPrincipal \in Nat /\ totalRewardLiability \in Nat
      /\ totalUnallocatedRewards \in Nat /\ poolBalance \in Nat
      /\ poolBalance >= Pool!protectedBalance
      /\ balance \in Nat /\ credit \in Nat
      /\ held \in [Acquisitions -> Nat]
      /\ acquisitionCampaign \in [Acquisitions -> CampaignIds \cup {0}]
      /\ Budgets \subseteq Nat /\ Grosses \subseteq Nat
  BY PoolValues, ReserveAssumption DEF ReserveInv, ReserveTypeOK
<1>1. ASSUME UNCHANGED acquired, UNCHANGED held, balance' \in Nat, balance' >= balance
      PROVE  HeldIsAcquired' /\ Parts
  BY <1>0, <1>1 DEF HeldIsAcquired, Parts, acquired
<1>2. ASSUME UNCHANGED reserve PROVE HeldIsAcquired' /\ Parts
  <2>1. UNCHANGED acquired /\ UNCHANGED held /\ balance' = balance
    BY <1>2 DEF reserve, market
  <2>. QED
    BY <1>0, <1>1, <2>1
<1>3. CASE StakingGovernance
  <2>1. CASE bindStakingPool
    BY <1>2, <2>1 DEF bindStakingPool
  <2>2. CASE collectFreeStakingBudget
    <3>. DEFINE free == poolBalance - Pool!protectedBalance
    <3>1. /\ Pool!recoverFreeTokens(free) /\ balance' = balance + free
          /\ UNCHANGED <<acquired, held>>
      BY <2>2 DEF collectFreeStakingBudget, market
    <3>2. free \in Nat
      BY <1>0, <3>1 DEF Pool!recoverFreeTokens, Pool!protectedBalance
    <3>. HIDE DEF free
    <3>. QED
      BY <1>0, <1>1, <3>1, <3>2
  <2>3. ASSUME NEW s, NEW e, NEW cap, NEW b \in Budgets, NEW m,
               createStakingCampaign(s, e, cap, b, m)
        PROVE  HeldIsAcquired' /\ Parts
    <3>1. /\ balance' = balance - b
          /\ UNCHANGED <<acquired, held>>
          /\ Pool!createCampaign(s, e, cap, b, m, b)
      BY <2>3 DEF createStakingCampaign, market
    <3>2. poolBalance' = poolBalance + b /\ totalUnallocatedRewards' = totalUnallocatedRewards + b
      BY <3>1 DEF Pool!createCampaign
    <3>3. HeldIsAcquired'
      BY <3>1 DEF HeldIsAcquired, acquired
    <3>4. Parts
      BY <1>0, <3>1, <3>2 DEF Parts
    <3>. QED
      BY <3>3, <3>4
  <2>4. ASSUME NEW c \in Pool!CampaignIds, closeStakingCampaign(c)
        PROVE  HeldIsAcquired' /\ Parts
    <3>. DEFINE free == poolBalance - Pool!protectedBalance + poolCampaigns[c].unallocatedReward
    <3>1. free >= 0 /\ balance' = balance + free /\ UNCHANGED <<acquired, held>>
      BY <2>4 DEF closeStakingCampaign, market
    <3>2. poolCampaigns[c].unallocatedReward \in Nat
      BY PoolValues
    <3>3. free \in Nat
      BY <1>0, <3>1, <3>2 DEF Pool!protectedBalance
    <3>. HIDE DEF free
    <3>. QED
      BY <1>0, <1>1, <3>1, <3>3
  <2>5. ASSUME NEW c, NEW value, setStakingAdmissionsPaused(c, value)
        PROVE  HeldIsAcquired' /\ Parts
    BY <1>2, <2>5 DEF setStakingAdmissionsPaused
  <2>. QED
    BY <1>3, <2>1, <2>2, <2>3, <2>4, <2>5 DEF StakingGovernance
<1>4. CASE Staking
  BY <1>2, <1>4 DEF Staking
<1>5. CASE Acquiring
  <2>1. CASE Governing
    <3>1. UNCHANGED acquired /\ UNCHANGED held /\ balance' = balance
      BY <2>1 DEF Governing, bindMarket, createCampaign, cancelCampaign, _close,
                  setCampaignPaused, setOperator, setBuyer, setPaused, market
    <3>. QED
      BY <1>0, <1>1, <3>1
  <2>2. ASSUME NEW p \in People, NEW c \in CampaignIds, NEW id \in Acquisitions,
               NEW g \in Grosses, purchase(p, c, id, g)
        PROVE  HeldIsAcquired' /\ Parts
    <3>1. /\ acquisitionCampaign[id] = 0 /\ c # 0
          /\ acquisitionCampaign' = [acquisitionCampaign EXCEPT ![id] = c]
          /\ balance' = balance - g /\ held' = [held EXCEPT ![id] = g]
      BY <2>2 DEF purchase, _commit, CampaignIds
    <3>2. held[id] = 0
      BY <3>1 DEF HeldIsAcquired
    <3>3. held'[id] - held[id] = balance - balance'
      BY <1>0, <3>1, <3>2
    <3>4. HeldIsAcquired'
      BY <1>0, <3>1 DEF HeldIsAcquired
    <3>. QED
      BY <3>3, <3>4 DEF Parts
  <2>3. ASSUME NEW p, NEW id \in Acquisitions, NEW r,
               cancelOffer(p, id) \/ marketEnds(id, r)
        PROVE  HeldIsAcquired' /\ Parts
    <3>1. /\ held' = [held EXCEPT ![id] = 0]
          /\ UNCHANGED acquired /\ balance' = balance
      BY <2>3 DEF cancelOffer, marketEnds
    <3>2. HeldIsAcquired'
      BY <1>0, <3>1 DEF HeldIsAcquired, acquired
    <3>3. Parts
      BY <1>0, <3>1 DEF Parts
    <3>. QED
      BY <3>2, <3>3
  <2>4. ASSUME NEW c, expireCampaign(c) PROVE HeldIsAcquired' /\ Parts
    <3>1. UNCHANGED acquired /\ UNCHANGED held /\ balance' = balance
      BY <2>4 DEF expireCampaign, _close, market
    <3>. QED
      BY <1>0, <1>1, <3>1
  <2>5. CASE collectReturns
    BY <1>0, <1>1, <2>5 DEF collectReturns
  <2>6. ASSUME NEW a \in Budgets, donate(a) PROVE HeldIsAcquired' /\ Parts
    BY <1>0, <1>1, <2>6 DEF donate, market
  <2>. QED
    BY <1>5, <2>1, <2>2, <2>3, <2>4, <2>5, <2>6 DEF Acquiring, Trading
<1>6. CASE TreasuryTick
  <2>1. UNCHANGED acquired /\ UNCHANGED held /\ balance' = balance
    BY <1>6 DEF TreasuryTick, Tick, market
  <2>. QED
    BY <1>0, <1>1, <2>1
<1>7. CASE UNCHANGED treasuryVars
  BY <1>2, <1>7 DEF treasuryVars
<1>. QED
  BY <1>3, <1>4, <1>5, <1>6, <1>7 DEF TreasuryNext

(* The two contracts' invariants hold together.                            *)
TreasuryInv == ReserveInv /\ PoolProofs!PoolInv /\ GiftsAreBounded /\ HeldIsAcquired

LEMMA InitTreasury == TreasuryInit => TreasuryInv
<1>. SUFFICES ASSUME TreasuryInit PROVE TreasuryInv
  OBVIOUS
<1>1. Init /\ Pool!Init /\ PoolProofs!Init
  BY SamePool DEF TreasuryInit
<1>2. ReserveInv
  BY <1>1, InitReserve
<1>3. PoolProofs!PoolInv
  BY <1>1, PoolConstants, PoolProofs!InitPool
<1>4. GiftsAreBounded
  BY <1>1, TreasuryAssumption DEF Pool!Init, GiftsAreBounded
<1>5. HeldIsAcquired
  BY <1>1 DEF Init, HeldIsAcquired
<1>. QED
  BY <1>2, <1>3, <1>4, <1>5 DEF TreasuryInv

LEMMA TreasuryNextKeeps ==
    TreasuryInv /\ [TreasuryNext]_treasuryVars =>
        TreasuryInv' /\ [Pool!Next]_(Pool!vars) /\ Parts
<1>. SUFFICES ASSUME TreasuryInv, [TreasuryNext]_treasuryVars
              PROVE  TreasuryInv' /\ [Pool!Next]_(Pool!vars) /\ Parts
  OBVIOUS
<1>0. ReserveInv /\ PoolProofs!PoolInv /\ GiftsAreBounded /\ HeldIsAcquired
  BY DEF TreasuryInv
<1>1. [Pool!Next]_(Pool!vars)
  BY <1>0, TreasuryStepsAreThePools
<1>2. PoolProofs!PoolInv'
  <2>1. [PoolProofs!Next]_(PoolProofs!vars)
    BY <1>1, SamePool
  <2>. QED
    BY <1>0, <2>1, PoolConstants, PoolProofs!NextKeeps
<1>3. ReserveInv' /\ GiftsAreBounded' /\ HeldIsAcquired' /\ Parts
  BY <1>0, <1>1, TreasuryKeepsReserve, GiftsStayBounded, TreasuryParts
<1>. QED
  BY <1>1, <1>2, <1>3 DEF TreasuryInv

LEMMA TreasuryInvariant == TreasurySpec => []TreasuryInv
BY InitTreasury, TreasuryNextKeeps, PTL DEF TreasurySpec

(* However budgets move between acquisition and staking, open campaigns'   *)
(* tokens are in the treasury and principal and rewards are in the pool    *)
(* (createStakingCampaign, closeStakingCampaign, collectFreeStakingBudget).*)
THEOREM TreasuryKeepsItsPromises == TreasurySpec => []PromisesAreBacked
<1>1. TreasuryInv => PromisesAreBacked
  BY DEF TreasuryInv, ReserveInv, PoolProofs!PoolInv, PoolProofs!PoolIsSolvent,
         PoolProofs!Solvent, PoolProofs!protectedBalance,
         PromisesAreBacked, Pool!PoolIsSolvent, Pool!Solvent, Pool!protectedBalance
<1>. QED
  BY <1>1, TreasuryInvariant, PTL

(* Under the treasury the pool behaves as its own specification lets any   *)
(* governor make it behave, and tokens leave the treasury only into a      *)
(* purchase or into a staking budget.                                      *)
THEOREM TreasuryImplementsPool == TreasurySpec => ImplementsPool
<1>1. TreasuryInit => Pool!Init
  BY DEF TreasuryInit
<1>2. TreasuryInv /\ [TreasuryNext]_treasuryVars => [Pool!Next]_(Pool!vars)
  BY TreasuryNextKeeps
<1>3. TreasurySpec => Pool!Spec
  BY <1>1, <1>2, TreasuryInvariant, PTL DEF TreasurySpec, Pool!Spec
<1>4. TreasuryInv /\ [TreasuryNext]_treasuryVars => [Parts]_treasuryVars
  BY TreasuryNextKeeps
<1>5. TreasurySpec => [][Parts]_treasuryVars
  BY <1>4, TreasuryInvariant, PTL DEF TreasurySpec
<1>6. TreasurySpec => TreasuryOnlySpendsOrStakes
  BY <1>5 DEF TreasuryOnlySpendsOrStakes, Parts
<1>. QED
  BY <1>3, <1>6 DEF ImplementsPool

(* Whatever the treasury does as the pool's governor, whoever staked can   *)
(* claim principal and reward once the term is over (claim).               *)
THEOREM TreasuryNeverLocksStakersOut == TreasurySpec => []StakersCanClaim
<1>1. PoolProofs!Init /\ [][PoolProofs!Next]_(PoolProofs!vars) => []PoolProofs!MaturedAreClaimable
  BY PoolConstants, PoolProofs!MaturedAreAlwaysClaimable, PTL DEF PoolProofs!Spec
<1>2. TreasuryInit => PoolProofs!Init
  BY SamePool DEF TreasuryInit
<1>3. TreasuryInv /\ [TreasuryNext]_treasuryVars => [PoolProofs!Next]_(PoolProofs!vars)
  BY TreasuryNextKeeps, SamePool
<1>4. PoolProofs!MaturedAreClaimable => StakersCanClaim
  BY SamePool
<1>. QED
  BY <1>1, <1>2, <1>3, <1>4, TreasuryInvariant, PTL DEF TreasurySpec

(***************************************************************************)
(* Vault accounting.                                                        *)
(***************************************************************************)
VaultTypeOK ==
  /\ status \in [Objects -> Statuses]
  /\ usage \in [AllScopes -> [bytes : Int, objects : Int]]
  /\ allowance \in [AllScopes -> [bytes : Nat, objects : Nat]]
  /\ provider \subseteq Objects /\ sent \subseteq Objects
  /\ calls \in [Calls -> [pc : Pcs, id : Objects]]

\* A call that writes has its reservation to itself; one that removes has an authorization, after which
\* nothing can store the object again.
Writing(c) == calls[c].pc \in {"upload", "stored"}
WritersAreAlone ==
  /\ \A c \in Calls : Writing(c) => status[Id(c)] = "pending" /\ Id(c) \notin sent
  /\ \A c, d \in Calls : Writing(c) /\ Writing(d) /\ Id(c) = Id(d) => c = d
SentArePending == \A id \in sent : status[id] = "pending"
RemoversAreAuthorized ==
  \A c \in Calls : /\ calls[c].pc \in {"remove", "removed"} => status[Id(c)] \in {"deleting", "deleted"}
                   /\ calls[c].pc = "removed" => Id(c) \notin provider
VaultInv == VaultTypeOK /\ StoredIsCharged /\ WritersAreAlone /\ SentArePending /\ RemoversAreAuthorized

USE DEF At, Id, Moves

\* The state of a call changes in its place only.
LEMMA GoChanges ==
  ASSUME calls \in [Calls -> [pc : Pcs, id : Objects]], NEW c \in Calls, NEW pc \in Pcs, Moves(c, pc)
  PROVE  /\ calls' \in [Calls -> [pc : Pcs, id : Objects]]
         /\ calls'[c].pc = pc /\ calls'[c].id = calls[c].id
         /\ \A d \in Calls : d # c => calls'[d] = calls[d]
         /\ \A d \in Calls : calls'[d].id = calls[d].id
PROOF OBVIOUS

\* The rows of the scopes an object is charged in.
LEMMA ScopesAreScopes == ASSUME NEW id \in Objects PROVE Scopes(id) \subseteq AllScopes
PROOF BY DEF Scopes, AllScopes, VaultOwners

\* What a reservation and a release write is a number for each scope.
LEMMA UsageStays ==
  ASSUME VaultTypeOK, NEW id \in Objects
  PROVE  /\ [s \in AllScopes |-> IF s \in Scopes(id) THEN [bytes |-> usage[s].bytes + Size[id], objects |-> usage[s].objects + 1]
                                 ELSE usage[s]] \in [AllScopes -> [bytes : Int, objects : Int]]
         /\ [s \in AllScopes |-> IF s \in Scopes(id) THEN [bytes |-> usage[s].bytes - Size[id], objects |-> usage[s].objects - 1]
                                 ELSE usage[s]] \in [AllScopes -> [bytes : Int, objects : Int]]
<1>1. Size[id] \in Nat
  BY VaultAssumption
<1>2. \A s \in AllScopes : usage[s] \in [bytes : Int, objects : Int]
  BY DEF VaultTypeOK
<1> QED BY <1>1, <1>2

LEMMA InitInv == VaultInit => VaultInv
<1> SUFFICES ASSUME VaultInit PROVE VaultInv
  OBVIOUS
<1>1. allowance \in [AllScopes -> [bytes : Nat, objects : Nat]]
  BY VaultAssumption DEF VaultInit
<1>2. VaultTypeOK
  BY <1>1 DEF VaultInit, VaultTypeOK, Statuses, Pcs
<1>3. \A c \in Calls : calls[c].pc = "idle"
  BY DEF VaultInit
<1> QED BY <1>2, <1>3 DEF VaultInit, VaultInv, StoredIsCharged, WritersAreAlone, Writing, SentArePending, RemoversAreAuthorized

\* Each step keeps the invariant.
LEMMA NextInv == VaultInv /\ [VaultNext]_vaultVars => VaultInv'
<1> SUFFICES ASSUME VaultInv, [VaultNext]_vaultVars PROVE VaultInv'
  OBVIOUS
<1>t. VaultTypeOK
  BY DEF VaultInv
<1>c. calls \in [Calls -> [pc : Pcs, id : Objects]]
  BY <1>t DEF VaultTypeOK
<1> USE DEF VaultInv, StoredIsCharged, WritersAreAlone, Writing, SentArePending, RemoversAreAuthorized, Charged
<1>1. ASSUME NEW c \in Calls, Begin(c) PROVE VaultInv'
  <2>1. PICK pc \in {"reserve", "authorize"} : Moves(c, pc)
    BY <1>1 DEF Begin
  <2>2. pc \in Pcs
    BY <2>1 DEF Pcs
  <2> QED BY <1>1, <1>c, <2>1, <2>2, GoChanges DEF Begin, VaultTypeOK
<1>2. ASSUME NEW c \in Calls, Reserve(c) PROVE VaultInv'
  <2>1. Moves(c, "upload") /\ "upload" \in Pcs
    BY <1>2 DEF Reserve, Pcs
  <2>2. calls[c].id \in Objects /\ status[calls[c].id] = "none"
    BY <1>2, <1>c DEF Reserve, Admitted
  <2>3. usage' \in [AllScopes -> [bytes : Int, objects : Int]]
    BY <1>2, <1>t, <2>2, UsageStays DEF Reserve
  <2>4. status' = [status EXCEPT ![calls[c].id] = "pending"] /\ UNCHANGED <<allowance, provider, sent>>
    BY <1>2 DEF Reserve
  <2> QED BY <1>c, <2>1, <2>2, <2>3, <2>4, GoChanges DEF VaultTypeOK, Statuses
<1>3. ASSUME NEW c \in Calls, Upload(c) PROVE VaultInv'
  <2>1. Moves(c, "stored") /\ "stored" \in Pcs
    BY <1>3 DEF Upload, Pcs
  <2> QED BY <1>3, <1>c, <2>1, GoChanges DEF Upload, VaultTypeOK
<1>4. ASSUME NEW c \in Calls, Stored(c) PROVE VaultInv'
  <2>1. Moves(c, "over") /\ "over" \in Pcs
    BY <1>4 DEF Stored, Pcs
  <2>2. status' = [status EXCEPT ![calls[c].id] = "stored"] /\ UNCHANGED <<usage, allowance, provider, sent>>
    BY <1>4 DEF Stored
  <2> QED BY <1>4, <1>c, <2>1, <2>2, GoChanges DEF Stored, VaultTypeOK, Statuses
<1>5. ASSUME NEW c \in Calls, Authorize(c) PROVE VaultInv'
  <2>1. Moves(c, "remove") /\ "remove" \in Pcs
    BY <1>5 DEF Authorize, Pcs
  <2> QED BY <1>5, <1>c, <2>1, GoChanges DEF Authorize, VaultTypeOK, Statuses
<1>6. ASSUME NEW c \in Calls, Remove(c) PROVE VaultInv'
  <2>1. Moves(c, "removed") /\ "removed" \in Pcs
    BY <1>6 DEF Remove, Pcs
  <2> QED BY <1>6, <1>c, <2>1, GoChanges DEF Remove, VaultTypeOK
<1>7. ASSUME NEW c \in Calls, Removed(c) PROVE VaultInv'
  <2>1. Moves(c, "over") /\ "over" \in Pcs /\ UNCHANGED <<allowance, provider, sent>>
    BY <1>7 DEF Removed, Pcs
  <2>2. calls[c].id \in Objects
    BY <1>c
  <2>3. usage' \in [AllScopes -> [bytes : Int, objects : Int]]
    BY <1>7, <1>t, <2>2, UsageStays DEF Removed, Release, VaultTypeOK
  <2>4. CASE status[calls[c].id] = "deleting" /\ status' = [status EXCEPT ![calls[c].id] = "deleted"]
    <3>1. calls[c].pc = "removed" /\ calls[c].id \notin provider \cup sent
      BY <1>7, <2>2 DEF Removed, At
    <3> QED BY <1>c, <2>1, <2>2, <2>3, <2>4, <3>1, GoChanges DEF VaultTypeOK, Statuses
  <2>5. CASE status' = status
    BY <1>c, <2>1, <2>3, <2>5, GoChanges DEF VaultTypeOK
  <2> QED BY <1>7, <2>4, <2>5 DEF Removed, Id
<1>8. ASSUME NEW c \in Calls, Stop(c) PROVE VaultInv'
  <2>1. Moves(c, "over") /\ "over" \in Pcs
    BY <1>8 DEF Stop, Pcs
  <2> QED BY <1>8, <1>c, <2>1, GoChanges DEF Stop, VaultTypeOK
<1>9. ASSUME NEW id \in Objects, Arrive(id) PROVE VaultInv'
  BY <1>9 DEF Arrive, VaultTypeOK
<1>10. ASSUME NEW o \in VaultOwners, NEW granted \in Allowances, SetOwnerAllowance(o, granted) PROVE VaultInv'
  <2>1. granted \in [bytes : Nat, objects : Nat]
    BY VaultAssumption
  <2> QED BY <1>10, <2>1 DEF SetOwnerAllowance, VaultTypeOK
<1>11. CASE UNCHANGED vaultVars
  BY <1>11 DEF vaultVars, VaultTypeOK
<1> QED BY <1>1, <1>2, <1>3, <1>4, <1>5, <1>6, <1>7, <1>8, <1>9, <1>10, <1>11 DEF VaultNext, CallStep

\* What the provider has, or may still accept after the writer gave up, is charged: capacity is never
\* released while the bytes may be there (vault/src/index.ts putRemote and delete).
THEOREM StorageIsCharged == VaultSpec => []StoredIsCharged
<1>1. VaultInv => StoredIsCharged
  BY DEF VaultInv
<1> QED BY InitInv, NextInv, <1>1, PTL DEF VaultSpec

LEMMA InitQuotas == VaultInit => QuotasHold
<1> SUFFICES ASSUME VaultInit PROVE QuotasHold
  OBVIOUS
<1>1. \A s \in AllScopes : usage[s].bytes = 0 /\ usage[s].objects = 0
  BY DEF VaultInit
<1>2. \A s \in AllScopes : allowance[s].bytes \in Nat /\ allowance[s].objects \in Nat
  BY VaultAssumption DEF VaultInit
<1> QED BY <1>1, <1>2 DEF QuotasHold

LEMMA NextQuotas == VaultTypeOK /\ QuotasHold /\ [VaultNext]_vaultVars => QuotasHold'
<1> SUFFICES ASSUME VaultTypeOK, QuotasHold, [VaultNext]_vaultVars PROVE QuotasHold'
  OBVIOUS
<1>t. \A s \in AllScopes : /\ usage[s] \in [bytes : Int, objects : Int]
                           /\ allowance[s] \in [bytes : Nat, objects : Nat]
  BY DEF VaultTypeOK
<1>c. \A c \in Calls : calls[c].id \in Objects
  BY DEF VaultTypeOK
<1>s. \A id \in Objects : Size[id] \in Nat
  BY VaultAssumption
<1>1. ASSUME NEW c \in Calls, Reserve(c) PROVE QuotasHold'
  <2> DEFINE id == calls[c].id
  <2>1. \A s \in AllScopes : s \in Scopes(id) =>
          /\ usage[s].bytes + Size[id] <= allowance[s].bytes /\ usage[s].objects + 1 <= allowance[s].objects
    BY <1>1 DEF Reserve, Admitted, Fits
  <2>2. \A s \in AllScopes : usage'[s] = IF s \in Scopes(id)
          THEN [bytes |-> usage[s].bytes + Size[id], objects |-> usage[s].objects + 1] ELSE usage[s]
    BY <1>1 DEF Reserve
  <2>3. allowance' = allowance
    BY <1>1 DEF Reserve
  <2>4. ASSUME NEW s \in AllScopes
        PROVE usage'[s].bytes <= allowance'[s].bytes /\ usage'[s].objects <= allowance'[s].objects
    <3>1. CASE s \in Scopes(id)
      <4>1. usage'[s].bytes = usage[s].bytes + Size[id] /\ usage'[s].objects = usage[s].objects + 1
        <5> DEFINE bytes == usage[s].bytes + Size[id]
                   objects == usage[s].objects + 1
        <5>1. usage'[s] = [bytes |-> bytes, objects |-> objects]
          BY <2>2, <3>1
        <5> HIDE DEF bytes, objects
        <5>2. usage'[s].bytes = bytes /\ usage'[s].objects = objects
          BY <5>1
        <5> QED BY <5>2 DEF bytes, objects
      <4> QED BY <2>1, <2>3, <3>1, <4>1
    <3>2. CASE s \notin Scopes(id)
      <4>1. usage'[s] = usage[s]
        BY <2>2, <3>2
      <4> QED BY <2>3, <4>1 DEF QuotasHold
    <3> QED BY <3>1, <3>2
  <2> QED BY <2>4 DEF QuotasHold
<1>2. ASSUME NEW c \in Calls, Removed(c) PROVE QuotasHold'
  <2> DEFINE id == calls[c].id
  <2>1. allowance' = allowance /\ Size[id] \in Nat
    BY <1>2, <1>c, <1>s DEF Removed
  <2>2. CASE UNCHANGED usage
    BY <2>1, <2>2 DEF QuotasHold
  <2>3. CASE Release(id)
    <3>1. \A s \in AllScopes : usage'[s] = IF s \in Scopes(id)
            THEN [bytes |-> usage[s].bytes - Size[id], objects |-> usage[s].objects - 1] ELSE usage[s]
      BY <2>3 DEF Release
    <3>2. ASSUME NEW s \in AllScopes
          PROVE usage'[s].bytes <= allowance'[s].bytes /\ usage'[s].objects <= allowance'[s].objects
      <4>1. /\ usage[s].bytes \in Int /\ usage[s].objects \in Int
            /\ allowance[s].bytes \in Nat /\ allowance[s].objects \in Nat
            /\ usage[s].bytes <= allowance[s].bytes /\ usage[s].objects <= allowance[s].objects
        BY <1>t DEF QuotasHold
      <4>2. CASE s \in Scopes(id)
        <5>1. usage'[s].bytes = usage[s].bytes - Size[id] /\ usage'[s].objects = usage[s].objects - 1
          <6> DEFINE bytes == usage[s].bytes - Size[id]
                     objects == usage[s].objects - 1
          <6>1. usage'[s] = [bytes |-> bytes, objects |-> objects]
            BY <3>1, <4>2
          <6> HIDE DEF bytes, objects
          <6>2. usage'[s].bytes = bytes /\ usage'[s].objects = objects
            BY <6>1
          <6> QED BY <6>2 DEF bytes, objects
        <5> QED BY <2>1, <4>1, <5>1
      <4>3. CASE s \notin Scopes(id)
        <5>1. usage'[s] = usage[s]
          BY <3>1, <4>3
        <5> QED BY <2>1, <4>1, <5>1
      <4> QED BY <4>2, <4>3
    <3> QED BY <3>2 DEF QuotasHold
  <2> QED BY <1>2, <2>2, <2>3 DEF Removed, Id
<1>3. ASSUME NEW o \in VaultOwners, NEW granted \in Allowances, SetOwnerAllowance(o, granted) PROVE QuotasHold'
  <2>1. usage' = usage /\ allowance' = [allowance EXCEPT ![o] = granted]
    BY <1>3 DEF SetOwnerAllowance
  <2>2. usage[o].bytes <= granted.bytes /\ usage[o].objects <= granted.objects
    <3>1. granted \in [bytes : Nat, objects : Nat]
      BY VaultAssumption
    <3>2. o \in AllScopes
      BY DEF AllScopes
    <3> QED BY <1>3, <1>t, <3>1, <3>2 DEF SetOwnerAllowance
  <2>3. \A s \in AllScopes : allowance'[s] = IF s = o THEN granted ELSE allowance[s]
    BY <2>1 DEF VaultTypeOK
  <2> QED BY <2>1, <2>2, <2>3 DEF QuotasHold
<1>4. ASSUME UNCHANGED <<usage, allowance>> PROVE QuotasHold'
  BY <1>4 DEF QuotasHold
<1>5. ASSUME NEW c \in Calls, CallStep(c) PROVE QuotasHold'
  <2>1. CASE Begin(c)
    BY <2>1, <1>4 DEF Begin
  <2>2. CASE Upload(c)
    BY <2>2, <1>4 DEF Upload
  <2>3. CASE Stored(c)
    BY <2>3, <1>4 DEF Stored
  <2>4. CASE Authorize(c)
    BY <2>4, <1>4 DEF Authorize
  <2>5. CASE Remove(c)
    BY <2>5, <1>4 DEF Remove
  <2>6. CASE Stop(c)
    BY <2>6, <1>4 DEF Stop
  <2> QED BY <1>5, <1>1, <1>2, <2>1, <2>2, <2>3, <2>4, <2>5, <2>6 DEF CallStep
<1>6. ASSUME NEW id \in Objects, Arrive(id) PROVE QuotasHold'
  BY <1>6, <1>4 DEF Arrive
<1>7. CASE UNCHANGED vaultVars
  BY <1>7, <1>4 DEF vaultVars
<1> QED BY <1>3, <1>5, <1>6, <1>7 DEF VaultNext

\* No owner, nor all of them together, nor the journal, is charged more than it is allowed, also while an
\* operator changes what an owner may store.
THEOREM QuotasAreKept == VaultSpec => []QuotasHold
<1>1. VaultInv => VaultTypeOK
  BY DEF VaultInv
<1> QED BY InitInv, NextInv, <1>1, InitQuotas, NextQuotas, PTL DEF VaultSpec

(***************************************************************************)
(* What is charged is the sum over the rows.                                *)
(***************************************************************************)
LEMMA FiniteCharged == \A s : IsFiniteSet(ChargedIn(s)) /\ ChargedIn(s) \subseteq Objects
<1>1. \A s : ChargedIn(s) \subseteq Objects
  BY DEF ChargedIn
<1> QED BY <1>1, VaultAssumption, FS_Subset

LEMMA SizesAreNumbers == \A id \in Objects : Size[id] \in Int
BY VaultAssumption

LEMMA InitSums == VaultInit => RowsAddUp
<1> SUFFICES ASSUME VaultInit, NEW s \in AllScopes
             PROVE  /\ usage[s].bytes = SumFunctionOnSet(Size, ChargedIn(s))
                    /\ usage[s].objects = Cardinality(ChargedIn(s))
  BY DEF RowsAddUp
<1>1. ChargedIn(s) = {}
  BY DEF VaultInit, ChargedIn, Charged
<1>2. SumFunctionOnSet(Size, {}) = 0 /\ Cardinality({}) = 0
  BY SumRecursion, FS_EmptySet
<1>3. usage[s].bytes = 0 /\ usage[s].objects = 0
  BY DEF VaultInit
<1> QED BY <1>1, <1>2, <1>3

\* A step that changes no usage and charges the same rows.
LEMMA SumsStay ==
  ASSUME RowsAddUp, UNCHANGED usage, \A id \in Objects : status'[id] \in Charged <=> status[id] \in Charged
  PROVE  RowsAddUp'
<1>1. \A s : ChargedIn(s)' = ChargedIn(s)
  BY DEF ChargedIn
<1> QED BY <1>1 DEF RowsAddUp

\* A row more is charged to its scopes.
LEMMA SumsGrow ==
  ASSUME VaultTypeOK, RowsAddUp, NEW id \in Objects, status[id] \notin Charged,
         status' = [status EXCEPT ![id] = "pending"],
         usage' = [s \in AllScopes |->
           IF s \in Scopes(id) THEN [bytes |-> usage[s].bytes + Size[id], objects |-> usage[s].objects + 1] ELSE usage[s]]
  PROVE  RowsAddUp'
<1> SUFFICES ASSUME NEW s \in AllScopes
             PROVE  /\ usage'[s].bytes = SumFunctionOnSet(Size, ChargedIn(s)')
                    /\ usage'[s].objects = Cardinality(ChargedIn(s)')
  BY DEF RowsAddUp
<1> DEFINE C == ChargedIn(s)
           bytes == usage[s].bytes + Size[id]
           objects == usage[s].objects + 1
<1>1. /\ status'[id] = "pending" /\ \A o \in Objects \ {id} : status'[o] = status[o]
      /\ "pending" \in Charged
  BY DEF VaultTypeOK, Charged
<1>2. IsFiniteSet(C) /\ C \subseteq Objects /\ id \notin C
  BY FiniteCharged DEF ChargedIn
<1>3. ChargedIn(s)' = IF s \in Scopes(id) THEN C \cup {id} ELSE C
  BY <1>1 DEF ChargedIn
<1>4. usage[s].bytes = SumFunctionOnSet(Size, C) /\ usage[s].objects = Cardinality(C)
  BY DEF RowsAddUp
<1>5. usage'[s] = IF s \in Scopes(id) THEN [bytes |-> bytes, objects |-> objects] ELSE usage[s]
  OBVIOUS
<1> HIDE DEF C, bytes, objects
<1>6. SumFunctionOnSet(Size, C \cup {id}) = SumFunctionOnSet(Size, C) + Size[id]
  BY <1>2, SizesAreNumbers, SumAdds
<1>7. Cardinality(C \cup {id}) = Cardinality(C) + 1
  BY <1>2, FS_AddElement
<1>8. CASE s \in Scopes(id)
  <2>1. usage'[s].bytes = bytes /\ usage'[s].objects = objects
    BY <1>5, <1>8
  <2> QED BY <1>3, <1>4, <1>6, <1>7, <1>8, <2>1 DEF bytes, objects
<1>9. CASE s \notin Scopes(id)
  BY <1>3, <1>4, <1>5, <1>9
<1> QED BY <1>8, <1>9

\* A row less, once: what is deleted already is not charged any more.
LEMMA SumsShrink ==
  ASSUME VaultTypeOK, RowsAddUp, NEW id \in Objects, status[id] \in Charged,
         status' = [status EXCEPT ![id] = "deleted"], Release(id)
  PROVE  RowsAddUp'
<1> SUFFICES ASSUME NEW s \in AllScopes
             PROVE  /\ usage'[s].bytes = SumFunctionOnSet(Size, ChargedIn(s)')
                    /\ usage'[s].objects = Cardinality(ChargedIn(s)')
  BY DEF RowsAddUp
<1> DEFINE C == ChargedIn(s)
           bytes == usage[s].bytes - Size[id]
           objects == usage[s].objects - 1
<1>1. /\ status'[id] = "deleted" /\ \A o \in Objects \ {id} : status'[o] = status[o]
      /\ "deleted" \notin Charged
  BY DEF VaultTypeOK, Charged
<1>2. IsFiniteSet(C) /\ C \subseteq Objects /\ (s \in Scopes(id) => id \in C)
  BY FiniteCharged DEF ChargedIn
<1>3. ChargedIn(s)' = IF s \in Scopes(id) THEN C \ {id} ELSE C
  BY <1>1 DEF ChargedIn
<1>4. usage[s].bytes = SumFunctionOnSet(Size, C) /\ usage[s].objects = Cardinality(C)
  BY DEF RowsAddUp
<1>5. usage'[s] = IF s \in Scopes(id) THEN [bytes |-> bytes, objects |-> objects] ELSE usage[s]
  BY DEF Release
<1> HIDE DEF C, bytes, objects
<1>6. CASE s \in Scopes(id)
  <2>1. usage'[s].bytes = bytes /\ usage'[s].objects = objects
    BY <1>5, <1>6
  <2>2. \A o \in C : Size[o] \in Int
    BY <1>2, SizesAreNumbers
  <2>3. SumFunctionOnSet(Size, C \ {id}) = SumFunctionOnSet(Size, C) - Size[id]
    BY <1>2, <1>6, <2>2, SumDrops
  <2>4. Cardinality(C \ {id}) = Cardinality(C) - 1
    BY <1>2, <1>6, FS_RemoveElement
  <2> QED BY <1>3, <1>4, <1>6, <2>1, <2>3, <2>4 DEF bytes, objects
<1>7. CASE s \notin Scopes(id)
  BY <1>3, <1>4, <1>5, <1>7
<1> QED BY <1>6, <1>7

LEMMA NextSums == VaultInv /\ RowsAddUp /\ [VaultNext]_vaultVars => RowsAddUp'
<1> SUFFICES ASSUME VaultInv, RowsAddUp, [VaultNext]_vaultVars PROVE RowsAddUp'
  OBVIOUS
<1>t. VaultTypeOK /\ \A c \in Calls : Id(c) \in Objects
  BY DEF VaultInv, VaultTypeOK
<1>1. ASSUME NEW c \in Calls, Reserve(c) PROVE RowsAddUp'
  <2>1. status[Id(c)] \notin Charged
    BY <1>1 DEF Reserve, Admitted, Charged
  <2> QED BY <1>1, <1>t, <2>1, SumsGrow DEF Reserve
<1>2. ASSUME NEW c \in Calls, Stored(c) PROVE RowsAddUp'
  <2>1. UNCHANGED usage /\ \A id \in Objects : status'[id] \in Charged <=> status[id] \in Charged
    BY <1>2, <1>t DEF Stored, VaultTypeOK, Charged
  <2> QED BY <2>1, SumsStay
<1>3. ASSUME NEW c \in Calls, Authorize(c) PROVE RowsAddUp'
  <2>1. UNCHANGED usage /\ \A id \in Objects : status'[id] \in Charged <=> status[id] \in Charged
    BY <1>3, <1>t DEF Authorize, VaultTypeOK, Charged, Statuses
  <2> QED BY <2>1, SumsStay
<1>4. ASSUME NEW c \in Calls, Removed(c) PROVE RowsAddUp'
  <2>1. CASE UNCHANGED <<status, usage>>
    BY <2>1, SumsStay
  <2>2. CASE status[Id(c)] = "deleting" /\ Release(Id(c)) /\ status' = [status EXCEPT ![Id(c)] = "deleted"]
    <3>1. status[Id(c)] \in Charged
      BY <2>2 DEF Charged
    <3> QED BY <1>t, <2>2, <3>1, SumsShrink
  <2> QED BY <1>4, <2>1, <2>2 DEF Removed
<1>5. ASSUME UNCHANGED <<status, usage>> PROVE RowsAddUp'
  BY <1>5, SumsStay
<1>6. ASSUME NEW c \in Calls, CallStep(c) PROVE RowsAddUp'
  <2>1. CASE Begin(c)
    BY <2>1, <1>5 DEF Begin
  <2>2. CASE Upload(c)
    BY <2>2, <1>5 DEF Upload
  <2>3. CASE Remove(c)
    BY <2>3, <1>5 DEF Remove
  <2>4. CASE Stop(c)
    BY <2>4, <1>5 DEF Stop
  <2> QED BY <1>1, <1>2, <1>3, <1>4, <1>6, <2>1, <2>2, <2>3, <2>4 DEF CallStep
<1>7. ASSUME NEW id \in Objects, Arrive(id) PROVE RowsAddUp'
  BY <1>7, <1>5 DEF Arrive
<1>8. ASSUME NEW o \in VaultOwners, NEW granted \in Allowances, SetOwnerAllowance(o, granted) PROVE RowsAddUp'
  BY <1>8, <1>5 DEF SetOwnerAllowance
<1>9. CASE UNCHANGED vaultVars
  BY <1>9, <1>5 DEF vaultVars
<1> QED BY <1>6, <1>7, <1>8, <1>9 DEF VaultNext

\* What is charged is what the rows add up to, each once, through repeated deletions, lost answers and
\* crashes, and no scope is charged more than it is allowed (vault/src/index.ts reserve, removed).
THEOREM UsageIsAlwaysTheSum == VaultSpec => []UsageIsTheSum
<1>1. VaultInv => VaultTypeOK
  BY DEF VaultInv
<1>2. VaultSpec => []RowsAddUp
  BY InitInv, NextInv, InitSums, NextSums, PTL DEF VaultSpec
<1>3. VaultSpec => []QuotasHold
  BY QuotasAreKept
<1>4. QuotasHold /\ RowsAddUp => UsageIsTheSum
  BY DEF UsageIsTheSum
<1> QED BY <1>2, <1>3, <1>4, PTL

-----------------------------------------------------------------------------
(***************************************************************************)
(* The sealed copies (ReleaseRetention).                                    *)
(***************************************************************************)
Market == [sale : [Sales -> {"none", "running", "over", "offered", "accepted", "ended"}], void : SUBSET Listings]
WindowsSeen == [live : BOOLEAN, prepared : SUBSET Listings]

RetentionTypeOK ==
  /\ source \in {"live", "expired", "deleted"}
  /\ rows \in [Listings -> Row]
  /\ intents \subseteq Sales
  /\ job \in BOOLEAN /\ report \in [objects : BOOLEAN, all : BOOLEAN]
  /\ young \subseteq Listings /\ copies \subseteq Listings
  /\ lock \in Workers \cup {None}
  /\ head \in Market /\ confirmed \in Market
  /\ at \in [Workers -> Place]
  /\ before \in [confirmed : SUBSET Sales, head : SUBSET Sales]

Busy(w) == at[w].pc # "idle"
Holds(w) == at[w].pc \in {"applying", "job"}
Stopped(s) == ~Running(head, s) /\ ~Running(confirmed, s)

\* The confirmed snapshot is behind the head; once an authorization cannot be used there, nothing is
\* mined above it that would use it.
SnapshotIsBehind ==
  /\ confirmed.void \subseteq head.void
  /\ \A s \in Sales : /\ confirmed.sale[s] # "none" => head.sale[s] # "none"
                      /\ Authorized(confirmed, s) => Authorized(head, s)
                      /\ confirmed.sale[s] = "over" => head.sale[s] = "over"
SpentIsFinal ==
  \A s \in Sales : ~Usable(confirmed, ListingOf[s]) /\ Authorized(head, s) => Authorized(confirmed, s)
SalesArePrepared ==
  \A s \in Sales : /\ head.sale[s] # "none" => s \in intents
                   /\ s \in intents => rows[ListingOf[s]].stage = "signed"
BeforeWasConfirmed == \A s \in before.confirmed : Authorized(confirmed, s)

LockIsHeld ==
  /\ \A w \in Workers : Holds(w) => lock = w /\ at[w].seen = Snapshot
  /\ \A w \in Workers : at[w].pc = "job" => source = "deleted"
  /\ job => source = "deleted"

\* What a worker carries with it.
PlaceSound(w) ==
  /\ at[w].seen \in View /\ at[w].windows \in WindowsSeen
  /\ at[w].left \subseteq Kept(at[w].seen.rows)
  /\ at[w].pc = "reading" => at[w].left = Kept(at[w].seen.rows)
  /\ ~at[w].windows.live => ~SourceLive
  /\ at[w].pc = "job" => ~at[w].windows.live
  /\ at[w].pc = "applying" /\ SourceLive =>
       \A l \in Kept(rows) : rows[l].stage = "unsigned" /\ l \in young => l \in at[w].windows.prepared
PlacesAreSound == \A w \in Workers : Busy(w) => PlaceSound(w)

\* What it has read stays true as long as it matters: an authorization that was not usable is never
\* used again, and a sale that was not running then is over for good.
ReadSound(w, l) ==
  /\ l \in at[w].unread => \A s \in at[w].seen.intents : ListingOf[s] = l => s \in at[w].unread
  /\ l \notin at[w].unread /\ l \notin at[w].usable /\ at[w].seen.rows[l].stage = "signed" =>
       /\ ~Usable(confirmed, l)
       /\ \A s \in at[w].seen.intents :
            ListingOf[s] = l /\ s \notin at[w].unread /\ s \notin at[w].open => Stopped(s)
  /\ ~at[w].windows.live =>
       \A s \in at[w].seen.intents \cap before.confirmed :
         ListingOf[s] = l /\ s \notin at[w].unread /\ s \notin at[w].open => ~Running(confirmed, s)
ReadsAreSound == \A w \in Workers : Busy(w) => \A l \in Kept(at[w].seen.rows) : ReadSound(w, l)

\* A listing without its copy can never be sold again, and none of its sales runs.
Lost(l) ==
  \/ rows[l].stage = "unsigned" /\ l \notin young
  \/ /\ rows[l].stage = "signed" /\ ~Usable(confirmed, l)
     /\ \A s \in intents : ListingOf[s] = l => Stopped(s)
CopiesAreKept ==
  /\ \A l \in Listings \ Streamed : SourceLive /\ Listed(l) /\ l \notin copies => Lost(l)
  /\ \A s \in before.confirmed :
        ListingOf[s] \notin Streamed /\ Running(confirmed, s) => ListingOf[s] \in copies

\* Every copy of a listing belongs to a record that says so, and to the trace's report; a stray
\* belongs to none.
CopiesAreRecorded ==
  /\ copies \subseteq Kept(rows) \cup Strays
  /\ \A w \in Workers : Holds(w) => copies \subseteq at[w].left \cup at[w].retained \cup Strays
  /\ report.all \/ report.objects => source = "deleted"
  /\ DeletionReportIsTrue

ChainInv == SnapshotIsBehind /\ SpentIsFinal /\ SalesArePrepared /\ BeforeWasConfirmed
WorkersInv == LockIsHeld /\ PlacesAreSound /\ ReadsAreSound
RetentionInv == RetentionTypeOK /\ ChainInv /\ WorkersInv /\ CopiesAreKept /\ CopiesAreRecorded

-----------------------------------------------------------------------------
(* Lemmas.                                                                  *)

LEMMA ListingOfType == ASSUME NEW s \in Sales PROVE ListingOf[s] \in Listings /\ s \notin Listings
BY RetentionAssumption

\* What is used up or void at one moment is so at any later one.
LEMMA UsableShrinks ==
  ASSUME NEW m \in Market, NEW n \in Market, NEW l \in Listings, m.void \subseteq n.void,
         \A s \in Sales : Authorized(m, s) => Authorized(n, s), Usable(n, l)
  PROVE  Usable(m, l)
PROOF
  <1> DEFINE M == {s \in Sales : ListingOf[s] = l /\ Authorized(m, s)}
             N == {s \in Sales : ListingOf[s] = l /\ Authorized(n, s)}
  <1>1. IsFiniteSet(N) /\ M \subseteq N
    <2>1. IsFiniteSet(N) BY RetentionAssumption, FS_Subset
    <2> QED BY <2>1
  <1>2. IsFiniteSet(M) /\ Cardinality(M) <= Cardinality(N)
    <2> HIDE DEF M, N
    <2> QED BY <1>1, FS_Subset
  <1>3. Cardinality(M) \in Nat /\ Cardinality(N) \in Nat BY <1>1, <1>2, FS_CardinalityType
  <1>4. Cardinality(N) < MaxUses /\ l \notin n.void BY DEF Usable, Uses, Authorized
  <1>5. Cardinality(M) < MaxUses
    <2> HIDE DEF M, N
    <2> QED BY <1>2, <1>3, <1>4, RetentionAssumption
  <1> QED BY <1>4, <1>5 DEF Usable, Uses, Authorized

LEMMA KeptType == ASSUME NEW table \in [Listings -> Row] PROVE Kept(table) \subseteq Listings
BY DEF Kept

LEMMA WindowsType == WindowsSeen = [live : BOOLEAN, prepared : SUBSET Listings] /\ Windows \in WindowsSeen
BY DEF Windows, WindowsSeen, Kept, SourceLive

LEMMA SnapshotType == RetentionTypeOK => Snapshot \in View
BY DEF Snapshot, View, RetentionTypeOK

-----------------------------------------------------------------------------
(* The chain.                                                               *)

\* What every step of the chain preserves.
LEMMA ChainKeeps ==
  ASSUME RetentionInv, UNCHANGED <<database, young, copies, lock, at, before>>,
         head' \in Market, confirmed' \in Market, ChainInv',
         \A l \in Listings : ~Usable(confirmed, l) => ~Usable(confirmed', l),
         \A s \in Sales : ~Usable(confirmed, ListingOf[s]) /\ Stopped(s) => Stopped(s)',
         \A s \in Sales : confirmed.sale[s] = "over" => confirmed'.sale[s] = "over"
  PROVE  RetentionInv'
PROOF
  <1> USE DEF RetentionInv, database
  <1>1. RetentionTypeOK' BY DEF RetentionTypeOK
  <1>2. LockIsHeld' BY DEF WorkersInv, LockIsHeld, Holds, Snapshot
  <1>3. PlacesAreSound' BY DEF WorkersInv, PlacesAreSound, PlaceSound, Busy, SourceLive
  <1>4. \A s \in before.confirmed : ~Running(confirmed, s) => ~Running(confirmed', s)
    BY DEF RetentionTypeOK, ChainInv, BeforeWasConfirmed, Authorized, Running, Market
  <1>5. ReadsAreSound'
    <2> SUFFICES ASSUME NEW w \in Workers, Busy(w), NEW l \in Kept(at[w].seen.rows)
                 PROVE  /\ l \in at[w].unread =>
                             \A s \in at[w].seen.intents : ListingOf[s] = l => s \in at[w].unread
                        /\ l \notin at[w].unread /\ l \notin at[w].usable /\ at[w].seen.rows[l].stage = "signed" =>
                             /\ ~Usable(confirmed', l)
                             /\ \A s \in at[w].seen.intents :
                                  ListingOf[s] = l /\ s \notin at[w].unread /\ s \notin at[w].open => Stopped(s)'
                        /\ ~at[w].windows.live =>
                             \A s \in at[w].seen.intents \cap before.confirmed :
                               ListingOf[s] = l /\ s \notin at[w].unread /\ s \notin at[w].open
                               => ~Running(confirmed', s)
      BY DEF ReadsAreSound, ReadSound, Busy
    <2>1. at[w].seen.intents \subseteq Sales /\ l \in Listings
      BY DEF WorkersInv, PlacesAreSound, PlaceSound, View, Kept
    <2> QED BY <1>4, <2>1 DEF WorkersInv, ReadsAreSound, ReadSound
  <1>6. CopiesAreKept'
    <2>1. \A l \in Listings : Lost(l) => Lost(l)'
      <3> SUFFICES ASSUME NEW l \in Listings, Lost(l) PROVE Lost(l)' OBVIOUS
      <3>1. \A s \in intents : s \in Sales BY DEF RetentionTypeOK
      <3> QED BY <3>1 DEF Lost
    <2> QED BY <1>4, <2>1 DEF CopiesAreKept, SourceLive, Listed
  <1>7. CopiesAreRecorded' BY DEF CopiesAreRecorded, Strays, Listed, Holds, Kept, DeletionReportIsTrue
  <1> QED BY <1>1, <1>2, <1>3, <1>5, <1>6, <1>7 DEF WorkersInv

LEMMA FundKeeps == ASSUME RetentionInv, NEW s \in Sales, Fund(s) PROVE RetentionInv'
PROOF
  <1> DEFINE l == ListingOf[s]
             new == [head EXCEPT !.sale[s] = "running"]
  <1> USE DEF RetentionInv
  <1>1. /\ UNCHANGED <<database, young, copies, lock, confirmed, at, before>>
        /\ s \in intents /\ head.sale[s] = "none" /\ Usable(head, l) /\ head' = new
    BY DEF Fund, OnChain, Running
  <1>2. head \in Market /\ confirmed \in Market /\ l \in Listings BY ListingOfType DEF RetentionTypeOK
  <1>3. /\ head' \in Market /\ head'.void = head.void
        /\ head'.sale = [head.sale EXCEPT ![s] = "running"]
    BY <1>1, <1>2 DEF Market
  <1>4. Usable(confirmed, l) BY <1>1, <1>2, UsableShrinks DEF ChainInv, SnapshotIsBehind, Authorized
  <1>5. ChainInv'
    <2>1. SnapshotIsBehind' BY <1>1, <1>2, <1>3 DEF ChainInv, SnapshotIsBehind, Authorized, Market
    <2>2. SpentIsFinal' BY <1>1, <1>2, <1>3, <1>4 DEF ChainInv, SpentIsFinal, Authorized, Market
    <2>3. SalesArePrepared' BY <1>1, <1>2, <1>3 DEF ChainInv, SalesArePrepared, Market, database
    <2>4. BeforeWasConfirmed' BY <1>1 DEF ChainInv, BeforeWasConfirmed, Authorized
    <2> QED BY <2>1, <2>2, <2>3, <2>4 DEF ChainInv
  <1>6. \A t \in Sales : ~Usable(confirmed, ListingOf[t]) /\ Stopped(t) => Stopped(t)'
    BY <1>1, <1>2, <1>3, <1>4 DEF Stopped, Running, Market
  <1> QED BY <1>1, <1>2, <1>3, <1>5, <1>6, ChainKeeps

\* A direct offer leaves the authorization alone.
LEMMA DirectKeeps ==
  ASSUME RetentionInv, NEW s \in Sales, NEW new \in {"offered", "accepted", "ended"}, s \in intents,
         ~Authorized(head, s), OnChain([head EXCEPT !.sale[s] = new])
  PROVE  RetentionInv'
PROOF
  <1> USE DEF RetentionInv
  <1>1. /\ UNCHANGED <<database, young, copies, lock, confirmed, at, before>>
        /\ head' = [head EXCEPT !.sale[s] = new]
    BY DEF OnChain
  <1>2. head \in Market /\ confirmed \in Market BY DEF RetentionTypeOK
  <1>3. /\ head' \in Market /\ head'.void = head.void /\ head'.sale = [head.sale EXCEPT ![s] = new]
    BY <1>1, <1>2 DEF Market
  <1>4. \A t \in Sales : Authorized(head', t) <=> Authorized(head, t) BY <1>2, <1>3 DEF Authorized, Market
  <1>5. ChainInv'
    <2>1. ~Authorized(confirmed, s) BY DEF ChainInv, SnapshotIsBehind
    <2>2. SnapshotIsBehind'
      BY <1>1, <1>2, <1>3, <1>4, <2>1 DEF ChainInv, SnapshotIsBehind, Authorized, Market
    <2>3. SpentIsFinal' BY <1>1, <1>4 DEF ChainInv, SpentIsFinal
    <2>4. SalesArePrepared' BY <1>1, <1>2, <1>3 DEF ChainInv, SalesArePrepared, Market, database
    <2>5. BeforeWasConfirmed' BY <1>1 DEF ChainInv, BeforeWasConfirmed
    <2> QED BY <2>2, <2>3, <2>4, <2>5 DEF ChainInv
  <1>6. \A t \in Sales : Stopped(t) => Stopped(t)'
    BY <1>1, <1>2, <1>3 DEF Stopped, Running, Market
  <1> QED BY <1>1, <1>2, <1>3, <1>5, <1>6, ChainKeeps

LEMMA OfferKeeps ==
  ASSUME RetentionInv, NEW s \in Sales, createOffer(s) \/ acceptOffer(s) PROVE RetentionInv'
PROOF
  <1>1. CASE createOffer(s) BY <1>1, DirectKeeps DEF createOffer, Authorized
  <1>2. CASE acceptOffer(s)
    <2>1. s \in intents BY <1>2 DEF acceptOffer, RetentionInv, ChainInv, SalesArePrepared
    <2> QED BY <1>2, <2>1, DirectKeeps DEF acceptOffer, Authorized
  <1> QED BY <1>1, <1>2

LEMMA EndSaleKeeps == ASSUME RetentionInv, NEW s \in Sales, EndSale(s) PROVE RetentionInv'
PROOF
  <1> DEFINE new == [head EXCEPT !.sale[s] = "over"]
  <1> USE DEF RetentionInv
  <1>1. CASE ~Running(head, s)
    <2>1. ~Authorized(head, s) /\ s \in intents /\ OnChain([head EXCEPT !.sale[s] = "ended"])
      BY <1>1 DEF EndSale, Open, Running, Authorized, ChainInv, SalesArePrepared
    <2> QED BY <2>1, DirectKeeps
  <1>2. CASE Running(head, s)
    <2>1. /\ UNCHANGED <<database, young, copies, lock, confirmed, at, before>>
          /\ head.sale[s] = "running" /\ head' = new
      BY <1>2 DEF EndSale, OnChain, Running
    <2>2. head \in Market /\ confirmed \in Market BY DEF RetentionTypeOK
    <2>3. /\ head' \in Market /\ head'.void = head.void
          /\ head'.sale = [head.sale EXCEPT ![s] = "over"]
      BY <2>1, <2>2 DEF Market
    <2>4. ChainInv'
      <3>1. SnapshotIsBehind' BY <2>1, <2>2, <2>3 DEF ChainInv, SnapshotIsBehind, Authorized, Market
      <3>2. SpentIsFinal' BY <2>1, <2>2, <2>3 DEF ChainInv, SpentIsFinal, Authorized, Market
      <3>3. SalesArePrepared' BY <2>1, <2>2, <2>3 DEF ChainInv, SalesArePrepared, Market, database
      <3>4. BeforeWasConfirmed' BY <2>1 DEF ChainInv, BeforeWasConfirmed
      <3> QED BY <3>1, <3>2, <3>3, <3>4 DEF ChainInv
    <2>5. \A t \in Sales : ~Usable(confirmed, ListingOf[t]) /\ Stopped(t) => Stopped(t)'
      BY <2>1, <2>2, <2>3 DEF Stopped, Running, Market
    <2> QED BY <2>1, <2>2, <2>3, <2>4, <2>5, ChainKeeps
  <1> QED BY <1>1, <1>2

LEMMA VoidKeeps == ASSUME RetentionInv, NEW l \in Listings, VoidAuthorization(l) PROVE RetentionInv'
PROOF
  <1> DEFINE new == [head EXCEPT !.void = @ \cup {l}]
  <1> USE DEF RetentionInv
  <1>1. UNCHANGED <<database, young, copies, lock, confirmed, at, before>> /\ head' = new
    BY DEF VoidAuthorization, OnChain
  <1>2. head \in Market /\ confirmed \in Market BY DEF RetentionTypeOK
  <1>3. head' \in Market /\ head'.sale = head.sale /\ head.void \subseteq head'.void
    BY <1>1, <1>2 DEF Market
  <1>5. ChainInv'
    BY <1>1, <1>3 DEF ChainInv, SnapshotIsBehind, Authorized, SpentIsFinal, SalesArePrepared, BeforeWasConfirmed, database
  <1>6. \A t \in Sales : Stopped(t) => Stopped(t)' BY <1>1, <1>3 DEF Stopped, Running
  <1> QED BY <1>1, <1>2, <1>3, <1>5, <1>6, ChainKeeps

LEMMA ConfirmKeeps == ASSUME RetentionInv, Confirm PROVE RetentionInv'
PROOF
  <1> USE DEF RetentionInv
  <1>1. UNCHANGED <<database, young, copies, lock, head, at, before>> /\ confirmed' = head
    BY DEF Confirm
  <1>2. head \in Market /\ confirmed \in Market BY DEF RetentionTypeOK
  <1>3. ChainInv'
    BY <1>1, <1>2 DEF ChainInv, SnapshotIsBehind, Authorized, SpentIsFinal, SalesArePrepared, BeforeWasConfirmed,
                      database, RetentionTypeOK
  <1>4. \A l \in Listings : ~Usable(confirmed, l) => ~Usable(head, l)
    BY <1>2, UsableShrinks DEF ChainInv, SnapshotIsBehind, Authorized
  <1>5. \A s \in Sales : confirmed.sale[s] = "over" => head.sale[s] = "over"
    BY DEF ChainInv, SnapshotIsBehind, Authorized
  <1>6. \A t \in Sales : Stopped(t) => Stopped(t)' BY <1>1 DEF Stopped
  <1> QED BY <1>1, <1>2, <1>3, <1>4, <1>5, <1>6, ChainKeeps

LEMMA ReorganizeKeeps == ASSUME RetentionInv, Reorganize PROVE RetentionInv'
PROOF
  <1> USE DEF RetentionInv
  <1>1. UNCHANGED <<database, young, copies, lock, confirmed, at, before>> /\ head' = confirmed
    BY DEF Reorganize, OnChain
  <1>2. head \in Market /\ confirmed \in Market BY DEF RetentionTypeOK
  <1>3. ChainInv'
    BY <1>1, <1>2 DEF ChainInv, SnapshotIsBehind, Authorized, SpentIsFinal, SalesArePrepared, BeforeWasConfirmed,
                      database
  <1>6. \A t \in Sales : Stopped(t) => Stopped(t)' BY <1>1 DEF Stopped
  <1> QED BY <1>1, <1>2, <1>3, <1>6, ChainKeeps

-----------------------------------------------------------------------------
(* Sellers, buyers and time.                                                *)

\* Nobody is inside a transaction when another one starts.
LEMMA FreeMeansNoHolder == ASSUME RetentionInv, Free PROVE \A w \in Workers : ~Holds(w)
BY RetentionAssumption DEF RetentionInv, WorkersInv, LockIsHeld, Free

\* What was read does not depend on the tables.
LEMMA ReadsKeep ==
  ASSUME RetentionInv, UNCHANGED <<chain, at>>, before' = before \/ SourceLive
  PROVE  ReadsAreSound'
PROOF
  <1> USE DEF RetentionInv, chain
  <1> SUFFICES ASSUME NEW w \in Workers, Busy(w), NEW l \in Kept(at[w].seen.rows)
               PROVE  /\ l \in at[w].unread =>
                           \A s \in at[w].seen.intents : ListingOf[s] = l => s \in at[w].unread
                      /\ l \notin at[w].unread /\ l \notin at[w].usable /\ at[w].seen.rows[l].stage = "signed" =>
                           /\ ~Usable(confirmed, l)
                           /\ \A s \in at[w].seen.intents :
                                ListingOf[s] = l /\ s \notin at[w].unread /\ s \notin at[w].open => Stopped(s)
                      /\ ~at[w].windows.live =>
                           \A s \in at[w].seen.intents \cap before.confirmed' :
                             ListingOf[s] = l /\ s \notin at[w].unread /\ s \notin at[w].open
                             => ~Running(confirmed, s)
    BY DEF ReadsAreSound, ReadSound, Busy, Stopped
  <1>1. ~at[w].windows.live => ~SourceLive BY DEF WorkersInv, PlacesAreSound, PlaceSound
  <1> QED BY <1>1 DEF WorkersInv, ReadsAreSound, ReadSound

LEMMA FreeKeepsWorkers ==
  ASSUME RetentionInv, Free, UNCHANGED <<lock, chain, at>>, job' => source' = "deleted",
         ~SourceLive => ~SourceLive', before' = before \/ SourceLive
  PROVE  WorkersInv'
PROOF
  <1> USE DEF RetentionInv, chain
  <1>1. \A w \in Workers : ~Holds(w) BY FreeMeansNoHolder
  <1>2. LockIsHeld' BY <1>1 DEF LockIsHeld, Holds
  <1>3. PlacesAreSound' BY <1>1 DEF WorkersInv, PlacesAreSound, PlaceSound, Busy, Holds
  <1>4. ReadsAreSound' BY ReadsKeep
  <1> QED BY <1>2, <1>3, <1>4 DEF WorkersInv

\* The chain's part only asks that prepared sales have signed listings.
LEMMA SalesKeepChain ==
  ASSUME ChainInv, UNCHANGED <<chain, before>>, intents \subseteq intents',
         \A s \in Sales : s \in intents' => rows'[ListingOf[s]].stage = "signed"
  PROVE  ChainInv'
BY DEF ChainInv, SnapshotIsBehind, Authorized, SpentIsFinal, SalesArePrepared, BeforeWasConfirmed, chain

LEMMA ListKeeps == ASSUME RetentionInv, NEW l \in Listings, listTrace(l) PROVE RetentionInv'
PROOF
  <1> USE DEF RetentionInv, Others
  <1> DEFINE new == [NoRow EXCEPT !.stage = "unsigned"]
  <1>1. /\ Free /\ SourceLive /\ ~Listed(l) /\ rows' = [rows EXCEPT ![l] = new]
        /\ young' = young \cup {l} /\ copies' = copies \cup {l}
        /\ UNCHANGED <<source, intents, job, report, lock, chain, at, before>>
    BY DEF listTrace
  <1>2. new \in Row /\ new.stage = "unsigned" /\ ~new.gone BY DEF Row, NoRow, Stages
  <1> HIDE DEF new
  <1>3. rows \in [Listings -> Row] /\ rows' \in [Listings -> Row] /\ rows'[l] = new
        /\ \A k \in Listings : k # l => rows'[k] = rows[k]
    BY <1>1, <1>2 DEF RetentionTypeOK
  <1>4. RetentionTypeOK' BY <1>1, <1>3 DEF RetentionTypeOK, chain
  <1>5. ChainInv'
    <2>1. \A s \in Sales : s \in intents => rows'[ListingOf[s]].stage = "signed"
      BY <1>1, <1>3, ListingOfType DEF ChainInv, SalesArePrepared, Listed
    <2> QED BY <1>1, <2>1, SalesKeepChain
  <1>6. WorkersInv' BY <1>1, FreeKeepsWorkers DEF WorkersInv, LockIsHeld, SourceLive
  <1>7. CopiesAreKept'
    <2>1. \A k \in Listings : k # l /\ Lost(k) => Lost(k)'
      BY <1>1, <1>3 DEF Lost, Usable, Uses, Authorized, Stopped, Running, chain
    <2> QED BY <1>1, <1>3, <2>1 DEF CopiesAreKept, SourceLive, Listed, Running, chain
  <1>8. CopiesAreRecorded'
    <2>1. \A w \in Workers : ~Holds(w) BY <1>1, FreeMeansNoHolder
    <2>2. \A k \in Listings : k # l => (Listed(k)' <=> Listed(k)) BY <1>3 DEF Listed
    <2>3. copies \subseteq Listings BY DEF RetentionTypeOK
    <2>4. copies' \subseteq Kept(rows') \cup Strays'
      BY <1>1, <1>2, <1>3, <2>2, <2>3 DEF CopiesAreRecorded, Strays, Kept
    <2> QED BY <1>1, <2>1, <2>4 DEF CopiesAreRecorded, Holds, SourceLive, DeletionReportIsTrue
  <1> QED BY <1>4, <1>5, <1>6, <1>7, <1>8

\* A listing that fails leaves a copy that no row names.
LEMMA ListFailsKeeps == ASSUME RetentionInv, NEW l \in Listings, listingFails(l) PROVE RetentionInv'
PROOF
  <1> USE DEF RetentionInv, Others, chain
  <1>1. /\ Free /\ SourceLive /\ ~Listed(l) /\ copies' = copies \cup {l}
        /\ UNCHANGED <<source, rows, intents, young, job, report, lock, chain, at, before>>
    BY DEF listingFails
  <1>2. RetentionTypeOK' BY <1>1 DEF RetentionTypeOK
  <1>3. ChainInv' BY <1>1, SalesKeepChain DEF ChainInv, SalesArePrepared
  <1>4. WorkersInv' BY <1>1, FreeKeepsWorkers DEF WorkersInv, LockIsHeld, SourceLive
  <1>5. CopiesAreKept'
    <2>1. \A k \in Listings : Lost(k) => Lost(k)' BY <1>1 DEF Lost, Usable, Uses, Stopped, Running
    <2> QED BY <1>1, <2>1 DEF CopiesAreKept, SourceLive, Listed, Running
  <1>6. CopiesAreRecorded'
    <2>1. \A w \in Workers : ~Holds(w) BY <1>1, FreeMeansNoHolder
    <2>2. copies' \subseteq Kept(rows') \cup Strays' BY <1>1 DEF CopiesAreRecorded, Strays, Listed, Kept
    <2> QED BY <1>1, <2>1, <2>2 DEF CopiesAreRecorded, Holds, SourceLive, DeletionReportIsTrue
  <1> QED BY <1>2, <1>3, <1>4, <1>5, <1>6

\* An action on the rows that leaves the copies alone: stages only go from unsigned to signed, and only
\* while the listing is young.
LEMMA RowsKeep ==
  ASSUME RetentionInv, Free, rows' \in [Listings -> Row],
         UNCHANGED <<source, intents, job, report, young, copies, lock, chain, at, before>>,
         \A l \in Listings : /\ rows'[l].gone = rows[l].gone /\ (Listed(l) <=> rows'[l].stage # "none")
                             /\ rows[l].stage = "signed" => rows'[l].stage = "signed"
                             /\ rows'[l].stage # rows[l].stage => l \in young \cup Streamed
  PROVE  RetentionInv'
PROOF
  <1> USE DEF RetentionInv
  <1>1. RetentionTypeOK' BY DEF RetentionTypeOK, chain
  <1>2. ChainInv' BY SalesKeepChain, ListingOfType DEF ChainInv, SalesArePrepared
  <1>3. WorkersInv' BY FreeKeepsWorkers DEF WorkersInv, LockIsHeld, SourceLive
  <1>4. CopiesAreKept'
    <2>1. \A l \in Listings \ Streamed : Lost(l) => Lost(l)'
      BY DEF Lost, Usable, Uses, Authorized, Stopped, Running, chain
    <2> QED BY <2>1 DEF CopiesAreKept, SourceLive, Listed, Running, chain
  <1>5. CopiesAreRecorded'
    <2>1. \A w \in Workers : ~Holds(w) BY FreeMeansNoHolder
    <2>2. \A l \in Listings : Listed(l)' <=> Listed(l) BY DEF Listed
    <2>3. copies \subseteq Listings BY DEF RetentionTypeOK
    <2>4. Strays' = Strays BY <2>2, <2>3 DEF Strays
    <2>5. copies \subseteq Kept(rows') \cup Strays' BY <2>2, <2>3, <2>4 DEF CopiesAreRecorded, Kept, Listed
    <2> QED BY <2>1, <2>4, <2>5 DEF CopiesAreRecorded, Holds, DeletionReportIsTrue
  <1> QED BY <1>1, <1>2, <1>3, <1>4, <1>5

LEMMA ActivateKeeps == ASSUME RetentionInv, NEW l \in Listings, activateListing(l) PROVE RetentionInv'
PROOF
  <1> DEFINE signed == [rows EXCEPT ![l].stage = "signed", ![l].active = TRUE]
  <1>1. /\ Free /\ rows[l].stage = "unsigned" /\ l \in young \cup Streamed
        /\ UNCHANGED <<source, intents, job, report, young, copies, lock, chain, at, before>>
        /\ \/ rows' = signed
           \/ \E k \in Sampling : rows' = [signed EXCEPT ![k].sampled = TRUE]
    BY DEF activateListing, Others
  <1>2. rows \in [Listings -> Row] BY DEF RetentionInv, RetentionTypeOK
  <1>3. /\ signed \in [Listings -> Row] /\ signed[l].stage = "signed" /\ signed[l].gone = rows[l].gone
        /\ \A k \in Listings : k # l => signed[k] = rows[k]
    BY <1>2 DEF Row, Stages
  <1>4. /\ rows' \in [Listings -> Row]
        /\ \A k \in Listings : rows'[k].stage = signed[k].stage /\ rows'[k].gone = signed[k].gone
    <2> HIDE DEF signed
    <2>1. CASE rows' = signed BY <1>3, <2>1
    <2>2. ASSUME NEW k \in Sampling, rows' = [signed EXCEPT ![k].sampled = TRUE]
          PROVE  /\ rows' \in [Listings -> Row]
                 /\ \A j \in Listings : rows'[j].stage = signed[j].stage /\ rows'[j].gone = signed[j].gone
      BY <1>3, <2>2, RetentionAssumption, ZenonT(40) DEF Row
    <2> QED BY <1>1, <2>1, <2>2
  <1> HIDE DEF signed
  <1> QED BY <1>1, <1>2, <1>3, <1>4, RowsKeep DEF Listed

LEMMA UnlistKeeps == ASSUME RetentionInv, NEW l \in Listings, unlist(l) PROVE RetentionInv'
PROOF
  <1>1. /\ Free /\ rows' = [rows EXCEPT ![l].active = FALSE, ![l].unlisted = TRUE]
        /\ UNCHANGED <<source, intents, job, report, young, copies, lock, chain, at, before>>
    BY DEF unlist, Others
  <1>2. rows \in [Listings -> Row] BY DEF RetentionInv, RetentionTypeOK
  <1>3. /\ rows' \in [Listings -> Row]
        /\ \A k \in Listings : rows'[k].stage = rows[k].stage /\ rows'[k].gone = rows[k].gone
    BY <1>1, <1>2 DEF Row
  <1> QED BY <1>1, <1>3, RowsKeep DEF Listed

LEMMA PrepareKeeps == ASSUME RetentionInv, NEW s \in Sales, prepareOffer(s) PROVE RetentionInv'
PROOF
  <1> USE DEF RetentionInv, Others
  <1> DEFINE l == ListingOf[s]
  <1>1. /\ Free /\ SourceLive /\ rows[l].stage = "signed" /\ Usable(confirmed, l)
        /\ intents' = intents \cup {s}
        /\ UNCHANGED <<source, rows, job, report, young, copies, lock, chain, at, before>>
    BY DEF prepareOffer
  <1>2. l \in Listings BY ListingOfType
  <1>3. RetentionTypeOK' BY <1>1 DEF RetentionTypeOK, chain
  <1>4. ChainInv' BY <1>1, SalesKeepChain DEF ChainInv, SalesArePrepared
  <1>5. WorkersInv' BY <1>1, FreeKeepsWorkers DEF WorkersInv, LockIsHeld, SourceLive
  <1>6. CopiesAreKept'
    <2>1. \A k \in Listings : Lost(k) => Lost(k)'
      BY <1>1, <1>2 DEF Lost, Usable, Uses, Authorized, Stopped, Running, chain
    <2> QED BY <1>1, <2>1 DEF CopiesAreKept, SourceLive, Listed, Running, chain
  <1>7. CopiesAreRecorded' BY <1>1 DEF CopiesAreRecorded, Strays, Listed, Kept, Holds, DeletionReportIsTrue
  <1> QED BY <1>3, <1>4, <1>5, <1>6, <1>7

\* While the source is live a running sale has its copy.
LEMMA RunningHaveCopies ==
  ASSUME RetentionInv, SourceLive, NEW s \in Sales, ListingOf[s] \notin Streamed,
         Running(head, s) \/ Running(confirmed, s)
  PROVE  ListingOf[s] \in copies
PROOF
  <1>1. s \in intents /\ rows[ListingOf[s]].stage = "signed"
    BY DEF RetentionInv, ChainInv, SnapshotIsBehind, Authorized, SalesArePrepared, Running
  <1>2. ~Lost(ListingOf[s]) BY <1>1 DEF Lost, Stopped
  <1> QED BY <1>1, <1>2, ListingOfType DEF RetentionInv, CopiesAreKept, Listed

LEMMA EndPreparationKeeps == ASSUME RetentionInv, NEW l \in Listings, EndPreparation(l) PROVE RetentionInv'
PROOF
  <1> USE DEF RetentionInv, database, chain
  <1>1. young' = young \ {l} /\ UNCHANGED <<database, copies, lock, chain, at, before>> BY DEF EndPreparation
  <1>2. RetentionTypeOK' BY <1>1 DEF RetentionTypeOK
  <1>3. ChainInv' BY <1>1, SalesKeepChain DEF ChainInv, SalesArePrepared
  <1>4. WorkersInv'
    <2>1. LockIsHeld' BY <1>1 DEF WorkersInv, LockIsHeld, Holds, Snapshot
    <2>2. PlacesAreSound' BY <1>1 DEF WorkersInv, PlacesAreSound, PlaceSound, Busy, SourceLive
    <2>3. ReadsAreSound' BY <1>1, ReadsKeep
    <2> QED BY <2>1, <2>2, <2>3 DEF WorkersInv
  <1>5. CopiesAreKept'
    <2>1. \A k \in Listings : Lost(k) => Lost(k)' BY <1>1 DEF Lost, Usable, Uses, Authorized, Stopped, Running
    <2> QED BY <1>1, <2>1 DEF CopiesAreKept, SourceLive, Listed, Running
  <1>6. CopiesAreRecorded' BY <1>1 DEF CopiesAreRecorded, Strays, Listed, Kept, Holds, DeletionReportIsTrue
  <1> QED BY <1>2, <1>3, <1>4, <1>5, <1>6

\* What is remembered when the source stops being live.
LEMMA RememberedAreConfirmed ==
  ASSUME RetentionInv, SourceLive, before' = Remember
  PROVE  /\ before' \in [confirmed : SUBSET Sales, head : SUBSET Sales]
         /\ \A s \in before.confirmed' : /\ s \in Sales /\ Running(confirmed, s)
                                         /\ ListingOf[s] \notin Streamed => ListingOf[s] \in copies
PROOF
  <1>1. /\ before' = [confirmed |-> {s \in Sales : Running(confirmed, s)},
                      head |-> {s \in Sales : Running(head, s)}]
    BY DEF Remember
  <1>2. before.confirmed' = {s \in Sales : Running(confirmed, s)} BY <1>1
  <1> QED BY <1>1, <1>2, RunningHaveCopies

LEMMA EndRetentionKeeps == ASSUME RetentionInv, EndRetention PROVE RetentionInv'
PROOF
  <1> USE DEF RetentionInv, chain
  <1>1. /\ SourceLive /\ source' = "expired" /\ before' = Remember
        /\ UNCHANGED <<rows, intents, job, report, young, copies, lock, chain, at>>
    BY DEF EndRetention
  <1>2. /\ before' \in [confirmed : SUBSET Sales, head : SUBSET Sales]
        /\ \A s \in before.confirmed' : /\ s \in Sales /\ Running(confirmed, s)
                                        /\ ListingOf[s] \notin Streamed => ListingOf[s] \in copies
    BY <1>1, RememberedAreConfirmed
  <1>3. source = "live" /\ ~SourceLive' BY <1>1 DEF SourceLive
  <1>4. RetentionTypeOK' BY <1>1, <1>2 DEF RetentionTypeOK
  <1>5. ChainInv'
    BY <1>1, <1>2 DEF ChainInv, SnapshotIsBehind, Authorized, SpentIsFinal, SalesArePrepared, BeforeWasConfirmed, Running
  <1>6. WorkersInv'
    <2>1. LockIsHeld' BY <1>1, <1>3 DEF WorkersInv, LockIsHeld, Holds, Snapshot
    <2>2. PlacesAreSound' BY <1>1, <1>3 DEF WorkersInv, PlacesAreSound, PlaceSound, Busy
    <2>3. ReadsAreSound' BY <1>1, ReadsKeep
    <2> QED BY <2>1, <2>2, <2>3 DEF WorkersInv
  <1>7. CopiesAreKept' BY <1>1, <1>2, <1>3 DEF CopiesAreKept
  <1>8. CopiesAreRecorded' BY <1>1, <1>3 DEF CopiesAreRecorded, Strays, Listed, Kept, Holds, DeletionReportIsTrue
  <1> QED BY <1>4, <1>5, <1>6, <1>7, <1>8

LEMMA MarkDeletedKeeps ==
  ASSUME RetentionInv, Free, MarkDeleted, IF SourceLive THEN before' = Remember ELSE before' = before
  PROVE  RetentionInv'
PROOF
  <1> USE DEF RetentionInv, chain
  <1>1. /\ source' = "deleted" /\ job' = TRUE
        /\ UNCHANGED <<rows, intents, report, young, copies, lock, chain, at>>
    BY DEF MarkDeleted
  <1>2. /\ before' \in [confirmed : SUBSET Sales, head : SUBSET Sales]
        /\ \A s \in before.confirmed' :
             /\ s \in Sales /\ Authorized(confirmed, s)
             /\ ListingOf[s] \notin Streamed /\ Running(confirmed, s) => ListingOf[s] \in copies
    <2>1. CASE SourceLive BY <2>1, RememberedAreConfirmed DEF Running, Authorized
    <2>2. CASE ~SourceLive
      BY <2>2 DEF RetentionTypeOK, ChainInv, BeforeWasConfirmed, Authorized, CopiesAreKept
    <2> QED BY <2>1, <2>2
  <1>3. ~SourceLive' BY <1>1 DEF SourceLive
  <1>4. RetentionTypeOK' BY <1>1, <1>2 DEF RetentionTypeOK
  <1>5. ChainInv'
    BY <1>1, <1>2 DEF ChainInv, SnapshotIsBehind, Authorized, SpentIsFinal, SalesArePrepared, BeforeWasConfirmed
  <1>6. WorkersInv' BY <1>1, <1>3, FreeKeepsWorkers
  <1>7. CopiesAreKept' BY <1>1, <1>2, <1>3 DEF CopiesAreKept, Running
  <1>8. CopiesAreRecorded' BY <1>1 DEF CopiesAreRecorded, Strays, Listed, Kept, Holds, DeletionReportIsTrue
  <1> QED BY <1>4, <1>5, <1>6, <1>7, <1>8

LEMMA DeleteKeeps == ASSUME RetentionInv, deleteTrace \/ markExpired PROVE RetentionInv'
PROOF
  <1>1. CASE deleteTrace BY <1>1, MarkDeletedKeeps DEF deleteTrace
  <1>2. CASE markExpired BY <1>2, MarkDeletedKeeps DEF markExpired, SourceLive
  <1> QED BY <1>1, <1>2

-----------------------------------------------------------------------------
(* The workers.                                                             *)

\* What a worker may remove.
Discardable(l) ==
  /\ SourceLive => Lost(l)
  /\ \A s \in before.confirmed : ListingOf[s] = l => ~Running(confirmed, s)

\* A step of one worker that leaves the tables alone.
LEMMA WorkerKeeps ==
  ASSUME RetentionInv, NEW w \in Workers, at' \in [Workers -> Place],
         \A v \in Workers : v # w => at'[v] = at[v],
         UNCHANGED <<source, rows, intents, report, young, chain, before>>,
         copies' \subseteq copies, \A l \in copies \ copies' : Discardable(l),
         job' \in BOOLEAN, lock' \in Workers \cup {None}, LockIsHeld',
         Busy(w)' => PlaceSound(w)',
         Busy(w)' => \A l \in Kept(at'[w].seen.rows) : ReadSound(w, l)',
         Holds(w)' => copies' \subseteq at'[w].left \cup at'[w].retained \cup Strays
  PROVE  RetentionInv'
PROOF
  <1> USE DEF RetentionInv, chain
  <1>1. RetentionTypeOK' BY DEF RetentionTypeOK
  <1>2. ChainInv' BY SalesKeepChain DEF ChainInv, SalesArePrepared
  <1>3. PlacesAreSound'
    <2>1. \A v \in Workers : v # w /\ Busy(v)' => PlaceSound(v)'
      BY DEF WorkersInv, PlacesAreSound, PlaceSound, Busy, SourceLive
    <2> QED BY <2>1 DEF PlacesAreSound
  <1>4. ReadsAreSound'
    <2>1. ASSUME NEW v \in Workers, v # w, Busy(v)' PROVE \A l \in Kept(at[v].seen.rows) : ReadSound(v, l)'
      <3>1. at'[v] = at[v] /\ Busy(v) BY <2>1 DEF Busy
      <3> QED BY <2>1, <3>1, ZenonT(40) DEF WorkersInv, ReadsAreSound, ReadSound, Usable, Uses, Authorized, Stopped, Running
    <2> QED BY <2>1 DEF ReadsAreSound
  <1>5. CopiesAreKept'
    <2>1. \A k \in Listings : Lost(k) => Lost(k)' BY DEF Lost, Usable, Uses, Authorized, Stopped, Running
    <2> QED BY <2>1 DEF CopiesAreKept, SourceLive, Listed, Running, Discardable
  <1>6. CopiesAreRecorded' BY DEF CopiesAreRecorded, Strays, Listed, Kept, Holds, DeletionReportIsTrue
  <1> QED BY <1>1, <1>2, <1>3, <1>4, <1>5, <1>6 DEF WorkersInv

\* What a worker holds when it begins.
LEMMA GoType ==
  ASSUME RetentionTypeOK, NEW w \in Workers, NEW pc \in {"reading", "job"}
  PROVE  /\ Go(w, pc) \in Place
         /\ Go(w, pc).pc = pc /\ Go(w, pc).seen = Snapshot /\ Go(w, pc).windows = Windows
         /\ Go(w, pc).left = Kept(rows) /\ Go(w, pc).usable = {} /\ Go(w, pc).open = {}
         /\ Go(w, pc).unread = Kept(rows) \cup {s \in intents : ListingOf[s] \in Kept(rows)}
PROOF
  <1>1. Snapshot \in View /\ Windows \in WindowsSeen BY SnapshotType, WindowsType
  <1>2. Kept(rows) \subseteq Listings BY DEF Kept
  <1>3. intents \subseteq Sales BY DEF RetentionTypeOK
  <1> QED BY <1>1, <1>2, <1>3 DEF Go, Place, WindowsSeen

LEMMA GoIsSound ==
  ASSUME RetentionInv, NEW w \in Workers, NEW pc \in {"reading", "job"}, at' = [at EXCEPT ![w] = Go(w, pc)],
         UNCHANGED <<source, rows, intents, young, chain, before>>, pc = "job" => source = "deleted"
  PROVE  PlaceSound(w)' /\ \A l \in Kept(at'[w].seen.rows) : ReadSound(w, l)'
PROOF
  <1> DEFINE p == Go(w, pc)
  <1> USE DEF RetentionInv
  <1>1. /\ p \in Place /\ p.pc = pc /\ p.seen = Snapshot /\ p.windows = Windows
        /\ p.left = Kept(rows) /\ p.usable = {} /\ p.open = {}
        /\ p.unread = Kept(rows) \cup {s \in intents : ListingOf[s] \in Kept(rows)}
    BY GoType
  <1>2. at'[w] = p BY DEF RetentionTypeOK
  <1>3. p.seen \in View /\ p.windows \in WindowsSeen BY <1>1, SnapshotType, WindowsType
  <1>4. p.seen.rows = rows /\ p.seen.intents = intents /\ p.windows.live = SourceLive
    BY <1>1 DEF Snapshot, Windows
  <1> HIDE DEF p
  <1>5. PlaceSound(w)'
    <2>1. pc = "job" => ~SourceLive BY DEF SourceLive
    <2>2. SourceLive' = SourceLive BY DEF SourceLive
    <2> QED BY <1>1, <1>2, <1>3, <1>4, <2>1, <2>2 DEF PlaceSound
  <1>6. ASSUME NEW l \in Kept(rows) PROVE ReadSound(w, l)'
    <2>1. l \in p.unread /\ \A s \in p.seen.intents : ListingOf[s] = l => s \in p.unread BY <1>1, <1>4
    <2> QED BY <1>2, <2>1 DEF ReadSound
  <1> QED BY <1>2, <1>4, <1>5, <1>6

LEMMA BeginSweepKeeps == ASSUME RetentionInv, NEW w \in Workers, BeginSweep(w) PROVE RetentionInv'
PROOF
  <1> USE DEF RetentionInv, database
  <1>1. /\ at[w].pc = "idle" /\ at' = [at EXCEPT ![w] = Go(w, "reading")]
        /\ UNCHANGED <<database, young, copies, lock, chain, before>>
    BY DEF BeginSweep
  <1>2. Go(w, "reading") \in Place /\ Go(w, "reading").pc = "reading" BY GoType
  <1>3. /\ at' \in [Workers -> Place] /\ at'[w].pc = "reading"
        /\ \A v \in Workers : v # w => at'[v] = at[v]
    BY <1>1, <1>2 DEF RetentionTypeOK
  <1>4. PlaceSound(w)' /\ \A l \in Kept(at'[w].seen.rows) : ReadSound(w, l)' BY <1>1, GoIsSound
  <1>5. LockIsHeld' BY <1>1, <1>3 DEF WorkersInv, LockIsHeld, Holds, Snapshot
  <1>6. ~Holds(w)' BY <1>3 DEF Holds
  <1> QED BY <1>1, <1>3, <1>4, <1>5, <1>6, WorkerKeeps DEF RetentionTypeOK

LEMMA BeginJobKeeps == ASSUME RetentionInv, NEW w \in Workers, BeginJob(w) PROVE RetentionInv'
PROOF
  <1> USE DEF RetentionInv, database
  <1>1. /\ at[w].pc = "idle" /\ at' = [at EXCEPT ![w] = Go(w, "job")] /\ Free /\ job /\ lock' = w
        /\ UNCHANGED <<database, young, copies, chain, before>>
    BY DEF BeginJob
  <1>2. /\ Go(w, "job") \in Place /\ Go(w, "job").pc = "job" /\ Go(w, "job").left = Kept(rows)
        /\ Go(w, "job").seen = Snapshot
    BY GoType
  <1>3. /\ at' \in [Workers -> Place] /\ at'[w] = Go(w, "job")
        /\ \A v \in Workers : v # w => at'[v] = at[v]
    BY <1>1, <1>2 DEF RetentionTypeOK
  <1>4. source = "deleted" BY <1>1 DEF WorkersInv, LockIsHeld
  <1>5. PlaceSound(w)' /\ \A l \in Kept(at'[w].seen.rows) : ReadSound(w, l)' BY <1>1, <1>4, GoIsSound
  <1>6. LockIsHeld'
    <2>1. \A v \in Workers : ~Holds(v) BY <1>1, FreeMeansNoHolder
    <2>2. Snapshot' = Snapshot BY <1>1 DEF Snapshot
    <2> QED BY <1>1, <1>2, <1>3, <1>4, <2>1, <2>2 DEF LockIsHeld, Holds
  <1>7. copies' \subseteq at'[w].left \cup Strays BY <1>1, <1>2, <1>3 DEF CopiesAreRecorded, Strays, Listed
  <1> QED BY <1>1, <1>3, <1>5, <1>6, <1>7, WorkerKeeps DEF RetentionTypeOK

\* A busy worker's place stays sound when it only reads.
LEMMA ReadingStaysSound ==
  ASSUME RetentionInv, NEW w \in Workers, Busy(w), Busy(w)', UNCHANGED <<source, rows, young>>,
         at'[w].pc = at[w].pc, at'[w].seen = at[w].seen, at'[w].windows = at[w].windows,
         at'[w].left = at[w].left
  PROVE  PlaceSound(w)'
BY DEF RetentionInv, WorkersInv, PlacesAreSound, PlaceSound, SourceLive

LEMMA ReadAuthorizationKeeps ==
  ASSUME RetentionInv, NEW w \in Workers, NEW l \in Listings, ReadAuthorization(w, l) PROVE RetentionInv'
PROOF
  <1> USE DEF RetentionInv, database
  <1> DEFINE yes == at[w].seen.rows[l].stage = "signed" /\ Usable(confirmed, l)
             p == at[w]
             q == at'[w]
  <1>1. /\ Busy(w) /\ l \in p.unread
        /\ at' = [at EXCEPT ![w].unread = @ \ {l}, ![w].usable = IF yes THEN @ \cup {l} ELSE @]
        /\ UNCHANGED <<source, rows, intents, job, report, young, copies, lock, chain, before>>
    BY DEF ReadAuthorization, Reading, Busy
  <1> HIDE DEF yes
  <1>2. at \in [Workers -> Place] BY DEF RetentionTypeOK
  <1>3. /\ at' \in [Workers -> Place] /\ \A v \in Workers : v # w => at'[v] = at[v]
        /\ q.pc = p.pc /\ q.seen = p.seen /\ q.windows = p.windows /\ q.left = p.left
        /\ q.open = p.open /\ q.retained = p.retained /\ q.unread = p.unread \ {l}
        /\ q.usable = IF yes THEN p.usable \cup {l} ELSE p.usable
    <2>1. p \in Place BY <1>2
    <2>2. CASE yes BY <1>1, <1>2, <2>1, <2>2 DEF Place
    <2>3. CASE ~yes BY <1>1, <1>2, <2>1, <2>3 DEF Place
    <2> QED BY <2>2, <2>3
  <1>4. Busy(w)' BY <1>1, <1>3 DEF Busy
  <1>5. PlaceSound(w)' BY <1>1, <1>3, <1>4, ReadingStaysSound
  <1>6. ASSUME NEW k \in Kept(q.seen.rows) PROVE ReadSound(w, k)'
    <2>1. p.seen.intents \subseteq Sales /\ k \in Listings
      BY <1>1, <1>3 DEF WorkersInv, PlacesAreSound, PlaceSound, View, Kept
    <2>2. \A s \in p.seen.intents : s \in q.unread <=> s \in p.unread
      BY <1>3, <2>1, ListingOfType
    <2>3. ReadSound(w, k) BY <1>1, <1>3 DEF WorkersInv, ReadsAreSound
    <2>4. CASE k = l
      <3>1. \A s \in q.seen.intents : ListingOf[s] = l => s \in q.unread
        BY <1>1, <1>3, <2>2, <2>3, <2>4 DEF ReadSound
      <3>2. l \notin q.usable /\ q.seen.rows[l].stage = "signed" => ~Usable(confirmed', l)
        BY <1>1, <1>3 DEF yes, chain
      <3> QED BY <2>4, <3>1, <3>2 DEF ReadSound
    <2>5. CASE k # l
      <3>1. k \in q.unread <=> k \in p.unread BY <1>3, <2>5
      <3>2. k \in q.usable <=> k \in p.usable BY <1>3, <2>5
      <3> QED BY <1>1, <1>3, <2>2, <2>3, <3>1, <3>2 DEF ReadSound, Usable, Uses, Authorized, Stopped, Running, chain
    <2> QED BY <2>4, <2>5
  <1>7. LockIsHeld' BY <1>1, <1>3 DEF WorkersInv, LockIsHeld, Holds, Snapshot
  <1>8. Holds(w)' => copies' \subseteq q.left \cup q.retained \cup Strays BY <1>1, <1>3 DEF CopiesAreRecorded, Strays, Listed, Holds
  <1> QED BY <1>1, <1>3, <1>5, <1>6, <1>7, <1>8, WorkerKeeps DEF RetentionTypeOK

LEMMA ReadOfferKeeps ==
  ASSUME RetentionInv, NEW w \in Workers, NEW s \in Sales, ReadOffer(w, s) PROVE RetentionInv'
PROOF
  <1> USE DEF RetentionInv, database
  <1> DEFINE yes == Open(confirmed, s)
             p == at[w]
             q == at'[w]
  <1>1. /\ Busy(w) /\ s \in p.unread /\ ListingOf[s] \notin p.unread
        /\ at' = [at EXCEPT ![w].unread = @ \ {s}, ![w].open = IF yes THEN @ \cup {s} ELSE @]
        /\ UNCHANGED <<source, rows, intents, job, report, young, copies, lock, chain, before>>
    BY DEF ReadOffer, Reading, Busy
  <1> HIDE DEF yes
  <1>2. at \in [Workers -> Place] BY DEF RetentionTypeOK
  <1>3. /\ at' \in [Workers -> Place] /\ \A v \in Workers : v # w => at'[v] = at[v]
        /\ q.pc = p.pc /\ q.seen = p.seen /\ q.windows = p.windows /\ q.left = p.left
        /\ q.usable = p.usable /\ q.retained = p.retained /\ q.unread = p.unread \ {s}
        /\ q.open = IF yes THEN p.open \cup {s} ELSE p.open
    <2>1. p \in Place BY <1>2
    <2>2. CASE yes BY <1>1, <1>2, <2>1, <2>2 DEF Place
    <2>3. CASE ~yes BY <1>1, <1>2, <2>1, <2>3 DEF Place
    <2> QED BY <2>2, <2>3
  <1>4. Busy(w)' BY <1>1, <1>3 DEF Busy
  <1>5. PlaceSound(w)' BY <1>1, <1>3, <1>4, ReadingStaysSound
  <1>6. ASSUME NEW k \in Kept(q.seen.rows) PROVE ReadSound(w, k)'
    <2>1. k \in Listings /\ s \notin Listings BY <1>3, ListingOfType DEF Kept
    <2>2. k \in q.unread <=> k \in p.unread BY <1>3, <2>1
    <2>3. ReadSound(w, k) BY <1>1, <1>3 DEF WorkersInv, ReadsAreSound
    <2>4. CASE yes
      <3>1. \A t \in Sales : t \notin q.unread /\ t \notin q.open => t \notin p.unread /\ t \notin p.open
        BY <1>3, <2>4
      <3>2. p.seen.intents \subseteq Sales
        BY <1>1 DEF WorkersInv, PlacesAreSound, PlaceSound, View
      <3> QED BY <1>1, <1>3, <2>2, <2>3, <3>1, <3>2 DEF ReadSound, Usable, Uses, Authorized, Stopped, Running, chain
    <2>5. CASE ~yes
      <3>1. ~Running(confirmed, s) BY <2>5 DEF yes, Open, Running
      <3>2. ~Usable(confirmed, ListingOf[s]) => Stopped(s)
        <4>1. head \in Market /\ confirmed \in Market BY DEF RetentionTypeOK
        <4> QED BY <3>1, <4>1 DEF ChainInv, SnapshotIsBehind, Authorized, SpentIsFinal, Stopped, Running, Market
      <3>3. \A t : t # s /\ t \notin q.unread /\ t \notin q.open => t \notin p.unread /\ t \notin p.open
        BY <1>3, <2>5
      <3>4. ListingOf[s] = k => k \notin p.unread BY <1>1
      <3>5. k \notin q.unread /\ k \notin q.usable /\ q.seen.rows[k].stage = "signed" =>
              /\ ~Usable(confirmed, k)
              /\ \A t \in q.seen.intents :
                   ListingOf[t] = k /\ t \notin q.unread /\ t \notin q.open => Stopped(t)
        BY <1>3, <2>2, <2>3, <3>2, <3>3 DEF ReadSound
      <3>6. ~q.windows.live =>
              \A t \in q.seen.intents \cap before.confirmed :
                ListingOf[t] = k /\ t \notin q.unread /\ t \notin q.open => ~Running(confirmed, t)
        BY <1>3, <2>3, <3>1, <3>3 DEF ReadSound
      <3>7. k \in q.unread => \A t \in q.seen.intents : ListingOf[t] = k => t \in q.unread
        BY <1>3, <2>2, <2>3, <3>4 DEF ReadSound
      <3> QED BY <1>1, <3>5, <3>6, <3>7 DEF ReadSound, Usable, Uses, Authorized, Stopped, Running, chain
    <2> QED BY <2>4, <2>5
  <1>7. LockIsHeld' BY <1>1, <1>3 DEF WorkersInv, LockIsHeld, Holds, Snapshot
  <1>8. Holds(w)' => copies' \subseteq q.left \cup q.retained \cup Strays BY <1>1, <1>3 DEF CopiesAreRecorded, Strays, Listed, Holds
  <1> QED BY <1>1, <1>3, <1>5, <1>6, <1>7, <1>8, WorkerKeeps DEF RetentionTypeOK

LEMMA IdleType == Idle \in Place /\ Idle.pc = "idle"
BY DEF Idle, Place, View

LEMMA ApplyKeeps == ASSUME RetentionInv, NEW w \in Workers, Apply(w) PROVE RetentionInv'
PROOF
  <1> USE DEF RetentionInv, database
  <1> DEFINE p == at[w]
             q == at'[w]
  <1>1. /\ p.pc = "reading" /\ p.unread = {} /\ Free
        /\ UNCHANGED <<source, rows, intents, job, report, young, copies, chain, before>>
        /\ \/ /\ Snapshot = p.seen /\ Windows = p.windows /\ lock' = w
              /\ at' = [at EXCEPT ![w].pc = "applying", ![w].windows = Windows]
           \/ at' = [at EXCEPT ![w] = Idle] /\ lock' = lock
    BY DEF Apply
  <1>2. at \in [Workers -> Place] /\ \A v \in Workers : ~Holds(v)
    BY <1>1, FreeMeansNoHolder DEF RetentionTypeOK
  <1>3. CASE /\ Snapshot = p.seen /\ Windows = p.windows /\ lock' = w
             /\ at' = [at EXCEPT ![w].pc = "applying", ![w].windows = Windows]
    <2>1. /\ at' \in [Workers -> Place] /\ \A v \in Workers : v # w => at'[v] = at[v]
          /\ q.pc = "applying" /\ q.seen = p.seen /\ q.windows = Windows /\ q.left = p.left
          /\ q.usable = p.usable /\ q.retained = p.retained /\ q.unread = p.unread /\ q.open = p.open
      <3>1. p \in Place /\ Windows \in WindowsSeen BY <1>2, WindowsType
      <3> QED BY <1>2, <1>3, <3>1 DEF Place, WindowsSeen
    <2>2. Busy(w) /\ PlaceSound(w) /\ \A k \in Kept(p.seen.rows) : ReadSound(w, k)
      BY <1>1 DEF Busy, WorkersInv, PlacesAreSound, ReadsAreSound
    <2>3. p.seen.rows = rows BY <1>3 DEF Snapshot
    <2>4. PlaceSound(w)'
      <3>1. Windows \in WindowsSeen BY WindowsType
      <3>2. /\ Windows.live = SourceLive /\ SourceLive' = SourceLive
            /\ SourceLive => \A k \in Kept(rows) :
                 rows[k].stage = "unsigned" /\ k \in young => k \in Windows.prepared
        BY <1>1 DEF Windows, SourceLive, Kept
      <3> QED BY <1>1, <2>1, <2>2, <2>3, <3>1, <3>2 DEF PlaceSound
    <2>5. ASSUME NEW k \in Kept(q.seen.rows) PROVE ReadSound(w, k)'
      <3>1. q.windows = p.windows /\ ReadSound(w, k) BY <1>3, <2>1, <2>2
      <3> QED BY <1>1, <2>1, <3>1 DEF ReadSound, Usable, Uses, Authorized, Stopped, Running, chain
    <2>6. LockIsHeld'
      <3>1. Snapshot' = Snapshot BY <1>1 DEF Snapshot
      <3> QED BY <1>1, <1>2, <1>3, <2>1, <3>1 DEF WorkersInv, LockIsHeld, Holds
    <2>7. copies' \subseteq q.left \cup Strays BY <1>1, <2>1, <2>2, <2>3 DEF PlaceSound, CopiesAreRecorded, Strays, Listed
    <2> QED BY <1>1, <1>3, <2>1, <2>4, <2>5, <2>6, <2>7, WorkerKeeps DEF RetentionTypeOK
  <1>4. CASE at' = [at EXCEPT ![w] = Idle] /\ lock' = lock
    <2>1. /\ at' \in [Workers -> Place] /\ q.pc = "idle" /\ \A v \in Workers : v # w => at'[v] = at[v]
      BY <1>2, <1>4, IdleType
    <2>2. LockIsHeld' BY <1>1, <1>2, <2>1 DEF WorkersInv, LockIsHeld, Holds
    <2> QED BY <1>1, <1>4, <2>1, <2>2, WorkerKeeps DEF RetentionTypeOK, Busy, Holds
  <1> QED BY <1>1, <1>3, <1>4

LEMMA FailKeeps == ASSUME RetentionInv, NEW w \in Workers, Fail(w) PROVE RetentionInv'
PROOF
  <1> USE DEF RetentionInv
  <1>1. /\ at' = [at EXCEPT ![w] = Idle] /\ lock' = IF lock = w THEN None ELSE lock
        /\ IF at[w].pc = "job" THEN job' \in BOOLEAN ELSE job' = job
        /\ UNCHANGED <<source, rows, intents, report, young, copies, chain, before>>
    BY DEF Fail
  <1>2. /\ at' \in [Workers -> Place] /\ at'[w].pc = "idle" /\ \A v \in Workers : v # w => at'[v] = at[v]
    BY <1>1, IdleType DEF RetentionTypeOK
  <1>3. job' \in BOOLEAN /\ lock' \in Workers \cup {None} BY <1>1 DEF RetentionTypeOK
  <1>4. LockIsHeld'
    <2>1. Snapshot' = Snapshot BY <1>1 DEF Snapshot
    <2>2. job' => source' = "deleted" BY <1>1 DEF WorkersInv, LockIsHeld
    <2> QED BY <1>1, <1>2, <2>1, <2>2 DEF WorkersInv, LockIsHeld, Holds
  <1> QED BY <1>1, <1>2, <1>3, <1>4, WorkerKeeps DEF Busy, Holds

\* A copy that nothing keeps, from what was read, was indeed lost to everybody.
LEMMA UnkeptAreDiscardable ==
  ASSUME RetentionInv, NEW w \in Workers, Holds(w), NEW l \in at[w].left, l \notin at[w].unread,
         \A s \in at[w].unread \cap Sales : ListingOf[s] # l, ~Keep(w, l)
  PROVE  Discardable(l)
PROOF
  <1> USE DEF RetentionInv
  <1> DEFINE p == at[w]
  <1>1. Busy(w) /\ p.pc \in {"applying", "job"} /\ p.seen = Snapshot BY DEF Busy, Holds, WorkersInv, LockIsHeld
  <1>2. p.seen.rows = rows /\ p.seen.intents = intents BY <1>1 DEF Snapshot
  <1>3. l \in Kept(rows) /\ l \in Listings /\ PlaceSound(w)
    BY <1>1, <1>2 DEF WorkersInv, PlacesAreSound, PlaceSound, Kept
  <1>4. ReadSound(w, l) BY <1>1, <1>2, <1>3 DEF WorkersInv, ReadsAreSound
  <1>5. intents \subseteq Sales BY DEF RetentionTypeOK
  <1>6. \A s \in intents : ListingOf[s] = l => s \notin p.unread /\ s \notin p.open
    BY <1>5 DEF Keep
  <1>7. ~p.windows.live => ~SourceLive BY <1>3 DEF PlaceSound
  <1>8. CASE p.windows.live
    <2>1. rows[l].stage = "signed" => l \notin p.usable BY <1>2, <1>8 DEF Keep
    <2>2. rows[l].stage = "signed" =>
            ~Usable(confirmed, l) /\ \A s \in intents : ListingOf[s] = l => Stopped(s)
      BY <1>2, <1>4, <1>6, <2>1 DEF ReadSound
    <2>3. p.pc = "applying" BY <1>1, <1>3, <1>8 DEF PlaceSound
    <2>4. SourceLive /\ rows[l].stage = "unsigned" => l \notin young
      BY <1>3, <2>3 DEF PlaceSound, Keep
    <2>5. rows[l].stage \in {"unsigned", "signed"}
      BY <1>3 DEF Kept, RetentionTypeOK, Row, Stages
    <2>6. SourceLive => Lost(l) BY <2>2, <2>4, <2>5 DEF Lost
    <2>7. ASSUME NEW s \in before.confirmed, ListingOf[s] = l, Running(confirmed, s) PROVE FALSE
      <3>1. s \in Sales BY DEF RetentionTypeOK
      <3>2. s \in intents /\ rows[l].stage = "signed"
        BY <2>7, <3>1 DEF ChainInv, SnapshotIsBehind, Authorized, SalesArePrepared, Running
      <3> QED BY <2>2, <2>7, <3>2 DEF Stopped
    <2> QED BY <2>6, <2>7 DEF Discardable
  <1>9. CASE ~p.windows.live
    <2>1. ASSUME NEW s \in before.confirmed, ListingOf[s] = l, Running(confirmed, s) PROVE FALSE
      <3>1. s \in Sales BY DEF RetentionTypeOK
      <3>2. s \in intents
        BY <2>1, <3>1 DEF ChainInv, SnapshotIsBehind, Authorized, SalesArePrepared, Running
      <3> QED BY <1>2, <1>4, <1>6, <1>9, <2>1, <3>2 DEF ReadSound
    <2> QED BY <1>7, <1>9, <2>1 DEF Discardable
  <1> QED BY <1>8, <1>9

LEMMA DiscardKeeps ==
  ASSUME RetentionInv, NEW w \in Workers, NEW l \in Listings, Discard(w, l) PROVE RetentionInv'
PROOF
  <1> USE DEF RetentionInv, database
  <1> DEFINE p == at[w]
             q == at'[w]
  <1>1. /\ Holds(w) /\ l \in p.left /\ \A x \in p.unread : x # l /\ (x \in Sales => ListingOf[x] # l)
        /\ UNCHANGED <<source, rows, intents, job, report, young, lock, chain, before>>
        /\ \/ /\ at' = [at EXCEPT ![w].left = @ \ {l}, ![w].retained = @ \cup {l}] /\ copies' = copies
           \/ /\ ~Keep(w, l) /\ at' = [at EXCEPT ![w].left = @ \ {l}] /\ copies' = copies \ {l}
    BY DEF Discard, Holds
  <1>2. at \in [Workers -> Place] BY DEF RetentionTypeOK
  <1>3. /\ at' \in [Workers -> Place] /\ \A v \in Workers : v # w => at'[v] = at[v]
        /\ q.pc = p.pc /\ q.seen = p.seen /\ q.windows = p.windows /\ q.usable = p.usable
        /\ q.unread = p.unread /\ q.open = p.open /\ q.left = p.left \ {l}
        /\ \/ q.retained = p.retained \cup {l} /\ copies' = copies
           \/ ~Keep(w, l) /\ q.retained = p.retained /\ copies' = copies \ {l}
    <2>1. p \in Place BY <1>2
    <2>2. CASE /\ at' = [at EXCEPT ![w].left = @ \ {l}, ![w].retained = @ \cup {l}] /\ copies' = copies
      BY <1>2, <2>1, <2>2 DEF Place
    <2>3. CASE /\ ~Keep(w, l) /\ at' = [at EXCEPT ![w].left = @ \ {l}] /\ copies' = copies \ {l}
      BY <1>2, <2>1, <2>3 DEF Place
    <2> QED BY <1>1, <2>2, <2>3
  <1>4. copies' \subseteq copies /\ copies \ copies' \subseteq {l} BY <1>3
  <1>5. \A x \in copies \ copies' : Discardable(x)
    <2>1. l \notin p.unread /\ \A s \in p.unread \cap Sales : ListingOf[s] # l BY <1>1
    <2>2. CASE ~Keep(w, l) BY <1>1, <1>4, <2>1, <2>2, UnkeptAreDiscardable
    <2>3. CASE copies' = copies BY <2>3
    <2> QED BY <1>3, <2>2, <2>3
  <1>6. Busy(w) /\ PlaceSound(w) /\ \A k \in Kept(p.seen.rows) : ReadSound(w, k)
    BY <1>1 DEF Busy, Holds, WorkersInv, PlacesAreSound, ReadsAreSound
  <1>7. PlaceSound(w)' BY <1>1, <1>3, <1>6 DEF PlaceSound, SourceLive, Holds
  <1>8. ASSUME NEW k \in Kept(q.seen.rows) PROVE ReadSound(w, k)'
    <2>1. ReadSound(w, k) BY <1>3, <1>6
    <2> QED BY <1>1, <1>3, <2>1 DEF ReadSound, Usable, Uses, Authorized, Stopped, Running, chain
  <1>9. LockIsHeld' BY <1>1, <1>3 DEF WorkersInv, LockIsHeld, Holds, Snapshot
  <1>10. copies' \subseteq q.left \cup q.retained \cup Strays
    <2>1. copies \subseteq p.left \cup p.retained \cup Strays BY <1>1 DEF CopiesAreRecorded, Strays, Listed
    <2> QED BY <1>3, <2>1
  <1> QED BY <1>1, <1>3, <1>4, <1>5, <1>7, <1>8, <1>9, <1>10, WorkerKeeps DEF RetentionTypeOK

LEMMA CommitKeeps == ASSUME RetentionInv, NEW w \in Workers, Commit(w) PROVE RetentionInv'
PROOF
  <1> USE DEF RetentionInv, chain
  <1> DEFINE p == at[w]
  <1>1. /\ Holds(w) /\ p.left = {}
        /\ rows' = [l \in Listings |-> AfterApply(w, l)] /\ report' = Report(w)
        /\ job' = (job /\ p.pc = "applying") /\ lock' = None /\ at' = [at EXCEPT ![w] = Idle]
        /\ UNCHANGED <<source, intents, young, copies, chain, before>>
    BY DEF Commit, Holds
  <1>2. \A v \in Workers : v # w => ~Holds(v) BY <1>1 DEF WorkersInv, LockIsHeld
  <1>3. /\ at' \in [Workers -> Place] /\ at'[w].pc = "idle" /\ \A v \in Workers : v # w => at'[v] = at[v]
    BY <1>1, IdleType DEF RetentionTypeOK
  <1>4. \A v \in Workers : Busy(v)' => v # w /\ Busy(v) /\ ~Holds(v) /\ at'[v] = at[v]
    BY <1>2, <1>3 DEF Busy
  <1>5. ASSUME NEW l \in Listings
        PROVE  /\ rows'[l] \in Row /\ rows'[l].stage = rows[l].stage
               /\ l \in Kept(rows) => rows'[l].gone = (l \notin p.retained)
    <2>1. rows[l] \in Row /\ rows'[l] = AfterApply(w, l) BY <1>1 DEF RetentionTypeOK
    <2>2. CASE l \notin Kept(rows) BY <2>1, <2>2 DEF AfterApply
    <2>3. CASE l \in Kept(rows)
      <3> DEFINE active == rows[l].active /\ p.windows.live /\ (rows[l].stage = "signed" => l \in p.usable)
                 gone == l \notin p.retained
      <3>1. rows'[l] = [[rows[l] EXCEPT !.active = active] EXCEPT !.gone = gone]
        BY <2>1, <2>3 DEF AfterApply
      <3>2. active \in BOOLEAN /\ gone \in BOOLEAN OBVIOUS
      <3> HIDE DEF active, gone
      <3>3. /\ rows'[l] \in Row /\ rows'[l].stage = rows[l].stage /\ rows'[l].gone = gone
        BY <2>1, <3>1, <3>2 DEF Row
      <3> QED BY <3>3 DEF gone
    <2> QED BY <2>2, <2>3
  <1>6. rows' \in [Listings -> Row] BY <1>1, <1>5
  <1>7. \/ /\ p.pc = "job" \/ report.objects
           /\ report' = [objects |-> TRUE, all |-> p.retained = {}]
        \/ report' = report
    BY <1>1 DEF Report
  <1>8. RetentionTypeOK'
    <2>1. report' \in [objects : BOOLEAN, all : BOOLEAN]
      <3> DEFINE none == p.retained = {}
      <3>1. none \in BOOLEAN OBVIOUS
      <3>2. report' = [objects |-> TRUE, all |-> none] \/ report' = report BY <1>7
      <3>3. \A b \in BOOLEAN : [objects |-> TRUE, all |-> b] \in [objects : BOOLEAN, all : BOOLEAN]
        OBVIOUS
      <3> HIDE DEF none
      <3>4. [objects |-> TRUE, all |-> none] \in [objects : BOOLEAN, all : BOOLEAN]
        BY <3>1, <3>3, Zenon
      <3> QED BY <3>2, <3>4 DEF RetentionTypeOK
    <2>2. job' \in BOOLEAN /\ lock' \in Workers \cup {None} BY <1>1
    <2> QED BY <1>1, <1>3, <1>6, <2>1, <2>2 DEF RetentionTypeOK
  <1>9. ChainInv'
    <2>1. \A s \in Sales : s \in intents => rows'[ListingOf[s]].stage = "signed"
      BY <1>5, ListingOfType DEF ChainInv, SalesArePrepared
    <2> QED BY <1>1, <2>1, SalesKeepChain
  <1>10. WorkersInv'
    <2>1. LockIsHeld'
      <3>1. \A v \in Workers : ~Holds(v)' BY <1>2, <1>3 DEF Holds
      <3>2. \A v \in Workers : at'[v].pc # "job" BY <3>1 DEF Holds
      <3> QED BY <1>1, <3>1, <3>2 DEF WorkersInv, LockIsHeld
    <2>2. PlacesAreSound'
      BY <1>1, <1>4 DEF WorkersInv, PlacesAreSound, PlaceSound, Busy, Holds, SourceLive
    <2>3. ASSUME NEW v \in Workers, Busy(v)', NEW k \in Kept(at'[v].seen.rows) PROVE ReadSound(v, k)'
      <3>1. at'[v] = at[v] /\ ReadSound(v, k) BY <1>4, <2>3 DEF WorkersInv, ReadsAreSound
      <3> QED BY <1>1, <3>1 DEF ReadSound, Usable, Uses, Authorized, Stopped, Running
    <2> QED BY <2>1, <2>2, <2>3 DEF WorkersInv, ReadsAreSound
  <1>11. CopiesAreKept'
    <2>1. \A l \in Listings : Lost(l) => Lost(l)' BY <1>1, <1>5 DEF Lost, Usable, Uses, Authorized, Stopped, Running
    <2> QED BY <1>1, <1>5, <2>1 DEF CopiesAreKept, SourceLive, Listed, Running
  <1>12. CopiesAreRecorded'
    <2>1. /\ copies \subseteq p.retained \cup Strays /\ copies \subseteq Kept(rows) \cup Strays
          /\ copies \subseteq Listings
      BY <1>1 DEF CopiesAreRecorded, RetentionTypeOK
    <2>2. Strays' = Strays
      BY <1>1, <1>5, <2>1 DEF Strays, Listed
    <2>5. copies \subseteq Kept(rows') \cup Strays
      <3> SUFFICES ASSUME NEW l \in copies, l \notin Strays PROVE rows'[l].stage # "none" /\ ~rows'[l].gone
        BY <2>1 DEF Kept
      <3>1. rows[l].stage # "none" BY <2>1 DEF Kept
      <3> QED BY <1>5, <2>1, <3>1
    <2>3. \A v \in Workers : ~Holds(v)' BY <1>2, <1>3 DEF Holds
    <2>4. \/ source = "deleted" /\ (report'.all => copies = Strays)
          \/ report' = report
      <3>1. CASE /\ p.pc = "job" \/ report.objects
                 /\ report' = [objects |-> TRUE, all |-> p.retained = {}]
        <4>1. source = "deleted" BY <3>1 DEF WorkersInv, LockIsHeld, CopiesAreRecorded
        <4>2. report'.all = (p.retained = {}) BY <3>1
        <4>3. p.retained = {} => copies = Strays BY <2>1 DEF Strays
        <4> QED BY <4>1, <4>2, <4>3
      <3> QED BY <1>7, <3>1
    <2> QED BY <1>1, <2>2, <2>3, <2>4, <2>5 DEF CopiesAreRecorded, DeletionReportIsTrue
  <1> QED BY <1>8, <1>9, <1>10, <1>11, <1>12

-----------------------------------------------------------------------------
(* The theorems.                                                            *)

LEMMA RetentionInitKeeps == RetentionInit => RetentionInv
PROOF
  <1> SUFFICES ASSUME RetentionInit PROVE RetentionInv OBVIOUS
  <1> USE DEF RetentionInit
  <1>1. NoRow \in Row BY DEF NoRow, Row, Stages
  <1>2. head \in Market BY DEF Market
  <1>3. \A w \in Workers : at[w] = Idle /\ at[w].pc = "idle" BY IdleType
  <1>4. RetentionTypeOK BY <1>1, <1>2, IdleType DEF RetentionTypeOK
  <1>5. ChainInv BY DEF ChainInv, SnapshotIsBehind, Authorized, SpentIsFinal, SalesArePrepared, BeforeWasConfirmed
  <1>6. WorkersInv BY <1>3 DEF WorkersInv, LockIsHeld, PlacesAreSound, ReadsAreSound, Busy, Holds
  <1>7. CopiesAreKept BY DEF CopiesAreKept, Listed, NoRow
  <1>8. CopiesAreRecorded BY <1>3 DEF CopiesAreRecorded, Strays, Listed, Holds, DeletionReportIsTrue
  <1> QED BY <1>4, <1>5, <1>6, <1>7, <1>8 DEF RetentionInv

LEMMA RetentionStepKeeps == RetentionInv /\ [RetentionNext]_retentionVars => RetentionInv'
PROOF
  <1> SUFFICES ASSUME RetentionInv, [RetentionNext]_retentionVars PROVE RetentionInv' OBVIOUS
  <1>1. CASE Marketplace
    BY <1>1, FundKeeps, OfferKeeps, EndSaleKeeps, PrepareKeeps, VoidKeeps, ListKeeps, ListFailsKeeps, ActivateKeeps, UnlistKeeps,
       EndPreparationKeeps, ConfirmKeeps, ReorganizeKeeps DEF Marketplace
  <1>2. CASE EndRetention \/ deleteTrace \/ markExpired BY <1>2, EndRetentionKeeps, DeleteKeeps
  <1>3. ASSUME NEW w \in Workers, Sweep(w) \/ Work(w) \/ Fail(w) PROVE RetentionInv'
    BY <1>3, BeginSweepKeeps, ApplyKeeps, BeginJobKeeps, CommitKeeps, ReadAuthorizationKeeps, DiscardKeeps,
       ReadOfferKeeps, FailKeeps DEF Sweep, Work
  <1>4. CASE UNCHANGED retentionVars
    <2> USE <1>4 DEF retentionVars, database, chain, RetentionInv
    <2>1. UNCHANGED <<database, young, copies, lock, at, before>> /\ head' = head /\ confirmed' = confirmed
      OBVIOUS
    <2>2. ChainInv' BY SalesKeepChain DEF ChainInv, SalesArePrepared
    <2>3. head' \in Market /\ confirmed' \in Market BY DEF RetentionTypeOK
    <2>4. \A s \in Sales : Stopped(s) => Stopped(s)' BY DEF Stopped, Running
    <2> QED BY <2>1, <2>2, <2>3, <2>4, ChainKeeps
  <1> QED BY <1>1, <1>2, <1>3, <1>4 DEF RetentionNext

\* The inductive invariant of retention.
THEOREM RetentionInvariant == RetentionSpec => []RetentionInv
BY RetentionInitKeeps, RetentionStepKeeps, PTL DEF RetentionSpec

\* A copy somebody paid for with the listing's authorization stays while the licence runs, also past
\* the deletion of the source, however many workers sweep and fail in between: the copy of any listing
\* that is not for a stream (sweepRetention, retentionChainReads).
OrdinaryCopiesAreKept ==
  \A s \in Sales :
    /\ ListingOf[s] \notin Streamed
    /\ \/ SourceLive /\ (Running(head, s) \/ Running(confirmed, s))
       \/ s \in before.confirmed /\ Running(confirmed, s)
    => ListingOf[s] \in copies
THEOREM OrdinaryReleasesAreKept == RetentionSpec => []OrdinaryCopiesAreKept
PROOF
  <1>1. RetentionInv => OrdinaryCopiesAreKept
    BY RunningHaveCopies DEF OrdinaryCopiesAreKept, RetentionInv, CopiesAreKept
  <1> QED BY <1>1, RetentionInvariant, PTL

\* So every paid copy stays where no listing is for a stream.
THEOREM PaidReleasesAreAlwaysKept ==
  ASSUME Streamed = {} PROVE RetentionSpec => []PaidReleaseIsKept
PROOF
  <1>1. OrdinaryCopiesAreKept => PaidReleaseIsKept BY DEF OrdinaryCopiesAreKept, PaidReleaseIsKept
  <1> QED BY <1>1, OrdinaryReleasesAreKept, PTL

\* The record says that everything private is deleted only when no listing has a sealed copy left
\* (deleteTraceObjects, sweepRetention), also for streams: what is left then was sealed by a listing
\* that failed (listTrace), of which the record knows nothing.
THEOREM DeletionReportsAreTrue == RetentionSpec => []DeletionReportIsTrue
PROOF
  <1>1. RetentionInv => DeletionReportIsTrue BY DEF RetentionInv, CopiesAreRecorded, Strays, Listed
  <1> QED BY <1>1, RetentionInvariant, PTL
============================================================================
