------------------------ MODULE StakingPoolProofs ------------------------
(***************************************************************************)
(* Theorems about StakingPool, for every value of its constants: the pool  *)
(* never owes more than it holds, and a campaign's budget covers its cap   *)
(* at every moment of enrolment.                                           *)
(***************************************************************************)
EXTENDS StakingPool, SumTheorems, SequenceTheorems

LEMMA BasisPoints == BPS \in Nat \ {0}
BY PoolAssumption

-----------------------------------------------------------------------------
(* Rewards.                                                                *)

(* Quotient and remainder.                                                 *)
LEMMA DivBounds ==
    ASSUME NEW x \in Nat
    PROVE  /\ x \div BPS \in Nat /\ x % BPS \in Nat /\ x % BPS < BPS
           /\ x = BPS * (x \div BPS) + (x % BPS)
BY BasisPoints

(* A division is found by its quotient and remainder.                      *)
LEMMA DivUnique ==
    ASSUME NEW x \in Nat, NEW d \in Nat, NEW m \in Nat, m < BPS, x = BPS * d + m
    PROVE  x \div BPS = d
BY BasisPoints

(* A product is a natural number and grows with its factors.               *)
LEMMA MulMono ==
    ASSUME NEW a \in Nat, NEW b \in Nat, NEW c \in Nat, a <= b
    PROVE  a * c <= b * c /\ c * a <= c * b /\ a * c \in Nat
OBVIOUS

(* A larger number has no smaller quotient.                                *)
LEMMA DivMono ==
    ASSUME NEW x \in Nat, NEW y \in Nat, x <= y
    PROVE  x \div BPS <= y \div BPS
<1>. DEFINE d == x \div BPS
            e == y \div BPS
<1>1. d \in Nat /\ e \in Nat /\ BPS * d <= x /\ y < BPS * e + BPS
  BY DivBounds, BasisPoints
<1>2. SUFFICES ASSUME e < d PROVE FALSE
  BY <1>1
<1>. HIDE DEF d, e
<1>3. BPS * (e + 1) <= BPS * d
  BY <1>1, <1>2, MulMono, BasisPoints
<1>4. BPS * (e + 1) = BPS * e + BPS
  BY <1>1, BasisPoints
<1>. QED
  BY <1>1, <1>3, <1>4, BasisPoints

(* The split multiplication of rewardFor, written that way against         *)
(* overflow, is the rate of the principal rounded down.                    *)
LEMMA RewardIsFloor ==
    ASSUME NEW p \in Nat, NEW r \in Nat
    PROVE  rewardFor(p, r) = (p * r) \div BPS /\ rewardFor(p, r) \in Nat /\ p * r \in Nat
<1>. DEFINE q == p \div BPS
            m == p % BPS
            k == (m * r) \div BPS
            j == (m * r) % BPS
<1>1. q \in Nat /\ m \in Nat /\ p = BPS * q + m
  BY DivBounds
<1>2. rewardFor(p, r) = q * r + k
  BY DEF rewardFor
<1>. HIDE DEF q, m
<1>3. m * r \in Nat /\ q * r \in Nat /\ p * r \in Nat
  BY <1>1, MulMono
<1>4. k \in Nat /\ j \in Nat /\ j < BPS /\ m * r = BPS * k + j
  BY <1>3, DivBounds
<1>. HIDE DEF k, j
<1>5. p * r = BPS * (q * r) + m * r
  <2>1. (BPS * q) * r = BPS * (q * r)
    BY <1>1, BasisPoints
  <2>2. p * r = (BPS * q) * r + m * r
    BY <1>1, BasisPoints
  <2>. QED
    BY <2>1, <2>2
<1>6. p * r = BPS * (q * r + k) + j
  <2>. DEFINE qr == q * r
  <2>1. qr \in Nat
    BY <1>3
  <2>2. BPS * (qr + k) = BPS * qr + BPS * k
    BY <1>4, <2>1, BasisPoints
  <2>. QED
    BY <1>3, <1>4, <1>5, <2>1, <2>2, BasisPoints
<1>7. (p * r) \div BPS = q * r + k
  BY <1>3, <1>4, <1>6, DivUnique
<1>. QED
  BY <1>2, <1>3, <1>4, <1>7

(* A higher rate never gives a smaller reward.                             *)
LEMMA RewardMonotone ==
    ASSUME NEW p \in Nat, NEW r \in Nat, NEW s \in Nat, r <= s
    PROVE  rewardFor(p, r) <= rewardFor(p, s)
BY RewardIsFloor, MulMono, DivMono

(* Rounding down favours the pool: two deposits never earn more than one   *)
(* deposit of their sum.                                                   *)
LEMMA RewardSplits ==
    ASSUME NEW p \in Nat, NEW q \in Nat, NEW r \in Nat
    PROVE  rewardFor(p, r) + rewardFor(q, r) <= rewardFor(p + q, r)
<1>. DEFINE x == p * r
            y == q * r
            d == x \div BPS
            e == y \div BPS
            f == (x + y) \div BPS
<1>1. rewardFor(p, r) = d /\ rewardFor(q, r) = e /\ x \in Nat /\ y \in Nat
  BY RewardIsFloor
<1>2. (p + q) * r = x + y
  OBVIOUS
<1>3. rewardFor(p + q, r) = f
  <2>1. p + q \in Nat
    OBVIOUS
  <2>2. rewardFor(p + q, r) = ((p + q) * r) \div BPS
    BY <2>1, RewardIsFloor
  <2>. QED
    BY <1>2, <2>2
<1>. HIDE DEF x, y
<1>4. d \in Nat /\ e \in Nat /\ BPS * d <= x /\ BPS * e <= y
  BY <1>1, DivBounds, BasisPoints
<1>5. f \in Nat /\ x + y < BPS * f + BPS
  BY <1>1, DivBounds, BasisPoints
<1>. HIDE DEF d, e, f
<1>6. BPS * (d + e) = BPS * d + BPS * e /\ BPS * (f + 1) = BPS * f + BPS
  BY <1>4, <1>5, BasisPoints
<1>7. SUFFICES ASSUME f < d + e PROVE FALSE
  BY <1>1, <1>3, <1>4, <1>5
<1>8. BPS * (f + 1) <= BPS * (d + e)
  BY <1>4, <1>5, <1>7, MulMono, BasisPoints
<1>9. BPS * d \in Nat /\ BPS * e \in Nat /\ BPS * f \in Nat
  BY <1>4, <1>5, MulMono, BasisPoints
<1>. QED
  BY <1>1, <1>4, <1>5, <1>6, <1>8, <1>9, BasisPoints
-----------------------------------------------------------------------------
(* Types.                                                                  *)

(* No campaign takes more principal than its cap.                          *)
WithinCaps ==
    \A c \in CampaignIds : campaigns[c].totalDeposited <= campaigns[c].principalCap

PoolInv == PoolTypeOK /\ PoolIsSolvent /\ WithinCaps /\ RewardCoversTheCap

(* The moves of the clock and of tokens that touch no promise.             *)
LEMMA InitPool == Init => PoolInv
<1>. SUFFICES ASSUME Init PROVE PoolInv
  OBVIOUS
<1>1. NoCampaign \in CampaignType /\ NoStake \in PositionType
  BY DEF NoCampaign, NoStake, CampaignType, PositionType
<1>2. PoolTypeOK
  BY <1>1, PoolAssumption DEF Init, PoolTypeOK
<1>3. PoolIsSolvent
  BY DEF Init, PoolIsSolvent, Solvent, protectedBalance
<1>4. WithinCaps
  BY DEF Init, WithinCaps, NoCampaign
<1>5. RewardCoversTheCap
  BY DEF Init, RewardCoversTheCap, Created, CampaignIds
<1>. QED
  BY <1>2, <1>3, <1>4, <1>5 DEF PoolInv

(* Tokens and time alone: a step that leaves every promise as it was keeps *)
(* the invariant as long as the pool still holds what it promised.         *)
LEMMA BalanceOrTime ==
    ASSUME PoolInv, UNCHANGED <<campaigns, campaignCount, members, totals>>,
           now' \in Nat, balance' \in Nat, balance' >= protectedBalance
    PROVE  PoolInv'
<1>1. PoolTypeOK'
  BY DEF PoolInv, PoolTypeOK, members, totals
<1>2. PoolIsSolvent'
  BY DEF PoolIsSolvent, Solvent, protectedBalance, totals
<1>3. WithinCaps' /\ RewardCoversTheCap'
  BY DEF PoolInv, WithinCaps, RewardCoversTheCap, Created, BudgetCovers
<1>. QED
  BY <1>1, <1>2, <1>3 DEF PoolInv

LEMMA ProtectedType == ASSUME PoolTypeOK PROVE protectedBalance \in Nat
BY DEF PoolTypeOK, protectedBalance

LEMMA FundKeeps == ASSUME PoolInv, NEW a \in Nat, fund(a) PROVE PoolInv'
<1>1. protectedBalance \in Nat
  BY ProtectedType DEF PoolInv
<1>2. now' \in Nat /\ balance' \in Nat /\ balance' >= protectedBalance
  BY <1>1 DEF PoolInv, PoolTypeOK, PoolIsSolvent, Solvent, fund
<1>. QED
  BY <1>2, BalanceOrTime DEF fund

LEMMA RecoverKeeps == ASSUME PoolInv, NEW a \in Nat, recoverFreeTokens(a) PROVE PoolInv'
<1>1. protectedBalance \in Nat
  BY ProtectedType DEF PoolInv
<1>2. now' \in Nat /\ balance' \in Nat /\ balance' >= protectedBalance
  BY <1>1 DEF PoolInv, PoolTypeOK, PoolIsSolvent, Solvent, recoverFreeTokens
<1>. QED
  BY <1>2, BalanceOrTime DEF recoverFreeTokens

LEMMA TickKeeps == ASSUME PoolInv, Tick PROVE PoolInv'
<1>1. now' \in Nat /\ balance' \in Nat /\ balance' >= protectedBalance
  BY DEF PoolInv, PoolTypeOK, PoolIsSolvent, Solvent, Tick
<1>. QED
  BY <1>1, BalanceOrTime DEF Tick

LEMMA StutterKeeps == ASSUME PoolInv, UNCHANGED vars PROVE PoolInv'
<1>1. now' \in Nat /\ balance' \in Nat /\ balance' >= protectedBalance
  BY DEF PoolInv, PoolTypeOK, PoolIsSolvent, Solvent, vars
<1>. QED
  BY <1>1, BalanceOrTime DEF vars

LEMMA CreateKeeps ==
    ASSUME PoolInv, NEW s \in Nat, NEW e \in Nat, NEW cap \in Nat,
           NEW b \in Nat, NEW m \in Menus, NEW carried \in Nat,
           createCampaign(s, e, cap, b, m, carried)
    PROVE  PoolInv'
<1>. DEFINE id == campaignCount + 1
            new == [NoCampaign EXCEPT
                      !.startsAt = s, !.enrollmentEndsAt = e, !.principalCap = cap,
                      !.rewardBudget = b, !.unallocatedReward = b, !.terms = m]
<1>1. /\ id \in CampaignIds
      /\ BudgetCovers(b, cap, m)
      /\ balance + carried - protectedBalance >= b
      /\ campaignCount' = id
      /\ totalUnallocatedRewards' = totalUnallocatedRewards + b
      /\ balance' = balance + carried
      /\ UNCHANGED <<now, positions, positionCount, activePositions,
                     positionIndex, totalPrincipal, totalRewardLiability>>
  BY DEF createCampaign, members
<1>2. campaigns' = [campaigns EXCEPT ![id] = new]
  BY DEF createCampaign
<1>3. PoolTypeOK
  BY DEF PoolInv
<1>4. /\ new \in CampaignType
      /\ new.totalDeposited = 0 /\ new.principalCap = cap
      /\ new.unallocatedReward = b /\ new.terms = m
  <2>1. NoCampaign \in CampaignType /\ NoCampaign.totalDeposited = 0
    BY DEF NoCampaign, CampaignType
  <2>. QED
    BY <2>1 DEF CampaignType
<1>. HIDE DEF new
<1>5. campaigns' \in [CampaignIds -> CampaignType]
  BY <1>1, <1>2, <1>3, <1>4 DEF PoolTypeOK
<1>6. campaignCount' \in 0 .. MaxCampaigns
  BY <1>1 DEF CampaignIds
<1>7. PoolTypeOK'
  BY <1>1, <1>3, <1>5, <1>6 DEF PoolTypeOK
<1>8. PoolIsSolvent'
  BY <1>1, <1>3 DEF PoolTypeOK, PoolIsSolvent, Solvent, protectedBalance
<1>9. ASSUME NEW c \in CampaignIds PROVE campaigns'[c].totalDeposited <= campaigns'[c].principalCap
  BY <1>2, <1>3, <1>4 DEF PoolInv, WithinCaps, PoolTypeOK
<1>10. ASSUME NEW c \in CampaignIds, Created(c)', ~campaigns'[c].closed
       PROVE  BudgetCovers(campaigns'[c].unallocatedReward,
                           campaigns'[c].principalCap - campaigns'[c].totalDeposited,
                           campaigns'[c].terms)
  <2>1. CASE c = id
    <3>1. campaigns'[c] = new
      BY <1>2, <1>3, <2>1 DEF PoolTypeOK
    <3>2. cap - 0 = cap
      OBVIOUS
    <3>. QED
      BY <1>1, <1>4, <3>1, <3>2
  <2>2. CASE c # id
    <3>1. campaigns'[c] = campaigns[c]
      BY <1>2, <1>3, <2>2 DEF PoolTypeOK
    <3>2. Created(c)
      BY <1>1, <1>3, <1>10, <2>2 DEF Created, CampaignIds, PoolTypeOK
    <3>. QED
      BY <1>10, <3>1, <3>2 DEF PoolInv, RewardCoversTheCap
  <2>. QED
    BY <2>1, <2>2
<1>11. WithinCaps' /\ RewardCoversTheCap'
  BY <1>9, <1>10 DEF WithinCaps, RewardCoversTheCap, BudgetCovers, Created
<1>. QED
  BY <1>7, <1>8, <1>11 DEF PoolInv

LEMMA PauseKeeps ==
    ASSUME PoolInv, NEW c \in CampaignIds, NEW paused \in BOOLEAN,
           setAdmissionsPaused(c, paused)
    PROVE  PoolInv'
<1>. DEFINE new == [campaigns[c] EXCEPT !.admissionsPaused = paused]
<1>1. /\ campaigns' = [campaigns EXCEPT ![c] = new]
      /\ UNCHANGED <<now, campaignCount, positions, positionCount, balance,
                     activePositions, positionIndex, totalPrincipal,
                     totalRewardLiability, totalUnallocatedRewards>>
  BY DEF setAdmissionsPaused, members, totals
<1>2. PoolTypeOK
  BY DEF PoolInv
<1>3. campaigns[c] \in CampaignType
  BY <1>2 DEF PoolTypeOK
<1>4. new \in CampaignType
  BY <1>3 DEF CampaignType
<1>5. campaigns' \in [CampaignIds -> CampaignType]
  BY <1>1, <1>2, <1>4 DEF PoolTypeOK
<1>6. PoolTypeOK'
  BY <1>1, <1>2, <1>5 DEF PoolTypeOK
<1>7. PoolIsSolvent'
  BY <1>1 DEF PoolInv, PoolIsSolvent, Solvent, protectedBalance
<1>8. /\ new.totalDeposited = campaigns[c].totalDeposited
      /\ new.principalCap = campaigns[c].principalCap
      /\ new.unallocatedReward = campaigns[c].unallocatedReward
      /\ new.terms = campaigns[c].terms /\ new.closed = campaigns[c].closed
  BY <1>3 DEF CampaignType
<1>9. ASSUME NEW k \in CampaignIds
      PROVE  /\ campaigns'[k].totalDeposited = campaigns[k].totalDeposited
             /\ campaigns'[k].principalCap = campaigns[k].principalCap
             /\ campaigns'[k].unallocatedReward = campaigns[k].unallocatedReward
             /\ campaigns'[k].terms = campaigns[k].terms
             /\ campaigns'[k].closed = campaigns[k].closed
  <2>1. campaigns'[k] = IF k = c THEN new ELSE campaigns[k]
    BY <1>1, <1>2 DEF PoolTypeOK
  <2>. QED
    BY <1>8, <2>1
<1>10. WithinCaps' /\ RewardCoversTheCap'
  BY <1>1, <1>9 DEF PoolInv, WithinCaps, RewardCoversTheCap, BudgetCovers, Created
<1>. QED
  BY <1>6, <1>7, <1>10 DEF PoolInv

(* A closed campaign promises nothing more: what it had set aside is free. *)
LEMMA CloseKeeps ==
    ASSUME PoolInv, NEW c \in CampaignIds, NEW byGovernor \in BOOLEAN,
           NEW recovered \in Nat, closeCampaign(c, byGovernor, recovered)
    PROVE  PoolInv'
<1>. DEFINE new == [campaigns[c] EXCEPT !.closed = TRUE, !.unallocatedReward = 0]
            released == campaigns[c].unallocatedReward
<1>1. /\ recovered <= balance - protectedBalance + released
      /\ totalUnallocatedRewards >= released
      /\ totalUnallocatedRewards' = totalUnallocatedRewards - released
      /\ balance' = balance - recovered
      /\ UNCHANGED <<now, campaignCount, positions, positionCount,
                     activePositions, positionIndex, totalPrincipal,
                     totalRewardLiability>>
  BY DEF closeCampaign, members
<1>2. PoolTypeOK
  BY DEF PoolInv
<1>3. campaigns[c] \in CampaignType
  BY <1>2 DEF PoolTypeOK
<1>4. campaigns' = [campaigns EXCEPT ![c] = new]
  BY <1>2, <1>3 DEF closeCampaign, PoolTypeOK, CampaignType
<1>5. new \in CampaignType
  BY <1>3 DEF CampaignType
<1>6. campaigns' \in [CampaignIds -> CampaignType]
  BY <1>2, <1>4, <1>5 DEF PoolTypeOK
<1>7. released \in Nat
  BY <1>3 DEF CampaignType
<1>. HIDE DEF released
<1>8. totalUnallocatedRewards' \in Nat /\ balance' \in Nat /\ PoolIsSolvent'
  BY <1>1, <1>2, <1>7 DEF PoolInv, PoolTypeOK, PoolIsSolvent, Solvent, protectedBalance
<1>9. PoolTypeOK'
  BY <1>1, <1>2, <1>6, <1>8 DEF PoolTypeOK
<1>10. /\ new.totalDeposited = campaigns[c].totalDeposited
       /\ new.principalCap = campaigns[c].principalCap /\ new.closed
  BY <1>3 DEF CampaignType
<1>11. \A k \in CampaignIds : campaigns'[k] = IF k = c THEN new ELSE campaigns[k]
  BY <1>2, <1>4 DEF PoolTypeOK
<1>. HIDE DEF new
<1>12. WithinCaps'
  BY <1>10, <1>11 DEF PoolInv, WithinCaps
<1>13. RewardCoversTheCap'
  BY <1>1, <1>10, <1>11 DEF PoolInv, RewardCoversTheCap, BudgetCovers, Created
<1>. QED
  BY <1>8, <1>9, <1>12, <1>13 DEF PoolInv

(* Spending a at rate r out of a budget that covers x at both rates leaves *)
(* enough for the rest of x at rate q: the dearer of the two rates pays.   *)
LEMMA BudgetLasts ==
    ASSUME NEW x \in Nat, NEW a \in Nat, a <= x, NEW r \in Nat, NEW q \in Nat,
           NEW budget \in Nat,
           budget >= rewardFor(x, r), budget >= rewardFor(x, q)
    PROVE  budget - rewardFor(a, r) >= rewardFor(x - a, q)
<1>. DEFINE rest == x - a
<1>1. rest \in Nat /\ a + rest = x
  OBVIOUS
<1>. HIDE DEF rest
<1>2. \A p \in Nat, t \in Nat : rewardFor(p, t) \in Nat
  BY RewardIsFloor
<1>3. CASE q <= r
  <2>1. rewardFor(a, r) + rewardFor(rest, r) <= rewardFor(x, r)
    BY <1>1, RewardSplits
  <2>2. rewardFor(rest, q) <= rewardFor(rest, r)
    BY <1>1, <1>3, RewardMonotone
  <2>3. budget - rewardFor(a, r) >= rewardFor(rest, q)
    BY <1>1, <1>2, <2>1, <2>2
  <2>. QED
    BY <2>3 DEF rest
<1>4. CASE r <= q
  <2>1. rewardFor(a, q) + rewardFor(rest, q) <= rewardFor(x, q)
    BY <1>1, RewardSplits
  <2>2. rewardFor(a, r) <= rewardFor(a, q)
    BY <1>4, RewardMonotone
  <2>3. budget - rewardFor(a, r) >= rewardFor(rest, q)
    BY <1>1, <1>2, <2>1, <2>2
  <2>. QED
    BY <2>3 DEF rest
<1>. QED
  BY <1>3, <1>4

(* Every term on offer has a length and a rate.                            *)
LEMMA TermType ==
    ASSUME NEW terms \in Menus \cup {<<>>}, NEW i \in DOMAIN terms
    PROVE  /\ terms[i] \in [duration : Nat, rewardBps : Nat]
           /\ terms[i].rewardBps \in Nat /\ terms[i].duration \in Nat
<1>1. terms \in Menus
  OBVIOUS
<1>2. terms \in Seq([duration : Nat, rewardBps : Nat])
  BY <1>1, PoolAssumption
<1>3. terms[i] \in [duration : Nat, rewardBps : Nat]
  BY <1>2, ElementOfSeq, LenProperties
<1>. QED
  BY <1>3

LEMMA StakeKeeps ==
    ASSUME PoolInv, NEW o \in Owners, NEW c \in CampaignIds, NEW a \in Nat,
           NEW t \in DOMAIN campaigns[c].terms, stake(o, c, t, a)
    PROVE  PoolInv'
<1>. DEFINE k == campaigns[c]
            term == k.terms[t]
            reward == rewardFor(a, term.rewardBps)
            id == positionCount + 1
            new == [k EXCEPT !.totalDeposited = @ + a,
                             !.unallocatedReward = @ - reward,
                             !.outstandingReward = @ + reward]
            position == [owner |-> o, campaignId |-> c, principal |-> a,
                         reward |-> reward, unlockAt |-> now + term.duration,
                         claimed |-> FALSE]
<1>1. /\ id \in PositionIds /\ Admits(c)
      /\ a <= k.principalCap - k.totalDeposited
      /\ reward <= k.unallocatedReward
      /\ totalUnallocatedRewards >= reward
      /\ positionCount' = id
      /\ positions' = [positions EXCEPT ![id] = position]
      /\ positionIndex' = [positionIndex EXCEPT ![id] = Len(activePositions[o])]
      /\ activePositions' = [activePositions EXCEPT ![o] = Append(@, id)]
      /\ totalUnallocatedRewards' = totalUnallocatedRewards - reward
      /\ totalRewardLiability' = totalRewardLiability + reward
      /\ totalPrincipal' = totalPrincipal + a
      /\ balance' = balance + a
      /\ UNCHANGED <<now, campaignCount>>
  BY DEF stake
<1>2. PoolTypeOK /\ WithinCaps
  BY DEF PoolInv
<1>3. k \in CampaignType
  BY <1>2 DEF PoolTypeOK
<1>4. campaigns' = [campaigns EXCEPT ![c] = new]
  BY <1>2, <1>3 DEF stake, PoolTypeOK, CampaignType
<1>5. k.terms \in Menus \cup {<<>>}
  BY <1>3 DEF CampaignType
<1>6. term.rewardBps \in Nat /\ term.duration \in Nat
  BY <1>5, TermType
<1>7. reward \in Nat
  BY <1>6, RewardIsFloor
<1>8. /\ k.principalCap \in Nat /\ k.totalDeposited \in Nat
      /\ k.unallocatedReward \in Nat /\ k.outstandingReward \in Nat
  BY <1>3 DEF CampaignType
<1>9. now + term.duration \in Nat
  BY <1>2, <1>6 DEF PoolTypeOK
<1>. HIDE DEF reward, term, k
<1>10. new \in CampaignType
  <2>1. /\ k.totalDeposited + a \in Nat
        /\ k.unallocatedReward - reward \in Nat
        /\ k.outstandingReward + reward \in Nat
    <3>1. reward <= k.unallocatedReward
      BY <1>1
    <3>. QED
      BY <1>7, <1>8, <3>1
  <2>. QED
    BY <1>3, <2>1 DEF CampaignType
<1>11. position \in PositionType
  BY <1>7, <1>9 DEF PositionType
<1>12. /\ campaigns' \in [CampaignIds -> CampaignType]
       /\ positions' \in [PositionIds -> PositionType]
  BY <1>1, <1>2, <1>4, <1>10, <1>11 DEF PoolTypeOK
<1>13. /\ activePositions' \in [Owners -> Seq(PositionIds)]
       /\ positionIndex' \in [PositionIds -> Nat]
  BY <1>1, <1>2 DEF PoolTypeOK
<1>14. positionCount' \in 0 .. MaxPositions
  BY <1>1 DEF PositionIds
<1>15. /\ totalPrincipal' \in Nat /\ totalRewardLiability' \in Nat
       /\ totalUnallocatedRewards' \in Nat /\ balance' \in Nat /\ PoolIsSolvent'
  BY <1>1, <1>2, <1>7 DEF PoolInv, PoolTypeOK, PoolIsSolvent, Solvent, protectedBalance
<1>16. PoolTypeOK'
  BY <1>1, <1>2, <1>12, <1>13, <1>14, <1>15 DEF PoolTypeOK
<1>17. /\ new.totalDeposited = k.totalDeposited + a
       /\ new.unallocatedReward = k.unallocatedReward - reward
       /\ new.principalCap = k.principalCap
       /\ new.terms = k.terms /\ new.closed = k.closed
  BY <1>3 DEF CampaignType
<1>18. \A j \in CampaignIds : campaigns'[j] = IF j = c THEN new ELSE campaigns[j]
  BY <1>2, <1>4 DEF PoolTypeOK
<1>. HIDE DEF new
<1>19. WithinCaps'
  BY <1>1, <1>2, <1>8, <1>17, <1>18 DEF WithinCaps
<1>20. ASSUME NEW i \in DOMAIN k.terms
       PROVE  k.unallocatedReward - reward
                >= rewardFor(k.principalCap - (k.totalDeposited + a), k.terms[i].rewardBps)
  <2>. DEFINE x == k.principalCap - k.totalDeposited
  <2>1. x \in Nat /\ a <= x /\ k.principalCap - (k.totalDeposited + a) = x - a
    BY <1>1, <1>8
  <2>2. k.terms[i].rewardBps \in Nat /\ term.rewardBps \in Nat
    BY <1>5, <1>6, TermType
  <2>3. /\ k.unallocatedReward >= rewardFor(x, k.terms[i].rewardBps)
        /\ k.unallocatedReward >= rewardFor(x, term.rewardBps)
    BY <1>1 DEF PoolInv, RewardCoversTheCap, BudgetCovers, Admits, term, k
  <2>. HIDE DEF x
  <2>. QED
    BY <1>8, <2>1, <2>2, <2>3, BudgetLasts DEF reward
<1>21. ASSUME NEW j \in CampaignIds, Created(j)', ~campaigns'[j].closed
       PROVE  BudgetCovers(campaigns'[j].unallocatedReward,
                           campaigns'[j].principalCap - campaigns'[j].totalDeposited,
                           campaigns'[j].terms)
  <2>1. Created(j)
    BY <1>1, <1>21 DEF Created
  <2>2. CASE j = c
    BY <1>17, <1>18, <1>20, <2>2 DEF BudgetCovers
  <2>3. CASE j # c
    BY <1>18, <1>21, <2>1, <2>3 DEF PoolInv, RewardCoversTheCap
  <2>. QED
    BY <2>2, <2>3
<1>22. RewardCoversTheCap'
  BY <1>21 DEF RewardCoversTheCap, BudgetCovers, Created
<1>. QED
  BY <1>15, <1>16, <1>19, <1>22 DEF PoolInv

(* Whatever the place of a claimed position, taking it out of a list       *)
(* leaves a list of positions.                                             *)
LEMMA ListType ==
    ASSUME NEW S, NEW active \in Seq(S), NEW i \in Nat
    PROVE  SubSeq([active EXCEPT ![i + 1] = active[Len(active)]], 1, Len(active) - 1)
             \in Seq(S)
<1>. DEFINE last == active[Len(active)]
            moved == [active EXCEPT ![i + 1] = last]
            n == Len(active)
<1>1. n \in Nat /\ DOMAIN active = 1 .. n
  BY LenProperties
<1>2. CASE n = 0
  <2>1. SubSeq(moved, 1, n - 1) = <<>>
    BY <1>2
  <2>. QED
    BY <2>1
<1>3. CASE n # 0
  <2>1. last \in S
    BY <1>1, <1>3, ElementOfSeq
  <2>2. moved \in Seq(S) /\ Len(moved) = n
    <3>1. CASE i + 1 \in 1 .. n
      BY <2>1, <3>1, ExceptSeq
    <3>2. CASE i + 1 \notin 1 .. n
      <4>1. moved = active
        BY <1>1, <3>2
      <4>. QED
        BY <4>1
    <3>. QED
      BY <3>1, <3>2
  <2>. HIDE DEF moved
  <2>3. SubSeq(moved, 1, n - 1) \in Seq(S)
    BY <1>1, <1>3, <2>2, SubSeqProperties
  <2>. QED
    BY <2>3 DEF moved
<1>. QED
  BY <1>2, <1>3

LEMMA ClaimKeeps ==
    ASSUME PoolInv, NEW p \in PositionIds, claim(p)
    PROVE  PoolInv'
<1>. DEFINE pos == positions[p]
            c == pos.campaignId
            new == [campaigns[c] EXCEPT !.outstandingReward = @ - pos.reward]
<1>1. /\ totalPrincipal >= pos.principal
      /\ totalRewardLiability >= pos.reward
      /\ campaigns[c].outstandingReward >= pos.reward
      /\ positions' = [positions EXCEPT ![p].claimed = TRUE]
      /\ totalPrincipal' = totalPrincipal - pos.principal
      /\ totalRewardLiability' = totalRewardLiability - pos.reward
      /\ campaigns' = [campaigns EXCEPT ![c] = new]
      /\ RemoveActive(pos.owner, p)
      /\ balance' = balance - (pos.principal + pos.reward)
      /\ UNCHANGED <<now, campaignCount, positionCount, totalUnallocatedRewards>>
  BY DEF claim, MayClaim
<1>2. PoolTypeOK
  BY DEF PoolInv
<1>3. pos \in PositionType
  BY <1>2 DEF PoolTypeOK
<1>4. pos.principal \in Nat /\ pos.reward \in Nat /\ c \in CampaignIds \cup {0}
  BY <1>3 DEF PositionType
<1>5. positions' \in [PositionIds -> PositionType]
  <2>1. positions' = [positions EXCEPT ![p] = [pos EXCEPT !.claimed = TRUE]]
    BY <1>1, <1>2 DEF PoolTypeOK
  <2>2. [pos EXCEPT !.claimed = TRUE] \in PositionType
    BY <1>3 DEF PositionType
  <2>. QED
    BY <1>2, <2>1, <2>2 DEF PoolTypeOK
<1>6. ASSUME c \in CampaignIds
      PROVE  /\ new \in CampaignType
             /\ new.totalDeposited = campaigns[c].totalDeposited
             /\ new.principalCap = campaigns[c].principalCap
             /\ new.unallocatedReward = campaigns[c].unallocatedReward
             /\ new.terms = campaigns[c].terms /\ new.closed = campaigns[c].closed
  <2>1. campaigns[c] \in CampaignType
    BY <1>2, <1>6 DEF PoolTypeOK
  <2>2. campaigns[c].outstandingReward - pos.reward \in Nat
    BY <1>1, <1>4, <2>1 DEF CampaignType
  <2>. QED
    BY <2>1, <2>2 DEF CampaignType
<1>. HIDE DEF pos, c, new
<1>7. \A k \in CampaignIds : campaigns'[k] = IF k = c THEN new ELSE campaigns[k]
  BY <1>1, <1>2 DEF PoolTypeOK
<1>8. campaigns' \in [CampaignIds -> CampaignType]
  BY <1>1, <1>2, <1>6 DEF PoolTypeOK
<1>9. positionIndex[p] \in Nat
  BY <1>2 DEF PoolTypeOK
<1>10. activePositions' \in [Owners -> Seq(PositionIds)]
  <2>. DEFINE active == activePositions[pos.owner]
              list == SubSeq([active EXCEPT ![positionIndex[p] + 1] = active[Len(active)]],
                             1, Len(active) - 1)
  <2>1. activePositions' = [activePositions EXCEPT ![pos.owner] = list]
    BY <1>1 DEF RemoveActive
  <2>2. ASSUME pos.owner \in Owners PROVE list \in Seq(PositionIds)
    <3>1. active \in Seq(PositionIds)
      BY <1>2, <2>2 DEF PoolTypeOK
    <3>. QED
      BY <1>9, <3>1, ListType
  <2>. HIDE DEF list
  <2>. QED
    BY <1>2, <2>1, <2>2 DEF PoolTypeOK
<1>11. positionIndex' \in [PositionIds -> Nat]
  BY <1>1, <1>2, <1>9 DEF RemoveActive, PoolTypeOK
<1>12. /\ totalPrincipal' \in Nat /\ totalRewardLiability' \in Nat
       /\ balance' \in Nat /\ PoolIsSolvent'
  <2>. DEFINE principal == pos.principal
              reward == pos.reward
  <2>1. /\ principal \in Nat /\ reward \in Nat
        /\ totalPrincipal >= principal /\ totalRewardLiability >= reward
        /\ totalPrincipal' = totalPrincipal - principal
        /\ totalRewardLiability' = totalRewardLiability - reward
        /\ balance' = balance - (principal + reward)
        /\ totalUnallocatedRewards' = totalUnallocatedRewards
    BY <1>1, <1>4
  <2>2. /\ totalPrincipal \in Nat /\ totalRewardLiability \in Nat
        /\ totalUnallocatedRewards \in Nat /\ balance \in Nat
        /\ balance >= totalPrincipal + totalRewardLiability + totalUnallocatedRewards
    BY <1>2 DEF PoolInv, PoolTypeOK, PoolIsSolvent, Solvent, protectedBalance
  <2>. HIDE DEF principal, reward
  <2>. QED
    BY <2>1, <2>2 DEF PoolIsSolvent, Solvent, protectedBalance
<1>13. PoolTypeOK'
  BY <1>1, <1>2, <1>5, <1>8, <1>10, <1>11, <1>12 DEF PoolTypeOK
<1>14. ASSUME NEW k \in CampaignIds
       PROVE  /\ campaigns'[k].totalDeposited = campaigns[k].totalDeposited
              /\ campaigns'[k].principalCap = campaigns[k].principalCap
              /\ campaigns'[k].unallocatedReward = campaigns[k].unallocatedReward
              /\ campaigns'[k].terms = campaigns[k].terms
              /\ campaigns'[k].closed = campaigns[k].closed
  BY <1>6, <1>7
<1>15. WithinCaps' /\ RewardCoversTheCap'
  BY <1>1, <1>14 DEF PoolInv, WithinCaps, RewardCoversTheCap, BudgetCovers, Created
<1>. QED
  BY <1>12, <1>13, <1>15 DEF PoolInv

LEMMA NextKeeps == PoolInv /\ [Next]_vars => PoolInv'
<1>. SUFFICES ASSUME PoolInv, [Next]_vars PROVE PoolInv'
  OBVIOUS
<1>. USE PoolAssumption
<1>1. ASSUME NEW a \in Budgets, fund(a) PROVE PoolInv'
  BY <1>1, FundKeeps
<1>2. ASSUME NEW s \in Times, NEW e \in Times, NEW cap \in Caps,
             NEW b \in Budgets, NEW m \in Menus, NEW carried \in {0, b},
             createCampaign(s, e, cap, b, m, carried)
      PROVE  PoolInv'
  BY <1>2, CreateKeeps
<1>3. ASSUME NEW c \in CampaignIds, NEW recovered \in 0 .. MaxFunds,
             closeCampaign(c, TRUE, recovered)
      PROVE  PoolInv'
  <2>1. recovered \in Nat
    OBVIOUS
  <2>. QED
    BY <1>3, <2>1, CloseKeeps
<1>4. ASSUME NEW c \in CampaignIds, closeCampaign(c, FALSE, 0) PROVE PoolInv'
  BY <1>4, CloseKeeps
<1>5. ASSUME NEW c \in CampaignIds, NEW paused \in BOOLEAN,
             setAdmissionsPaused(c, paused)
      PROVE  PoolInv'
  BY <1>5, PauseKeeps
<1>6. ASSUME NEW a \in 1 .. MaxFunds, recoverFreeTokens(a) PROVE PoolInv'
  BY <1>6, RecoverKeeps
<1>7. ASSUME NEW o \in Owners, NEW c \in CampaignIds, NEW a \in Amounts,
             NEW t \in DOMAIN campaigns[c].terms, stake(o, c, t, a)
      PROVE  PoolInv'
  BY <1>7, StakeKeeps
<1>8. ASSUME NEW p \in PositionIds, claim(p) PROVE PoolInv'
  BY <1>8, ClaimKeeps
<1>9. CASE Participating
  BY <1>4, <1>7, <1>8, <1>9 DEF Participating
<1>10. CASE Governing
  BY <1>2, <1>3, <1>5, <1>6, <1>10 DEF Governing
<1>11. CASE Tick
  BY <1>11, TickKeeps
<1>12. CASE UNCHANGED vars
  BY <1>12, StutterKeeps
<1>. QED
  BY <1>1, <1>9, <1>10, <1>11, <1>12 DEF Next

-----------------------------------------------------------------------------
(* Totals and lists.                                                       *)

(* What was staked has an owner and a campaign; what was not created has   *)
(* nothing.                                                                *)
RowsAreStaked ==
    /\ \A p \in PositionIds : p <= positionCount =>
          positions[p].owner \in Owners /\ positions[p].campaignId \in CampaignIds
    /\ \A c \in CampaignIds : c > campaignCount =>
          campaigns[c].unallocatedReward = 0 /\ campaigns[c].outstandingReward = 0

PoolBooks == PoolTotalsAreSums /\ ActiveListsMatchIndex /\ RowsAreStaked

LEMMA FiniteRows ==
    /\ IsFiniteSet(PositionIds) /\ IsFiniteSet(CampaignIds)
    /\ IsFiniteSet(Unclaimed) /\ \A c : IsFiniteSet(Enrolled(c))
    /\ Unclaimed \subseteq PositionIds /\ \A c : Enrolled(c) \subseteq Unclaimed
<1>1. IsFiniteSet(PositionIds) /\ IsFiniteSet(CampaignIds)
  BY FS_Interval, PoolAssumption DEF PositionIds, CampaignIds
<1>2. Unclaimed \subseteq PositionIds /\ \A c : Enrolled(c) \subseteq Unclaimed
  BY DEF Unclaimed, Enrolled
<1>. QED
  BY <1>1, <1>2, FS_Subset

LEMMA PoolValues ==
    ASSUME PoolTypeOK
    PROVE  /\ \A p \in PositionIds : Principals[p] \in Nat /\ Rewards[p] \in Nat
           /\ \A c \in CampaignIds : Unallocated[c] \in Nat /\ campaigns[c].outstandingReward \in Nat
<1>1. ASSUME NEW p \in PositionIds PROVE Principals[p] \in Nat /\ Rewards[p] \in Nat
  <2>1. positions[p] \in PositionType
    BY DEF PoolTypeOK
  <2>. QED
    BY <2>1 DEF PositionType, Principals, Rewards
<1>2. ASSUME NEW c \in CampaignIds PROVE Unallocated[c] \in Nat /\ campaigns[c].outstandingReward \in Nat
  <2>1. campaigns[c] \in CampaignType
    BY DEF PoolTypeOK
  <2>. QED
    BY <2>1 DEF CampaignType, Unallocated
<1>. QED
  BY <1>1, <1>2

LEMMA InitBooks == Init => PoolBooks
<1>. SUFFICES ASSUME Init PROVE PoolBooks
  OBVIOUS
<1>1. Unclaimed = {} /\ \A c : Enrolled(c) = {}
  BY DEF Init, Unclaimed, Enrolled, PositionIds
<1>2. SumFunctionOnSet(Principals, {}) = 0 /\ SumFunctionOnSet(Rewards, {}) = 0
  BY SumRecursion, FS_EmptySet
<1>3. SumFunction(Unallocated) = 0
  <2>1. \A c \in CampaignIds : Unallocated[c] = 0
    BY DEF Init, Unallocated, NoCampaign
  <2>2. SumFunctionOnSet(Unallocated, CampaignIds) = 0
    BY <2>1, FiniteRows, SumOfZeros
  <2>. QED
    BY <2>2 DEF SumFunction, Unallocated
<1>4. PoolTotalsAreSums
  BY <1>1, <1>2, <1>3 DEF Init, PoolTotalsAreSums, NoCampaign
<1>5. ActiveListsMatchIndex
  BY <1>1 DEF Init, ActiveListsMatchIndex
<1>6. RowsAreStaked
  BY DEF Init, RowsAreStaked, NoCampaign, PositionIds
<1>. QED
  BY <1>4, <1>5, <1>6 DEF PoolBooks

(* A step that touches neither positions nor what is set aside.            *)
LEMMA BooksStay ==
    ASSUME PoolBooks,
           UNCHANGED <<positions, positionCount, activePositions, positionIndex, campaignCount,
                       totalPrincipal, totalRewardLiability, totalUnallocatedRewards>>,
           \A c \in CampaignIds : /\ campaigns'[c].unallocatedReward = campaigns[c].unallocatedReward
                                  /\ campaigns'[c].outstandingReward = campaigns[c].outstandingReward
    PROVE  PoolBooks'
<1>1. Unclaimed' = Unclaimed /\ Principals' = Principals /\ Rewards' = Rewards
  BY DEF Unclaimed, Principals, Rewards
<1>2. Unallocated' = Unallocated
  BY DEF Unallocated
<1>3. \A c : Enrolled(c)' = Enrolled(c)
  BY <1>1 DEF Enrolled
<1>4. PoolTotalsAreSums'
  BY <1>1, <1>2, <1>3 DEF PoolBooks, PoolTotalsAreSums
<1>5. ActiveListsMatchIndex'
  BY <1>1 DEF PoolBooks, ActiveListsMatchIndex
<1>6. RowsAreStaked'
  BY DEF PoolBooks, RowsAreStaked
<1>. QED
  BY <1>4, <1>5, <1>6 DEF PoolBooks

(* A campaign whose reward set aside becomes x, and nothing else.          *)
LEMMA SetAsideBooks ==
    ASSUME PoolTypeOK, PoolBooks, NEW k \in CampaignIds, NEW x \in Nat,
           campaigns'[k].unallocatedReward = x,
           campaigns'[k].outstandingReward = campaigns[k].outstandingReward,
           \A c \in CampaignIds \ {k} : campaigns'[c] = campaigns[c],
           totalUnallocatedRewards' = totalUnallocatedRewards - campaigns[k].unallocatedReward + x,
           UNCHANGED <<positions, positionCount, activePositions, positionIndex,
                       totalPrincipal, totalRewardLiability>>,
           campaignCount' \in Nat, campaignCount' >= campaignCount, k <= campaignCount'
    PROVE  PoolBooks'
<1>1. Unclaimed' = Unclaimed /\ Principals' = Principals /\ Rewards' = Rewards
  BY DEF Unclaimed, Principals, Rewards
<1>2. \A c : Enrolled(c)' = Enrolled(c)
  BY <1>1 DEF Enrolled
<1>3. SumFunction(Unallocated)' = SumFunction(Unallocated) - Unallocated[k] + x
  <2>. DEFINE f == Unallocated
              g == Unallocated'
  <2>1. /\ \A c \in CampaignIds : f[c] \in Int
        /\ \A c \in CampaignIds \ {k} : g[c] = f[c]
        /\ g[k] = x /\ x \in Int
    BY PoolValues DEF Unallocated
  <2>2. SumFunction(Unallocated) = SumFunctionOnSet(f, CampaignIds) /\ SumFunction(Unallocated)' = SumFunctionOnSet(g, CampaignIds)
    BY DEF SumFunction, Unallocated
  <2>. HIDE DEF f, g
  <2>3. SumFunctionOnSet(g, CampaignIds) = SumFunctionOnSet(f, CampaignIds) - f[k] + g[k]
    BY <2>1, FiniteRows, SumChanges
  <2>. QED
    BY <2>1, <2>2, <2>3 DEF f
<1>4. totalUnallocatedRewards' = SumFunction(Unallocated)'
  BY <1>3 DEF PoolBooks, PoolTotalsAreSums, Unallocated
<1>5. \A c \in CampaignIds : campaigns'[c].outstandingReward = campaigns[c].outstandingReward
  OBVIOUS
<1>6. PoolTotalsAreSums'
  BY <1>1, <1>2, <1>4, <1>5 DEF PoolBooks, PoolTotalsAreSums
<1>7. ActiveListsMatchIndex'
  BY <1>1 DEF PoolBooks, ActiveListsMatchIndex
<1>8. RowsAreStaked'
  <2>1. ASSUME NEW c \in CampaignIds, c > campaignCount'
        PROVE  campaigns'[c].unallocatedReward = 0 /\ campaigns'[c].outstandingReward = 0
    <3>1. c # k /\ c > campaignCount
      BY <2>1 DEF CampaignIds, PoolTypeOK
    <3>. QED
      BY <3>1 DEF PoolBooks, RowsAreStaked
  <2>. QED
    BY <2>1 DEF PoolBooks, RowsAreStaked
<1>. QED
  BY <1>6, <1>7, <1>8 DEF PoolBooks

LEMMA CreateBooks ==
    ASSUME PoolTypeOK, PoolBooks, NEW s \in Nat, NEW e \in Nat, NEW cap \in Nat,
           NEW b \in Nat, NEW m \in Menus, NEW carried \in Nat,
           createCampaign(s, e, cap, b, m, carried)
    PROVE  PoolBooks'
<1>. DEFINE id == campaignCount + 1
            new == [NoCampaign EXCEPT
                      !.startsAt = s, !.enrollmentEndsAt = e, !.principalCap = cap,
                      !.rewardBudget = b, !.unallocatedReward = b, !.terms = m]
<1>1. /\ id \in CampaignIds /\ campaignCount' = id
      /\ totalUnallocatedRewards' = totalUnallocatedRewards + b
      /\ UNCHANGED <<positions, positionCount, activePositions, positionIndex,
                     totalPrincipal, totalRewardLiability>>
  BY DEF createCampaign, members
<1>2. campaigns' = [campaigns EXCEPT ![id] = new]
  BY DEF createCampaign
<1>3. new.unallocatedReward = b /\ new.outstandingReward = 0
  <2>1. NoCampaign \in CampaignType /\ NoCampaign.outstandingReward = 0
    BY DEF NoCampaign, CampaignType
  <2>. QED
    BY <2>1 DEF CampaignType
<1>. HIDE DEF new
<1>4. /\ campaigns'[id] = new
      /\ \A c \in CampaignIds \ {id} : campaigns'[c] = campaigns[c]
  BY <1>1, <1>2 DEF PoolTypeOK
<1>5. campaignCount \in Nat /\ totalUnallocatedRewards \in Nat
  BY DEF PoolTypeOK
<1>6. campaigns[id].unallocatedReward = 0 /\ campaigns[id].outstandingReward = 0
  BY <1>1, <1>5 DEF PoolBooks, RowsAreStaked
<1>7. totalUnallocatedRewards' = totalUnallocatedRewards - campaigns[id].unallocatedReward + b
  BY <1>1, <1>5, <1>6
<1>8. campaignCount' \in Nat /\ campaignCount' >= campaignCount /\ id <= campaignCount'
  BY <1>1, <1>5
<1>. HIDE DEF id
<1>. QED
  BY <1>1, <1>3, <1>4, <1>6, <1>7, <1>8, SetAsideBooks

LEMMA CloseBooks ==
    ASSUME PoolTypeOK, PoolBooks, NEW c \in CampaignIds, NEW byGovernor \in BOOLEAN,
           NEW recovered \in Nat, closeCampaign(c, byGovernor, recovered)
    PROVE  PoolBooks'
<1>. DEFINE new == [campaigns[c] EXCEPT !.closed = TRUE, !.unallocatedReward = 0]
<1>1. campaigns[c] \in CampaignType
  BY DEF PoolTypeOK
<1>2. campaigns' = [campaigns EXCEPT ![c] = new]
  BY <1>1 DEF closeCampaign, PoolTypeOK, CampaignType
<1>3. /\ totalUnallocatedRewards' = totalUnallocatedRewards - campaigns[c].unallocatedReward
      /\ UNCHANGED <<campaignCount, positions, positionCount, activePositions, positionIndex,
                     totalPrincipal, totalRewardLiability>>
      /\ c <= campaignCount
  BY DEF closeCampaign, members, MayClose, Created
<1>4. new.unallocatedReward = 0 /\ new.outstandingReward = campaigns[c].outstandingReward
  BY <1>1 DEF CampaignType
<1>. HIDE DEF new
<1>5. campaigns'[c] = new /\ \A k \in CampaignIds \ {c} : campaigns'[k] = campaigns[k]
  BY <1>2 DEF PoolTypeOK
<1>6. totalUnallocatedRewards \in Nat /\ campaigns[c].unallocatedReward \in Nat /\ campaignCount \in Nat
  BY <1>1 DEF CampaignType, PoolTypeOK
<1>7. totalUnallocatedRewards' = totalUnallocatedRewards - campaigns[c].unallocatedReward + 0
  BY <1>3, <1>6
<1>. QED
  BY <1>3, <1>4, <1>5, <1>6, <1>7, SetAsideBooks

LEMMA PauseBooks ==
    ASSUME PoolTypeOK, PoolBooks, NEW c \in CampaignIds, NEW paused \in BOOLEAN,
           setAdmissionsPaused(c, paused)
    PROVE  PoolBooks'
<1>. DEFINE new == [campaigns[c] EXCEPT !.admissionsPaused = paused]
<1>1. /\ campaigns' = [campaigns EXCEPT ![c] = new]
      /\ UNCHANGED <<campaignCount, positions, positionCount, activePositions, positionIndex,
                     totalPrincipal, totalRewardLiability, totalUnallocatedRewards>>
  BY DEF setAdmissionsPaused, members, totals
<1>2. campaigns[c] \in CampaignType
  BY DEF PoolTypeOK
<1>3. new.unallocatedReward = campaigns[c].unallocatedReward /\ new.outstandingReward = campaigns[c].outstandingReward
  BY <1>2 DEF CampaignType
<1>. HIDE DEF new
<1>4. \A k \in CampaignIds : campaigns'[k] = IF k = c THEN new ELSE campaigns[k]
  BY <1>1 DEF PoolTypeOK
<1>. QED
  BY <1>1, <1>3, <1>4, BooksStay

(* A row that joins what is unclaimed adds its values to the sums.         *)
LEMMA SumsGain ==
    ASSUME PoolTypeOK, PoolTypeOK', NEW id \in PositionIds, id \notin Unclaimed,
           Unclaimed' = Unclaimed \cup {id},
           \A p \in PositionIds \ {id} : positions'[p] = positions[p]
    PROVE  /\ SumFunctionOnSet(Principals, Unclaimed)'
                = SumFunctionOnSet(Principals, Unclaimed) + positions'[id].principal
           /\ SumFunctionOnSet(Rewards, Unclaimed)'
                = SumFunctionOnSet(Rewards, Unclaimed) + positions'[id].reward
           /\ \A c \in CampaignIds :
                 SumFunctionOnSet(Rewards, Enrolled(c))'
                   = SumFunctionOnSet(Rewards, Enrolled(c))
                       + IF positions'[id].campaignId = c THEN positions'[id].reward ELSE 0
<1>. DEFINE fp == Principals
            gp == Principals'
            fr == Rewards
            gr == Rewards'
            U == Unclaimed
            E(c) == Enrolled(c)
<1>1. \A p \in PositionIds : /\ fp[p] \in Int /\ fr[p] \in Int /\ gp[p] \in Int /\ gr[p] \in Int
                             /\ gp[p] = positions'[p].principal /\ gr[p] = positions'[p].reward
                             /\ p # id => gp[p] = fp[p] /\ gr[p] = fr[p]
  <2>1. \A p \in PositionIds : fp[p] \in Int /\ fr[p] \in Int
    BY PoolValues
  <2>2. ASSUME NEW p \in PositionIds PROVE gp[p] \in Int /\ gr[p] \in Int
    <3>1. positions'[p] \in PositionType
      BY DEF PoolTypeOK
    <3>. QED
      BY <3>1 DEF PositionType, Principals, Rewards
  <2>. QED
    BY <2>1, <2>2 DEF Principals, Rewards
<1>2. /\ IsFiniteSet(U) /\ U \subseteq PositionIds /\ id \notin U
      /\ \A c : IsFiniteSet(E(c)) /\ E(c) \subseteq U
  BY FiniteRows
<1>3. SumFunctionOnSet(Principals, Unclaimed)' = SumFunctionOnSet(gp, U \cup {id})
  OBVIOUS
<1>4. SumFunctionOnSet(Rewards, Unclaimed)' = SumFunctionOnSet(gr, U \cup {id})
  OBVIOUS
<1>5. ASSUME NEW c \in CampaignIds
      PROVE  /\ Enrolled(c)' = IF positions'[id].campaignId = c THEN E(c) \cup {id} ELSE E(c)
             /\ SumFunctionOnSet(Rewards, Enrolled(c))' = SumFunctionOnSet(gr, Enrolled(c)')
  BY <1>2 DEF Enrolled
<1>. HIDE DEF fp, gp, fr, gr, U, E
<1>6. SumFunctionOnSet(gp, U \cup {id}) = SumFunctionOnSet(fp, U) + gp[id]
  BY <1>1, <1>2, SumGains
<1>7. SumFunctionOnSet(gr, U \cup {id}) = SumFunctionOnSet(fr, U) + gr[id]
  BY <1>1, <1>2, SumGains
<1>8. ASSUME NEW c \in CampaignIds
      PROVE  SumFunctionOnSet(Rewards, Enrolled(c))'
               = SumFunctionOnSet(fr, E(c)) + IF positions'[id].campaignId = c THEN gr[id] ELSE 0
  <2>1. /\ IsFiniteSet(E(c)) /\ id \notin E(c)
        /\ \A x \in E(c) : fr[x] \in Int /\ gr[x] = fr[x]
    BY <1>1, <1>2
  <2>2. SumFunctionOnSet(gr, E(c) \cup {id}) = SumFunctionOnSet(fr, E(c)) + gr[id]
    BY <1>1, <2>1, SumGains
  <2>3. SumFunctionOnSet(gr, E(c)) = SumFunctionOnSet(fr, E(c)) /\ SumFunctionOnSet(fr, E(c)) \in Int
    BY <2>1, SumDependsOnValues, SumType
  <2>4. CASE positions'[id].campaignId = c
    BY <1>5, <2>2, <2>4
  <2>5. CASE positions'[id].campaignId # c
    BY <1>5, <2>3, <2>5
  <2>. QED
    BY <2>4, <2>5
<1>9. gp[id] = positions'[id].principal /\ gr[id] = positions'[id].reward
  BY <1>1
<1>. QED
  BY <1>3, <1>4, <1>6, <1>7, <1>8, <1>9 DEF fp, fr, U, E

(* A row that is claimed takes its values from the sums.                   *)
LEMMA SumsLose ==
    ASSUME PoolTypeOK, PoolTypeOK', NEW id \in Unclaimed,
           Unclaimed' = Unclaimed \ {id},
           \A p \in PositionIds : /\ positions'[p].principal = positions[p].principal
                                  /\ positions'[p].reward = positions[p].reward
                                  /\ positions'[p].campaignId = positions[p].campaignId
    PROVE  /\ SumFunctionOnSet(Principals, Unclaimed)'
                = SumFunctionOnSet(Principals, Unclaimed) - positions[id].principal
           /\ SumFunctionOnSet(Rewards, Unclaimed)'
                = SumFunctionOnSet(Rewards, Unclaimed) - positions[id].reward
           /\ \A c \in CampaignIds :
                 SumFunctionOnSet(Rewards, Enrolled(c))'
                   = SumFunctionOnSet(Rewards, Enrolled(c))
                       - IF positions[id].campaignId = c THEN positions[id].reward ELSE 0
<1>1. Principals' = Principals /\ Rewards' = Rewards
  BY DEF Principals, Rewards
<1>. DEFINE fp == Principals
            fr == Rewards
            U == Unclaimed
            E(c) == Enrolled(c)
<1>2. /\ \A p \in PositionIds : fp[p] \in Int /\ fr[p] \in Int
      /\ fp[id] = positions[id].principal /\ fr[id] = positions[id].reward
      /\ id \in PositionIds
  BY FiniteRows, PoolValues DEF Principals, Rewards
<1>3. /\ IsFiniteSet(U) /\ U \subseteq PositionIds /\ id \in U
      /\ \A c : IsFiniteSet(E(c)) /\ E(c) \subseteq U
  BY FiniteRows
<1>4. /\ SumFunctionOnSet(Principals, Unclaimed)' = SumFunctionOnSet(fp, U \ {id})
      /\ SumFunctionOnSet(Rewards, Unclaimed)' = SumFunctionOnSet(fr, U \ {id})
  BY <1>1
<1>5. ASSUME NEW c \in CampaignIds
      PROVE  /\ Enrolled(c)' = IF positions[id].campaignId = c THEN E(c) \ {id} ELSE E(c)
             /\ positions[id].campaignId = c <=> id \in Enrolled(c)
             /\ SumFunctionOnSet(Rewards, Enrolled(c))' = SumFunctionOnSet(fr, Enrolled(c)')
  BY <1>1, <1>3 DEF Enrolled
<1>. HIDE DEF fp, fr, U, E
<1>6. SumFunctionOnSet(fp, U \ {id}) = SumFunctionOnSet(fp, U) - fp[id]
  <2>1. \A x \in U : fp[x] \in Int
    BY <1>2, <1>3
  <2>. QED
    BY <2>1, <1>3, SumDrops
<1>7. SumFunctionOnSet(fr, U \ {id}) = SumFunctionOnSet(fr, U) - fr[id]
  <2>1. \A x \in U : fr[x] \in Int
    BY <1>2, <1>3
  <2>. QED
    BY <2>1, <1>3, SumDrops
<1>8. ASSUME NEW c \in CampaignIds
      PROVE  SumFunctionOnSet(Rewards, Enrolled(c))'
               = SumFunctionOnSet(fr, E(c)) - IF positions[id].campaignId = c THEN fr[id] ELSE 0
  <2>1. IsFiniteSet(E(c)) /\ \A x \in E(c) : fr[x] \in Int
    BY <1>2, <1>3
  <2>2. id \in E(c) => SumFunctionOnSet(fr, E(c) \ {id}) = SumFunctionOnSet(fr, E(c)) - fr[id]
    BY <2>1, SumDrops
  <2>3. SumFunctionOnSet(fr, E(c)) \in Int
    BY <2>1, SumType
  <2>4. CASE positions[id].campaignId = c
    BY <1>5, <2>2, <2>4 DEF E
  <2>5. CASE positions[id].campaignId # c
    BY <1>5, <2>3, <2>5
  <2>. QED
    BY <2>4, <2>5
<1>. QED
  BY <1>2, <1>4, <1>6, <1>7, <1>8 DEF fp, fr, U, E

(* A new position ends its owner's list, at the index remembered for it.   *)
LEMMA ListsGain ==
    ASSUME PoolTypeOK, ActiveListsMatchIndex, NEW o \in Owners, NEW id \in PositionIds,
           id \notin Unclaimed, Unclaimed' = Unclaimed \cup {id},
           \A p \in PositionIds \ {id} : positions'[p] = positions[p],
           positions'[id].owner = o,
           positionIndex' = [positionIndex EXCEPT ![id] = Len(activePositions[o])],
           activePositions' = [activePositions EXCEPT ![o] = Append(@, id)]
    PROVE  ActiveListsMatchIndex'
<1>1. Unclaimed \subseteq PositionIds
  BY FiniteRows
<1>2. /\ positionIndex'[id] = Len(activePositions[o])
      /\ \A p \in PositionIds \ {id} : positionIndex'[p] = positionIndex[p]
  BY DEF PoolTypeOK
<1>3. /\ activePositions[o] \in Seq(PositionIds)
      /\ activePositions'[o] = Append(activePositions[o], id)
      /\ \A w \in Owners \ {o} : activePositions'[w] = activePositions[w]
  BY DEF PoolTypeOK
<1>. DEFINE L == activePositions[o]
            n == Len(L)
            M == activePositions'[o]
<1>4. /\ n \in Nat /\ Len(M) = n + 1 /\ M[n + 1] = id
      /\ \A i \in 1 .. n : M[i] = L[i]
  BY <1>3
<1>5. /\ \A i \in 1 .. n : L[i] \in Unclaimed /\ positions[L[i]].owner = o /\ positionIndex[L[i]] = i - 1
      /\ \A p \in Unclaimed : positions[p].owner = o => \E i \in 1 .. n : L[i] = p
  BY DEF ActiveListsMatchIndex
<1>. HIDE DEF L, M, n
<1>6. ASSUME NEW i \in 1 .. Len(M)
      PROVE  M[i] \in Unclaimed' /\ positions'[M[i]].owner = o /\ positionIndex'[M[i]] = i - 1
  <2>1. CASE i = n + 1
    BY <1>2, <1>4, <2>1 DEF n, L
  <2>2. CASE i # n + 1
    <3>1. i \in 1 .. n
      BY <1>4, <2>2
    <3>2. M[i] = L[i] /\ L[i] \in Unclaimed /\ positions[L[i]].owner = o /\ positionIndex[L[i]] = i - 1
      BY <1>4, <1>5, <3>1
    <3>3. L[i] \in PositionIds \ {id}
      BY <1>1, <3>2
    <3>. QED
      BY <1>2, <3>2, <3>3
  <2>. QED
    BY <2>1, <2>2
<1>7. ASSUME NEW p \in Unclaimed', positions'[p].owner = o
      PROVE  \E i \in 1 .. Len(M) : M[i] = p
  <2>1. CASE p = id
    <3>1. n + 1 \in 1 .. Len(M)
      BY <1>4
    <3>. QED
      BY <1>4, <2>1, <3>1
  <2>2. CASE p # id
    <3>1. p \in Unclaimed /\ positions[p].owner = o
      BY <1>1, <1>7, <2>2
    <3>2. PICK i \in 1 .. n : L[i] = p
      BY <1>5, <3>1
    <3>3. i \in 1 .. Len(M) /\ M[i] = p
      BY <1>4, <3>2
    <3>. QED
      BY <3>3
  <2>. QED
    BY <2>1, <2>2
<1>8. ASSUME NEW w \in Owners, w # o
      PROVE  /\ \A i \in 1 .. Len(activePositions[w]) :
                   LET p == activePositions[w][i] IN
                   p \in Unclaimed' /\ positions'[p].owner = w /\ positionIndex'[p] = i - 1
             /\ \A p \in Unclaimed' : positions'[p].owner = w =>
                   \E i \in 1 .. Len(activePositions[w]) : activePositions[w][i] = p
  <2>1. /\ \A i \in 1 .. Len(activePositions[w]) :
              LET p == activePositions[w][i] IN
              p \in Unclaimed /\ positions[p].owner = w /\ positionIndex[p] = i - 1
        /\ \A p \in Unclaimed : positions[p].owner = w =>
              \E i \in 1 .. Len(activePositions[w]) : activePositions[w][i] = p
    BY DEF ActiveListsMatchIndex
  <2>2. \A p \in Unclaimed : /\ p \in Unclaimed' /\ positions'[p] = positions[p]
                             /\ positionIndex'[p] = positionIndex[p]
    BY <1>1, <1>2
  <2>3. \A p \in Unclaimed' : positions'[p].owner = w => p \in Unclaimed /\ positions[p].owner = w
    BY <1>1, <1>8
  <2>. QED
    BY <2>1, <2>2, <2>3
<1>9. ASSUME NEW w \in Owners
      PROVE  /\ \A i \in 1 .. Len(activePositions'[w]) :
                   LET p == activePositions'[w][i] IN
                   p \in Unclaimed' /\ positions'[p].owner = w /\ positionIndex'[p] = i - 1
             /\ \A p \in Unclaimed' : positions'[p].owner = w =>
                   \E i \in 1 .. Len(activePositions'[w]) : activePositions'[w][i] = p
  <2>1. CASE w = o
    BY <1>6, <1>7, <2>1 DEF M
  <2>2. CASE w # o
    BY <1>3, <1>8, <2>2
  <2>. QED
    BY <2>1, <2>2
<1>. QED
  BY <1>9 DEF ActiveListsMatchIndex

(* The last position of the list takes the place of the claimed one: the   *)
(* list holds the others, each at the index remembered for it.             *)
LEMMA ListsLose ==
    ASSUME PoolTypeOK, ActiveListsMatchIndex, NEW o \in Owners, NEW id \in Unclaimed,
           positions[id].owner = o, Unclaimed' = Unclaimed \ {id},
           \A p \in PositionIds : positions'[p].owner = positions[p].owner,
           RemoveActive(o, id)
    PROVE  ActiveListsMatchIndex'
<1>1. Unclaimed \subseteq PositionIds
  BY FiniteRows
<1>. DEFINE L == activePositions[o]
            n == Len(L)
            k == positionIndex[id] + 1
            last == L[n]
            moved == [L EXCEPT ![k] = last]
            M == SubSeq(moved, 1, n - 1)
<1>2. L \in Seq(PositionIds) /\ n \in Nat /\ DOMAIN L = 1 .. n /\ positionIndex[id] \in Nat /\ k \in Nat
  BY <1>1 DEF PoolTypeOK
<1>3. /\ \A i \in 1 .. n : L[i] \in Unclaimed /\ positions[L[i]].owner = o /\ positionIndex[L[i]] = i - 1
      /\ \A p \in Unclaimed : positions[p].owner = o => \E i \in 1 .. n : L[i] = p
  BY DEF ActiveListsMatchIndex
<1>4. k \in 1 .. n /\ L[k] = id
  <2>1. PICK i \in 1 .. n : L[i] = id
    BY <1>3
  <2>2. positionIndex[id] = i - 1
    BY <1>3, <2>1
  <2>. QED
    BY <2>1, <2>2
<1>5. /\ activePositions' = [activePositions EXCEPT ![o] = M]
      /\ positionIndex' = [positionIndex EXCEPT ![last] = positionIndex[id], ![id] = 0]
  BY DEF RemoveActive
<1>6. n \in 1 .. n /\ last \in PositionIds /\ last \in Unclaimed
  BY <1>1, <1>3, <1>4
<1>7. /\ last # id => positionIndex'[last] = k - 1
      /\ \A p \in PositionIds \ {id, last} : positionIndex'[p] = positionIndex[p]
  <2>1. positionIndex \in [PositionIds -> Nat]
    BY DEF PoolTypeOK
  <2>2. positionIndex[id] = k - 1
    BY <1>2
  <2>. HIDE DEF last, k
  <2>. QED
    BY <1>5, <1>6, <2>1, <2>2
<1>8. activePositions'[o] = M /\ \A w \in Owners \ {o} : activePositions'[w] = activePositions[w]
  BY <1>5 DEF PoolTypeOK
<1>9. Len(M) = n - 1 /\ \A i \in 1 .. n - 1 : M[i] = IF i = k THEN last ELSE L[i]
  <2>1. moved \in Seq(PositionIds) /\ Len(moved) = n
    BY <1>2, <1>4, <1>6, ExceptSeq
  <2>2. \A i \in 1 .. n : moved[i] = IF i = k THEN last ELSE L[i]
    BY <1>2
  <2>. HIDE DEF moved, last, k
  <2>3. Len(M) = n - 1 /\ \A i \in 1 .. n - 1 : M[i] = moved[i]
    BY <1>2, <1>6, <2>1, SubSeqProperties
  <2>. QED
    BY <1>2, <2>2, <2>3
<1>10. \A i \in 1 .. n : L[i] = id => i = k
  <2>. TAKE i \in 1 .. n
  <2>1. positionIndex[L[i]] = i - 1
    BY <1>3
  <2>. QED
    BY <2>1
<1>11. \A i \in 1 .. n : L[i] = last => i = n
  <2>. TAKE i \in 1 .. n
  <2>1. positionIndex[L[i]] = i - 1 /\ positionIndex[last] = n - 1
    BY <1>3, <1>6
  <2>. HIDE DEF last
  <2>. QED
    BY <1>2, <2>1
<1>. HIDE DEF L, n, k, last, moved, M
<1>12. ASSUME NEW i \in 1 .. Len(M)
       PROVE  M[i] \in Unclaimed' /\ positions'[M[i]].owner = o /\ positionIndex'[M[i]] = i - 1
  <2>1. i \in 1 .. n - 1 /\ i \in 1 .. n /\ i # n
    BY <1>2, <1>9
  <2>2. CASE i = k
    <3>1. M[i] = last
      BY <1>9, <2>1, <2>2
    <3>2. last # id
      BY <1>6, <1>10, <2>1, <2>2 DEF last
    <3>3. positions[last].owner = o
      BY <1>3, <1>6 DEF last
    <3>. QED
      BY <1>6, <1>7, <2>2, <3>1, <3>2, <3>3
  <2>3. CASE i # k
    <3>1. M[i] = L[i] /\ L[i] # id /\ L[i] # last
      BY <1>9, <1>10, <1>11, <2>1, <2>3
    <3>2. L[i] \in Unclaimed /\ positions[L[i]].owner = o /\ positionIndex[L[i]] = i - 1
      BY <1>3, <2>1
    <3>. QED
      BY <1>1, <1>7, <3>1, <3>2
  <2>. QED
    BY <2>2, <2>3
<1>13. ASSUME NEW p \in Unclaimed', positions'[p].owner = o
       PROVE  \E i \in 1 .. Len(M) : M[i] = p
  <2>1. p \in Unclaimed /\ p # id /\ positions[p].owner = o
    BY <1>1, <1>13
  <2>2. PICK i \in 1 .. n : L[i] = p
    BY <1>3, <2>1
  <2>3. i # k
    BY <1>4, <2>1, <2>2
  <2>4. CASE i = n
    <3>1. last = p /\ k \in 1 .. n - 1
      BY <1>2, <1>4, <2>2, <2>3, <2>4 DEF last
    <3>2. M[k] = p /\ k \in 1 .. Len(M)
      BY <1>9, <3>1
    <3>. QED
      BY <3>2
  <2>5. CASE i # n
    <3>1. i \in 1 .. n - 1
      BY <1>2, <2>5
    <3>2. M[i] = p /\ i \in 1 .. Len(M)
      BY <1>9, <2>2, <2>3, <3>1
    <3>. QED
      BY <3>2
  <2>. QED
    BY <2>4, <2>5
<1>14. ASSUME NEW w \in Owners, w # o
       PROVE  /\ \A i \in 1 .. Len(activePositions[w]) :
                    LET p == activePositions[w][i] IN
                    p \in Unclaimed' /\ positions'[p].owner = w /\ positionIndex'[p] = i - 1
              /\ \A p \in Unclaimed' : positions'[p].owner = w =>
                    \E i \in 1 .. Len(activePositions[w]) : activePositions[w][i] = p
  <2>1. /\ \A i \in 1 .. Len(activePositions[w]) :
              LET p == activePositions[w][i] IN
              p \in Unclaimed /\ positions[p].owner = w /\ positionIndex[p] = i - 1
        /\ \A p \in Unclaimed : positions[p].owner = w =>
              \E i \in 1 .. Len(activePositions[w]) : activePositions[w][i] = p
    BY DEF ActiveListsMatchIndex
  <2>2. positions[last].owner = o
    BY <1>3, <1>6 DEF last
  <2>3. ASSUME NEW p \in Unclaimed, positions[p].owner = w
        PROVE  p \in Unclaimed' /\ positions'[p].owner = w /\ positionIndex'[p] = positionIndex[p]
    <3>1. p # id /\ p # last /\ p \in PositionIds
      BY <1>1, <1>14, <2>2, <2>3
    <3>. QED
      BY <1>7, <2>3, <3>1
  <2>4. \A p \in Unclaimed' : positions'[p].owner = w => p \in Unclaimed /\ positions[p].owner = w
    BY <1>1
  <2>. QED
    BY <2>1, <2>3, <2>4
<1>15. ASSUME NEW w \in Owners
       PROVE  /\ \A i \in 1 .. Len(activePositions'[w]) :
                    LET p == activePositions'[w][i] IN
                    p \in Unclaimed' /\ positions'[p].owner = w /\ positionIndex'[p] = i - 1
              /\ \A p \in Unclaimed' : positions'[p].owner = w =>
                    \E i \in 1 .. Len(activePositions'[w]) : activePositions'[w][i] = p
  <2>1. CASE w = o
    BY <1>8, <1>12, <1>13, <2>1
  <2>2. CASE w # o
    BY <1>8, <1>14, <2>2
  <2>. QED
    BY <2>1, <2>2
<1>. QED
  BY <1>15 DEF ActiveListsMatchIndex

LEMMA StakeBooks ==
    ASSUME PoolInv, PoolBooks, NEW o \in Owners, NEW c \in CampaignIds, NEW a \in Nat,
           NEW t \in DOMAIN campaigns[c].terms, stake(o, c, t, a)
    PROVE  PoolBooks'
<1>. DEFINE k == campaigns[c]
            term == k.terms[t]
            reward == rewardFor(a, term.rewardBps)
            id == positionCount + 1
            new == [k EXCEPT !.totalDeposited = @ + a,
                             !.unallocatedReward = @ - reward,
                             !.outstandingReward = @ + reward]
            position == [owner |-> o, campaignId |-> c, principal |-> a,
                         reward |-> reward, unlockAt |-> now + term.duration,
                         claimed |-> FALSE]
<1>1. PoolTypeOK /\ PoolTypeOK'
  BY StakeKeeps DEF PoolInv
<1>2. /\ id \in PositionIds /\ c <= campaignCount /\ positionCount' = id
      /\ positions' = [positions EXCEPT ![id] = position]
      /\ positionIndex' = [positionIndex EXCEPT ![id] = Len(activePositions[o])]
      /\ activePositions' = [activePositions EXCEPT ![o] = Append(@, id)]
      /\ totalUnallocatedRewards' = totalUnallocatedRewards - reward
      /\ totalRewardLiability' = totalRewardLiability + reward
      /\ totalPrincipal' = totalPrincipal + a
      /\ campaignCount' = campaignCount
  BY DEF stake, Admits, Created
<1>3. k \in CampaignType
  BY <1>1 DEF PoolTypeOK
<1>4. campaigns' = [campaigns EXCEPT ![c] = new]
  BY <1>1, <1>3 DEF stake, PoolTypeOK, CampaignType
<1>5. /\ k.unallocatedReward \in Nat /\ k.outstandingReward \in Nat /\ reward \in Int
  <2>1. k.terms \in Menus \cup {<<>>}
    BY <1>3 DEF CampaignType
  <2>2. term.rewardBps \in Nat
    BY <2>1, TermType
  <2>3. reward \in Nat
    BY <2>2, RewardIsFloor
  <2>. QED
    BY <1>3, <2>3 DEF CampaignType
<1>6. /\ position.owner = o /\ position.campaignId = c /\ position.principal = a
      /\ position.reward = reward /\ ~position.claimed
  OBVIOUS
<1>. HIDE DEF reward, term, k
<1>7. new.unallocatedReward = k.unallocatedReward - reward /\ new.outstandingReward = k.outstandingReward + reward
  BY <1>3 DEF CampaignType
<1>. HIDE DEF new, position
<1>8. \A j \in CampaignIds : campaigns'[j] = IF j = c THEN new ELSE campaigns[j]
  BY <1>1, <1>4 DEF PoolTypeOK
<1>9. positions'[id] = position /\ \A p \in PositionIds \ {id} : positions'[p] = positions[p]
  BY <1>1, <1>2 DEF PoolTypeOK
<1>10. positionCount \in Nat /\ \A p \in PositionIds : p \in Nat
  BY <1>1 DEF PoolTypeOK, PositionIds
<1>11. id \notin Unclaimed /\ Unclaimed' = Unclaimed \cup {id}
  <2>1. \A p \in PositionIds : p \in Unclaimed <=> p <= positionCount /\ ~positions[p].claimed
    BY DEF Unclaimed
  <2>2. \A p \in PositionIds : p \in Unclaimed' <=> p <= id /\ ~positions'[p].claimed
    BY <1>2 DEF Unclaimed
  <2>3. id \notin Unclaimed /\ id \in Unclaimed'
    BY <1>2, <1>6, <1>9, <1>10, <2>1, <2>2
  <2>4. ASSUME NEW p \in PositionIds, p # id PROVE p \in Unclaimed' <=> p \in Unclaimed
    <3>1. p <= id <=> p <= positionCount
      BY <1>10, <2>4
    <3>. QED
      BY <1>9, <2>1, <2>2, <2>4, <3>1
  <2>5. Unclaimed \subseteq PositionIds /\ Unclaimed' \subseteq PositionIds
    BY DEF Unclaimed
  <2>. QED
    BY <1>2, <2>3, <2>4, <2>5
<1>12. /\ SumFunctionOnSet(Principals, Unclaimed)' = SumFunctionOnSet(Principals, Unclaimed) + a
       /\ SumFunctionOnSet(Rewards, Unclaimed)' = SumFunctionOnSet(Rewards, Unclaimed) + reward
       /\ \A j \in CampaignIds :
             SumFunctionOnSet(Rewards, Enrolled(j))'
               = SumFunctionOnSet(Rewards, Enrolled(j)) + IF c = j THEN reward ELSE 0
  <2>1. id \in PositionIds /\ \A q \in PositionIds \ {id} : positions'[q] = positions[q]
    BY <1>2, <1>9
  <2>2. /\ positions'[id].principal = a /\ positions'[id].reward = reward
        /\ positions'[id].campaignId = c
    BY <1>6, <1>9
  <2>. HIDE DEF id
  <2>3. /\ SumFunctionOnSet(Principals, Unclaimed)'
              = SumFunctionOnSet(Principals, Unclaimed) + positions'[id].principal
        /\ SumFunctionOnSet(Rewards, Unclaimed)'
              = SumFunctionOnSet(Rewards, Unclaimed) + positions'[id].reward
        /\ \A j \in CampaignIds :
              SumFunctionOnSet(Rewards, Enrolled(j))'
                = SumFunctionOnSet(Rewards, Enrolled(j))
                    + IF positions'[id].campaignId = j THEN positions'[id].reward ELSE 0
    BY <1>1, <1>11, <2>1, SumsGain, Zenon
  <2>. QED
    BY <2>2, <2>3
<1>13. SumFunction(Unallocated)' = SumFunction(Unallocated) - reward
  <2>. DEFINE f == Unallocated
              g == Unallocated'
  <2>1. \A j \in CampaignIds : f[j] \in Int
    BY <1>1, PoolValues
  <2>2. /\ \A j \in CampaignIds \ {c} : g[j] = f[j]
        /\ g[c] = f[c] - reward /\ f[c] = k.unallocatedReward
    BY <1>7, <1>8 DEF Unallocated, k
  <2>3. SumFunction(Unallocated) = SumFunctionOnSet(f, CampaignIds) /\ SumFunction(Unallocated)' = SumFunctionOnSet(g, CampaignIds)
    BY DEF SumFunction, Unallocated
  <2>. HIDE DEF f, g
  <2>4. g[c] \in Int /\ f[c] \in Int
    BY <1>5, <2>2
  <2>5. SumFunctionOnSet(g, CampaignIds) = SumFunctionOnSet(f, CampaignIds) - f[c] + g[c]
    BY <2>1, <2>2, <2>4, FiniteRows, SumChanges
  <2>6. SumFunctionOnSet(f, CampaignIds) \in Int
    BY <2>1, FiniteRows, SumType
  <2>. QED
    BY <1>5, <2>2, <2>3, <2>4, <2>5, <2>6
<1>14. PoolTotalsAreSums'
  <2>1. \A j \in CampaignIds : campaigns'[j].outstandingReward = SumFunctionOnSet(Rewards, Enrolled(j))'
    <3>. TAKE j \in CampaignIds
    <3>1. campaigns[j].outstandingReward = SumFunctionOnSet(Rewards, Enrolled(j)) /\ campaigns[j].outstandingReward \in Nat
      BY <1>1, PoolValues DEF PoolBooks, PoolTotalsAreSums
    <3>2. CASE j = c
      BY <1>7, <1>8, <1>12, <3>1, <3>2 DEF k
    <3>3. CASE j # c
      BY <1>8, <1>12, <3>1, <3>3
    <3>. QED
      BY <3>2, <3>3
  <2>2. /\ totalPrincipal = SumFunctionOnSet(Principals, Unclaimed)
        /\ totalRewardLiability = SumFunctionOnSet(Rewards, Unclaimed)
        /\ totalUnallocatedRewards = SumFunction(Unallocated)
    BY DEF PoolBooks, PoolTotalsAreSums
  <2>3. /\ totalPrincipal' = SumFunctionOnSet(Principals, Unclaimed)'
        /\ totalRewardLiability' = SumFunctionOnSet(Rewards, Unclaimed)'
        /\ totalUnallocatedRewards' = SumFunction(Unallocated)'
    BY <1>2, <1>12, <1>13, <2>2
  <2>. QED
    BY <2>1, <2>3 DEF PoolTotalsAreSums
<1>15. ActiveListsMatchIndex'
  <2>1. ActiveListsMatchIndex
    BY DEF PoolBooks
  <2>. HIDE DEF id
  <2>. QED
    BY <1>1, <1>2, <1>6, <1>9, <1>11, <2>1, ListsGain
<1>16. RowsAreStaked'
  <2>1. ASSUME NEW p \in PositionIds, p <= positionCount'
        PROVE  positions'[p].owner \in Owners /\ positions'[p].campaignId \in CampaignIds
    <3>1. CASE p = id
      BY <1>6, <1>9, <3>1
    <3>2. CASE p # id
      <4>1. p <= positionCount
        BY <1>2, <1>10, <2>1, <3>2
      <4>. QED
        BY <1>9, <3>2, <4>1 DEF PoolBooks, RowsAreStaked
    <3>. QED
      BY <3>1, <3>2
  <2>2. ASSUME NEW j \in CampaignIds, j > campaignCount'
        PROVE  campaigns'[j].unallocatedReward = 0 /\ campaigns'[j].outstandingReward = 0
    <3>1. j # c /\ j > campaignCount
      BY <1>1, <1>2, <2>2 DEF CampaignIds, PoolTypeOK
    <3>. QED
      BY <1>8, <3>1 DEF PoolBooks, RowsAreStaked
  <2>. QED
    BY <2>1, <2>2 DEF RowsAreStaked
<1>. QED
  BY <1>14, <1>15, <1>16 DEF PoolBooks

LEMMA ClaimBooks ==
    ASSUME PoolInv, PoolBooks, NEW p \in PositionIds, claim(p)
    PROVE  PoolBooks'
<1>. DEFINE pos == positions[p]
            c == pos.campaignId
            new == [campaigns[c] EXCEPT !.outstandingReward = @ - pos.reward]
<1>1. PoolTypeOK /\ PoolTypeOK'
  BY ClaimKeeps DEF PoolInv
<1>2. /\ p <= positionCount /\ ~pos.claimed
      /\ positions' = [positions EXCEPT ![p].claimed = TRUE]
      /\ totalPrincipal' = totalPrincipal - pos.principal
      /\ totalRewardLiability' = totalRewardLiability - pos.reward
      /\ campaigns' = [campaigns EXCEPT ![c] = new]
      /\ RemoveActive(pos.owner, p)
      /\ UNCHANGED <<campaignCount, positionCount, totalUnallocatedRewards>>
  BY DEF claim, MayClaim
<1>3. p \in Unclaimed
  BY <1>2 DEF Unclaimed
<1>4. pos.owner \in Owners /\ c \in CampaignIds /\ pos.principal \in Nat /\ pos.reward \in Nat
  <2>1. pos \in PositionType
    BY <1>1 DEF PoolTypeOK
  <2>. QED
    BY <1>2, <2>1 DEF PoolBooks, RowsAreStaked, PositionType
<1>5. \A q \in PositionIds : /\ positions'[q].principal = positions[q].principal
                             /\ positions'[q].reward = positions[q].reward
                             /\ positions'[q].campaignId = positions[q].campaignId
                             /\ positions'[q].owner = positions[q].owner
                             /\ positions'[q].claimed = IF q = p THEN TRUE ELSE positions[q].claimed
  <2>. TAKE q \in PositionIds
  <2>1. positions[q] \in PositionType /\ pos \in PositionType
    BY <1>1 DEF PoolTypeOK
  <2>2. positions'[q] = IF q = p THEN [pos EXCEPT !.claimed = TRUE] ELSE positions[q]
    BY <1>1, <1>2 DEF PoolTypeOK
  <2>. QED
    BY <2>1, <2>2 DEF PositionType
<1>6. Unclaimed' = Unclaimed \ {p}
  BY <1>2, <1>5 DEF Unclaimed
<1>7. campaigns[c] \in CampaignType
  BY <1>1, <1>4 DEF PoolTypeOK
<1>8. /\ new.unallocatedReward = campaigns[c].unallocatedReward
      /\ new.outstandingReward = campaigns[c].outstandingReward - pos.reward
  BY <1>7 DEF CampaignType
<1>. HIDE DEF pos, c, new
<1>9. \A j \in CampaignIds : campaigns'[j] = IF j = c THEN new ELSE campaigns[j]
  BY <1>1, <1>2, <1>4 DEF PoolTypeOK
<1>10. /\ SumFunctionOnSet(Principals, Unclaimed)' = SumFunctionOnSet(Principals, Unclaimed) - pos.principal
       /\ SumFunctionOnSet(Rewards, Unclaimed)' = SumFunctionOnSet(Rewards, Unclaimed) - pos.reward
       /\ \A j \in CampaignIds :
             SumFunctionOnSet(Rewards, Enrolled(j))'
               = SumFunctionOnSet(Rewards, Enrolled(j)) - IF c = j THEN pos.reward ELSE 0
  <2>1. \A q \in PositionIds : /\ positions'[q].principal = positions[q].principal
                               /\ positions'[q].reward = positions[q].reward
                               /\ positions'[q].campaignId = positions[q].campaignId
    BY <1>5
  <2>2. pos = positions[p] /\ c = positions[p].campaignId
    BY DEF pos, c
  <2>3. /\ SumFunctionOnSet(Principals, Unclaimed)'
              = SumFunctionOnSet(Principals, Unclaimed) - positions[p].principal
        /\ SumFunctionOnSet(Rewards, Unclaimed)'
              = SumFunctionOnSet(Rewards, Unclaimed) - positions[p].reward
        /\ \A j \in CampaignIds :
              SumFunctionOnSet(Rewards, Enrolled(j))'
                = SumFunctionOnSet(Rewards, Enrolled(j))
                    - IF positions[p].campaignId = j THEN positions[p].reward ELSE 0
    BY <1>1, <1>3, <1>6, <2>1, SumsLose, Zenon
  <2>. QED
    BY <2>2, <2>3
<1>11. SumFunction(Unallocated)' = SumFunction(Unallocated)
  <2>1. \A j \in CampaignIds : campaigns'[j].unallocatedReward = campaigns[j].unallocatedReward
    BY <1>8, <1>9
  <2>2. Unallocated' = Unallocated
    BY <2>1 DEF Unallocated
  <2>. QED
    BY <2>2
<1>12. PoolTotalsAreSums'
  <2>1. \A j \in CampaignIds : campaigns'[j].outstandingReward = SumFunctionOnSet(Rewards, Enrolled(j))'
    <3>. TAKE j \in CampaignIds
    <3>1. campaigns[j].outstandingReward = SumFunctionOnSet(Rewards, Enrolled(j)) /\ campaigns[j].outstandingReward \in Nat
      BY <1>1, PoolValues DEF PoolBooks, PoolTotalsAreSums
    <3>2. CASE j = c
      BY <1>8, <1>9, <1>10, <3>1, <3>2
    <3>3. CASE j # c
      BY <1>9, <1>10, <3>1, <3>3
    <3>. QED
      BY <3>2, <3>3
  <2>2. /\ totalPrincipal = SumFunctionOnSet(Principals, Unclaimed)
        /\ totalRewardLiability = SumFunctionOnSet(Rewards, Unclaimed)
        /\ totalUnallocatedRewards = SumFunction(Unallocated)
    BY DEF PoolBooks, PoolTotalsAreSums
  <2>3. /\ totalPrincipal' = SumFunctionOnSet(Principals, Unclaimed)'
        /\ totalRewardLiability' = SumFunctionOnSet(Rewards, Unclaimed)'
        /\ totalUnallocatedRewards' = SumFunction(Unallocated)'
    BY <1>2, <1>10, <1>11, <2>2
  <2>. QED
    BY <2>1, <2>3 DEF PoolTotalsAreSums
<1>13. ActiveListsMatchIndex'
  <2>1. ActiveListsMatchIndex
    BY DEF PoolBooks
  <2>. QED
    BY <1>1, <1>2, <1>3, <1>4, <1>5, <1>6, <2>1, ListsLose DEF pos
<1>14. RowsAreStaked'
  <2>1. \A j \in CampaignIds : j > campaignCount => j # c \/ (campaigns[c].outstandingReward = 0 /\ j = c)
    BY DEF PoolBooks, RowsAreStaked
  <2>2. c <= campaignCount \/ pos.reward = 0
    <3>1. pos.reward <= campaigns[c].outstandingReward
      BY DEF claim, MayClaim, pos, c
    <3>2. campaignCount \in Nat /\ c \in Nat
      BY <1>1, <1>4 DEF PoolTypeOK, CampaignIds
    <3>. QED
      BY <1>4, <3>1, <3>2 DEF PoolBooks, RowsAreStaked
  <2>3. ASSUME NEW j \in CampaignIds, j > campaignCount'
        PROVE  campaigns'[j].unallocatedReward = 0 /\ campaigns'[j].outstandingReward = 0
    <3>1. j > campaignCount /\ campaigns[j].unallocatedReward = 0 /\ campaigns[j].outstandingReward = 0
      BY <1>2, <2>3 DEF PoolBooks, RowsAreStaked
    <3>2. CASE j = c
      <4>1. pos.reward = 0
        BY <1>1, <2>2, <3>1, <3>2 DEF PoolTypeOK, CampaignIds
      <4>. QED
        BY <1>8, <1>9, <3>1, <3>2, <4>1
    <3>3. CASE j # c
      BY <1>9, <3>1, <3>3
    <3>. QED
      BY <3>2, <3>3
  <2>. QED
    BY <1>2, <1>5, <2>3 DEF PoolBooks, RowsAreStaked
<1>. QED
  BY <1>12, <1>13, <1>14 DEF PoolBooks

LEMMA NextBooks == PoolInv /\ PoolBooks /\ [Next]_vars => PoolBooks'
<1>. SUFFICES ASSUME PoolInv, PoolBooks, [Next]_vars PROVE PoolBooks'
  OBVIOUS
<1>. USE PoolAssumption
<1>0. PoolTypeOK
  BY DEF PoolInv
<1>1. ASSUME NEW a \in Budgets, fund(a) PROVE PoolBooks'
  BY <1>1, BooksStay DEF fund, members, totals
<1>2. ASSUME NEW s \in Times, NEW e \in Times, NEW cap \in Caps,
             NEW b \in Budgets, NEW m \in Menus, NEW carried \in {0, b},
             createCampaign(s, e, cap, b, m, carried)
      PROVE  PoolBooks'
  BY <1>0, <1>2, CreateBooks
<1>3. ASSUME NEW c \in CampaignIds, NEW byGovernor \in BOOLEAN,
             NEW recovered \in Nat, closeCampaign(c, byGovernor, recovered)
      PROVE  PoolBooks'
  BY <1>0, <1>3, CloseBooks
<1>4. ASSUME NEW c \in CampaignIds, NEW paused \in BOOLEAN, setAdmissionsPaused(c, paused)
      PROVE  PoolBooks'
  BY <1>0, <1>4, PauseBooks
<1>5. ASSUME NEW a \in Nat, recoverFreeTokens(a) PROVE PoolBooks'
  BY <1>5, BooksStay DEF recoverFreeTokens, members, totals
<1>6. ASSUME NEW o \in Owners, NEW c \in CampaignIds, NEW a \in Amounts,
             NEW t \in DOMAIN campaigns[c].terms, stake(o, c, t, a)
      PROVE  PoolBooks'
  BY <1>6, StakeBooks
<1>7. ASSUME NEW p \in PositionIds, claim(p) PROVE PoolBooks'
  BY <1>7, ClaimBooks
<1>8. CASE Participating
  BY <1>3, <1>6, <1>7, <1>8 DEF Participating
<1>9. CASE Governing
  <2>1. 0 .. MaxFunds \subseteq Nat /\ 1 .. MaxFunds \subseteq Nat
    OBVIOUS
  <2>2. TRUE \in BOOLEAN
    OBVIOUS
  <2>. QED
    BY <1>2, <1>3, <1>4, <1>5, <1>9, <2>1, <2>2, Zenon DEF Governing
<1>10. CASE Tick
  BY <1>10, BooksStay DEF Tick, members, totals
<1>11. CASE UNCHANGED vars
  BY <1>11, BooksStay DEF vars, members, totals
<1>. QED
  BY <1>1, <1>8, <1>9, <1>10, <1>11 DEF Next

(* None of claim's conditions fails once the position has matured.         *)
LEMMA BooksCoverClaims == PoolInv /\ PoolBooks => MaturedAreClaimable
<1>. SUFFICES ASSUME PoolInv, PoolBooks, NEW p \in Unclaimed, now >= positions[p].unlockAt
              PROVE  MayClaim(p)
  BY DEF MaturedAreClaimable, PoolBooks
<1>1. PoolTypeOK /\ Solvent
  BY DEF PoolInv, PoolIsSolvent
<1>2. p \in PositionIds /\ p <= positionCount /\ ~positions[p].claimed
  BY DEF Unclaimed
<1>3. positions[p].owner \in Owners /\ positions[p].campaignId \in CampaignIds
  BY <1>2 DEF PoolBooks, RowsAreStaked
<1>. DEFINE principal == positions[p].principal
            reward == positions[p].reward
<1>4. Principals[p] = principal /\ Rewards[p] = reward /\ principal \in Nat /\ reward \in Nat
  BY <1>1, <1>2, PoolValues DEF Principals, Rewards
<1>5. principal <= totalPrincipal /\ reward <= totalRewardLiability
  <2>1. /\ \A q \in Unclaimed : Principals[q] \in Nat /\ Rewards[q] \in Nat
        /\ IsFiniteSet(Unclaimed)
    BY <1>1, FiniteRows, PoolValues
  <2>2. Principals[p] <= SumFunctionOnSet(Principals, Unclaimed)
    BY <2>1, SumCovers
  <2>3. Rewards[p] <= SumFunctionOnSet(Rewards, Unclaimed)
    BY <2>1, SumCovers
  <2>. QED
    BY <1>4, <2>2, <2>3 DEF PoolBooks, PoolTotalsAreSums
<1>6. reward <= campaigns[positions[p].campaignId].outstandingReward
  <2>. DEFINE E == Enrolled(positions[p].campaignId)
  <2>1. p \in E /\ IsFiniteSet(E) /\ \A q \in E : Rewards[q] \in Nat
    BY <1>1, FiniteRows, PoolValues DEF Enrolled
  <2>2. campaigns[positions[p].campaignId].outstandingReward = SumFunctionOnSet(Rewards, E)
    BY <1>3 DEF PoolBooks, PoolTotalsAreSums
  <2>. HIDE DEF E
  <2>3. Rewards[p] <= SumFunctionOnSet(Rewards, E)
    BY <2>1, SumCovers
  <2>. QED
    BY <1>4, <2>2, <2>3
<1>7. positionIndex[p] < Len(activePositions[positions[p].owner])
  <2>. DEFINE L == activePositions[positions[p].owner]
  <2>1. PICK i \in 1 .. Len(L) : L[i] = p
    BY <1>3 DEF PoolBooks, ActiveListsMatchIndex
  <2>2. positionIndex[p] = i - 1
    BY <1>3, <2>1 DEF PoolBooks, ActiveListsMatchIndex
  <2>. QED
    BY <2>1, <2>2
<1>8. balance >= principal + reward
  <2>1. /\ totalPrincipal \in Nat /\ totalRewardLiability \in Nat
        /\ totalUnallocatedRewards \in Nat /\ balance \in Nat
    BY <1>1 DEF PoolTypeOK
  <2>2. balance >= totalPrincipal + totalRewardLiability + totalUnallocatedRewards
    BY <1>1 DEF Solvent, protectedBalance
  <2>. HIDE DEF principal, reward
  <2>. QED
    BY <1>4, <1>5, <2>1, <2>2
<1>. QED
  BY <1>1, <1>2, <1>5, <1>6, <1>7, <1>8 DEF MayClaim

-----------------------------------------------------------------------------

LEMMA PoolInvariant == Spec => []PoolInv
BY InitPool, NextKeeps, PTL DEF Spec

(* Every variable keeps its type: no total ever goes below zero.           *)
THEOREM PoolTypeCorrect == Spec => []PoolTypeOK
BY PoolInvariant, PTL DEF PoolInv

(* The pool holds at least what it owes its participants, at any rates,    *)
(* caps and deposits: freeBalance never reverts.                           *)
THEOREM PoolIsAlwaysSolvent == Spec => []PoolIsSolvent
BY PoolInvariant, PTL DEF PoolInv

(* A deposit within the cap is never refused for lack of reward, although  *)
(* rewards are rounded and the terms mix different rates.                  *)
THEOREM RewardAlwaysCoversTheCap == Spec => []RewardCoversTheCap
BY PoolInvariant, PTL DEF PoolInv

(* The totals are the sums of the unclaimed positions and each owner's     *)
(* list matches the index, so a matured position can be claimed: no check, *)
(* no checked subtraction and no access to the list ever fails.            *)
THEOREM MaturedAreAlwaysClaimable == Spec => []MaturedAreClaimable
<1>1. Spec => []PoolBooks
  BY PoolInvariant, InitBooks, NextBooks, PTL DEF Spec
<1>. QED
  BY <1>1, PoolInvariant, BooksCoverClaims, PTL
=============================================================================
