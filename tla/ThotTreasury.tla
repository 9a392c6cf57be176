--------------------------- MODULE ThotTreasury ---------------------------
(***************************************************************************)
(* contracts/src/ThotTreasury.sol: the campaign reserve that is also the   *)
(* governor of a staking pool.  It gives the pool reward budgets from what *)
(* no acquisition campaign was promised, and takes back what the pool does *)
(* not owe.  The contract is the reserve's subclass, so this module        *)
(* extends CampaignReserve; the pool is another contract, so it is an      *)
(* instance of StakingPool over its own variables and the same clock.      *)
(***************************************************************************)
EXTENDS CampaignReserve, Sequences

CONSTANTS
    Stakers, BPS, MAX_ACTIVE_POSITIONS, MIN_DURATION, MAX_DURATION, MAX_TERMS,
    MaxStakingCampaigns, MaxPositions, Menus, Caps, Amounts, Times,
    MaxFunds         \* bound on the tokens in treasury and pool

ASSUME TreasuryAssumption ==
    /\ Shared
    /\ BPS \in Nat \ {0}
    /\ {MAX_ACTIVE_POSITIONS, MIN_DURATION, MAX_DURATION, MAX_TERMS} \subseteq Nat \ {0}
    /\ {MaxStakingCampaigns, MaxPositions} \subseteq Nat
    /\ Menus \subseteq Seq([duration : Nat, rewardBps : Nat])
    /\ Caps \subseteq Nat /\ Amounts \subseteq Nat
    /\ Times \subseteq Nat /\ MaxFunds \in Nat

VARIABLES
    poolBound,
    poolCampaigns, poolCampaignCount, positions, positionCount,
    activePositions, positionIndex,
    totalPrincipal, totalRewardLiability, totalUnallocatedRewards,
    poolBalance

Pool == INSTANCE StakingPool WITH
    Owners <- Stakers, MaxCampaigns <- MaxStakingCampaigns,
    campaigns <- poolCampaigns, campaignCount <- poolCampaignCount,
    balance <- poolBalance

reserve == <<spending, paused, people, acquired, balance, market>>
pool == <<poolCampaigns, poolCampaignCount, positions, positionCount,
          activePositions, positionIndex, totalPrincipal, totalRewardLiability,
          totalUnallocatedRewards, poolBalance>>
treasuryVars == <<now, reserve, poolBound, pool>>

bindStakingPool ==
    /\ ~poolBound /\ poolBound' = TRUE
    /\ UNCHANGED <<now, reserve, pool>>

(* The budget is transferred and promised in one transaction.              *)
Affordable_AnyBalance(budget) == budget <= balance
Affordable(budget) == budget <= unallocatedBalance

createStakingCampaign(starts, ends, cap, budget, terms) ==
    /\ poolBound
    /\ Affordable(budget)
    /\ Pool!createCampaign(starts, ends, cap, budget, terms, budget)
    /\ balance' = balance - budget
    /\ UNCHANGED <<spending, paused, people, acquired, market, poolBound>>

setStakingAdmissionsPaused(c, value) ==
    /\ Pool!setAdmissionsPaused(c, value)
    /\ UNCHANGED <<reserve, poolBound>>

(* Closing collects all that is then free, gifts included.                 *)
closeStakingCampaign(c) ==
    LET free == poolBalance - Pool!protectedBalance
                + poolCampaigns[c].unallocatedReward
    IN  /\ free >= 0
        /\ Pool!closeCampaign(c, TRUE, free)
        /\ balance' = balance + free
        /\ UNCHANGED <<spending, paused, people, acquired, market, poolBound>>

collectFreeStakingBudget_Rewards ==
    LET free == poolBalance - totalPrincipal IN
    /\ poolBound /\ free > 0
    /\ poolBalance' = poolBalance - free
    /\ balance' = balance + free
    /\ UNCHANGED <<now, spending, paused, people, acquired, market, poolBound,
                   poolCampaigns, poolCampaignCount, positions, positionCount,
                   activePositions, positionIndex, totalPrincipal,
                   totalRewardLiability, totalUnallocatedRewards>>
collectFreeStakingBudget ==
    LET free == poolBalance - Pool!protectedBalance IN
    /\ poolBound
    /\ Pool!recoverFreeTokens(free)
    /\ balance' = balance + free
    /\ UNCHANGED <<spending, paused, people, acquired, market, poolBound>>

TreasuryInit == Init /\ Pool!Init /\ poolBound = FALSE

StakingGovernance ==
    \/ bindStakingPool \/ collectFreeStakingBudget
    \/ \E s \in Times, e \in Times, cap \in Caps, b \in Budgets, m \in Menus :
          poolBalance + b <= MaxFunds /\ createStakingCampaign(s, e, cap, b, m)
    \/ \E c \in Pool!CampaignIds :
          \/ closeStakingCampaign(c)
          \/ \E value \in BOOLEAN : setStakingAdmissionsPaused(c, value)

Staking ==
    /\ \/ Pool!Participating
       \/ \E a \in Budgets : balance + credit + poolBalance + a <= MaxFunds /\ Pool!fund(a)
    /\ UNCHANGED <<reserve, poolBound>>

Acquiring ==
    /\ \/ Governing \/ Trading
       \/ \E a \in Budgets : balance + credit + poolBalance + a <= Supply /\ donate(a)
    /\ UNCHANGED <<pool, poolBound>>

TreasuryTick == Tick /\ UNCHANGED <<pool, poolBound>>

TreasuryNext == StakingGovernance \/ Staking \/ Acquiring \/ TreasuryTick

TreasurySpec == TreasuryInit /\ [][TreasuryNext]_treasuryVars

-----------------------------------------------------------------------------

(* Acquisition and staking never promise the same token: the treasury      *)
(* holds its open acquisition budgets while the pool holds principal and   *)
(* rewards, however budgets move back and forth between them.              *)
PromisesAreBacked == AllocationsAreBacked /\ Pool!PoolIsSolvent

(* No token leaves the treasury but into a purchase of the same step or    *)
(* into the pool, where it backs a promised reward.                        *)
TreasuryOnlySpendsOrStakes ==
    [][balance' < balance =>
          \/ \E id \in Acquisitions : held'[id] - held[id] = balance - balance'
          \/ poolBalance' - poolBalance = balance - balance'
             /\ totalUnallocatedRewards' - totalUnallocatedRewards = balance - balance']_treasuryVars

(* Governed by the treasury, the pool does only what the pool's own        *)
(* specification allows any governor, and only for the budgets that the    *)
(* treasury parts with.                                                    *)
ImplementsPool == Pool!Spec /\ TreasuryOnlySpendsOrStakes
=============================================================================
