---------------------------- MODULE StakingPool ----------------------------
(***************************************************************************)
(* contracts/src/ThotStakingPool.sol: fixed-term positions whose rewards   *)
(* are set aside before enrolment opens.  One action is one external call. *)
(* The wallets of stakers and sponsors are outside the model: a deposit or *)
(* a gift arrives, a claim or a recovery leaves.  A campaign carries its   *)
(* terms.  Times stay far below 2^64, so TIME_OVERFLOW is left out.        *)
(***************************************************************************)
EXTENDS Integers, Sequences, Functions

CONSTANTS
    Owners,
    BPS,                         \* 10000 in the code
    MAX_ACTIVE_POSITIONS,        \* 64 in the code
    MIN_DURATION, MAX_DURATION,
    MAX_TERMS,                   \* 8 in the code
    MaxCampaigns, MaxPositions,  \* bounds on what is ever created
    Menus,                       \* sequences of terms a governor may offer
    Caps, Budgets, Amounts,      \* principal caps, reward budgets, deposits
    Times,                       \* enrolment boundaries a governor may name
    MaxTime, MaxFunds            \* bounds on the clock and on what is given

ASSUME PoolAssumption ==
    /\ BPS \in Nat \ {0}
    /\ {MAX_ACTIVE_POSITIONS, MIN_DURATION, MAX_DURATION, MAX_TERMS} \subseteq Nat \ {0}
    /\ {MaxCampaigns, MaxPositions} \subseteq Nat
    /\ Menus \subseteq Seq([duration : Nat, rewardBps : Nat])
    /\ Caps \subseteq Nat /\ Budgets \subseteq Nat /\ Amounts \subseteq Nat
    /\ Times \subseteq Nat /\ MaxTime \in Nat /\ MaxFunds \in Nat

VARIABLES
    now,
    campaigns, campaignCount,
    positions, positionCount,
    activePositions, positionIndex,
    totalPrincipal, totalRewardLiability, totalUnallocatedRewards,
    balance                      \* token.balanceOf(pool)

totals == <<totalPrincipal, totalRewardLiability, totalUnallocatedRewards>>
members == <<positions, positionCount, activePositions, positionIndex>>
vars == <<now, campaigns, campaignCount, members, totals, balance>>

CampaignIds == 1 .. MaxCampaigns
PositionIds == 1 .. MaxPositions
NoOwner == 0

rewardFor(principal, bps) ==
    (principal \div BPS) * bps + ((principal % BPS) * bps) \div BPS

protectedBalance_NoFuture == totalPrincipal + totalRewardLiability
protectedBalance ==
    totalPrincipal + totalRewardLiability + totalUnallocatedRewards

Solvent == balance >= protectedBalance

ValidTerms(terms) ==
    /\ terms # <<>> /\ Len(terms) <= MAX_TERMS
    /\ \A i \in DOMAIN terms :
          /\ terms[i].duration >= MIN_DURATION /\ terms[i].duration <= MAX_DURATION
          /\ terms[i].rewardBps > 0 /\ terms[i].rewardBps <= BPS
          /\ i > 1 => terms[i].duration > terms[i - 1].duration

NoCampaign ==
    [startsAt |-> 0, enrollmentEndsAt |-> 0, principalCap |-> 0,
     totalDeposited |-> 0, rewardBudget |-> 0, unallocatedReward |-> 0,
     outstandingReward |-> 0, admissionsPaused |-> FALSE, closed |-> FALSE,
     terms |-> <<>>]

NoStake ==
    [owner |-> NoOwner, campaignId |-> 0, principal |-> 0, reward |-> 0,
     unlockAt |-> 0, claimed |-> FALSE]

Created(c) == c \in CampaignIds /\ c <= campaignCount

-----------------------------------------------------------------------------

fund(amount) ==
    /\ amount > 0
    /\ balance' = balance + amount
    /\ UNCHANGED <<now, campaigns, campaignCount, members, totals>>

(* At the highest rate, that is at every rate offered.                     *)
BudgetCovers(budget, cap, terms) ==
    \A i \in DOMAIN terms : budget >= rewardFor(cap, terms[i].rewardBps)

(* carried: tokens the calling treasury transfers in the same transaction. *)
createCampaign(starts, ends, cap, budget, terms, carried) ==
    LET id == campaignCount + 1 IN
    /\ id \in CampaignIds
    /\ starts >= now /\ ends > starts
    /\ cap > 0
    /\ ValidTerms(terms)
    /\ budget > 0 /\ BudgetCovers(budget, cap, terms)
    /\ balance + carried - protectedBalance >= budget
    /\ campaignCount' = id
    /\ campaigns' = [campaigns EXCEPT ![id] =
         [NoCampaign EXCEPT
            !.startsAt = starts, !.enrollmentEndsAt = ends, !.principalCap = cap,
            !.rewardBudget = budget, !.unallocatedReward = budget,
            !.terms = terms]]
    /\ totalUnallocatedRewards' = totalUnallocatedRewards + budget
    /\ balance' = balance + carried
    /\ UNCHANGED <<now, members, totalPrincipal, totalRewardLiability>>

setAdmissionsPaused(c, paused) ==
    /\ Created(c)
    /\ ~campaigns[c].closed /\ now < campaigns[c].enrollmentEndsAt
    /\ campaigns' = [campaigns EXCEPT ![c].admissionsPaused = paused]
    /\ UNCHANGED <<now, campaignCount, members, totals, balance>>

MayClose(c, byGovernor) ==
    /\ Created(c)
    /\ byGovernor \/ now >= campaigns[c].enrollmentEndsAt
    /\ ~campaigns[c].closed

(* recovered: what the calling treasury recovers in the same transaction.  *)
closeCampaign(c, byGovernor, recovered) ==
    /\ MayClose(c, byGovernor)
    /\ totalUnallocatedRewards >= campaigns[c].unallocatedReward
    /\ recovered <= balance - protectedBalance + campaigns[c].unallocatedReward
    /\ campaigns' = [campaigns EXCEPT ![c].closed = TRUE,
                                      ![c].unallocatedReward = 0]
    /\ totalUnallocatedRewards' =
         totalUnallocatedRewards - campaigns[c].unallocatedReward
    /\ balance' = balance - recovered
    /\ UNCHANGED <<now, campaignCount, members, totalPrincipal,
                   totalRewardLiability>>

Admits(c) ==
    /\ Created(c)
    /\ ~campaigns[c].closed /\ ~campaigns[c].admissionsPaused
    /\ now >= campaigns[c].startsAt /\ now < campaigns[c].enrollmentEndsAt

stake(owner, c, t, amount) ==
    LET term == campaigns[c].terms[t]
        reward == rewardFor(amount, term.rewardBps)
        id == positionCount + 1
    IN  /\ id \in PositionIds
        /\ Admits(c)
        /\ amount > 0
        /\ amount <= campaigns[c].principalCap - campaigns[c].totalDeposited
        /\ t \in DOMAIN campaigns[c].terms
        /\ Len(activePositions[owner]) < MAX_ACTIVE_POSITIONS
        /\ reward > 0 /\ reward <= campaigns[c].unallocatedReward
        /\ totalUnallocatedRewards >= reward
        /\ Solvent
        /\ positionCount' = id
        /\ positions' = [positions EXCEPT ![id] =
             [owner |-> owner, campaignId |-> c, principal |-> amount,
              reward |-> reward, unlockAt |-> now + term.duration,
              claimed |-> FALSE]]
        /\ positionIndex' = [positionIndex EXCEPT ![id] = Len(activePositions[owner])]
        /\ activePositions' = [activePositions EXCEPT ![owner] = Append(@, id)]
        /\ campaigns' = [campaigns EXCEPT
             ![c].totalDeposited = @ + amount,
             ![c].unallocatedReward = @ - reward,
             ![c].outstandingReward = @ + reward]
        /\ totalUnallocatedRewards' = totalUnallocatedRewards - reward
        /\ totalRewardLiability' = totalRewardLiability + reward
        /\ totalPrincipal' = totalPrincipal + amount
        /\ balance' = balance + amount
        /\ UNCHANGED <<now, campaignCount>>

(* The last active position takes the place of the claimed one.            *)
RemoveActive_NoIndex(owner, p) ==
    LET active == activePositions[owner]
        i == positionIndex[p]
        last == active[Len(active)]
    IN  /\ activePositions' = [activePositions EXCEPT
             ![owner] = SubSeq([active EXCEPT ![i + 1] = last], 1, Len(active) - 1)]
        /\ positionIndex' = [positionIndex EXCEPT ![p] = 0]
RemoveActive(owner, p) ==
    LET active == activePositions[owner]
        i == positionIndex[p]
        last == active[Len(active)]
    IN  /\ activePositions' = [activePositions EXCEPT
             ![owner] = SubSeq([active EXCEPT ![i + 1] = last], 1, Len(active) - 1)]
        /\ positionIndex' = [positionIndex EXCEPT ![last] = i, ![p] = 0]

(* Everything that may make a claim revert: its checks, the checked        *)
(* subtractions, the places in the owner's list, and the transfer.         *)
MayClaim(p) ==
    LET pos == positions[p] IN
    /\ p <= positionCount /\ ~pos.claimed
    /\ now >= pos.unlockAt
    /\ Solvent
    /\ totalPrincipal >= pos.principal
    /\ totalRewardLiability >= pos.reward
    /\ campaigns[pos.campaignId].outstandingReward >= pos.reward
    /\ positionIndex[p] < Len(activePositions[pos.owner])
    /\ balance >= pos.principal + pos.reward

claim(p) ==
    LET pos == positions[p] IN
    /\ MayClaim(p)
    /\ positions' = [positions EXCEPT ![p].claimed = TRUE]
    /\ totalPrincipal' = totalPrincipal - pos.principal
    /\ totalRewardLiability' = totalRewardLiability - pos.reward
    /\ campaigns' = [campaigns EXCEPT ![pos.campaignId].outstandingReward = @ - pos.reward]
    /\ RemoveActive(pos.owner, p)
    /\ balance' = balance - (pos.principal + pos.reward)
    /\ UNCHANGED <<now, campaignCount, positionCount, totalUnallocatedRewards>>

recoverFreeTokens(amount) ==
    /\ amount > 0
    /\ Solvent /\ amount <= balance - protectedBalance
    /\ balance' = balance - amount
    /\ UNCHANGED <<now, campaigns, campaignCount, members, totals>>

Tick ==
    /\ now < MaxTime /\ now' = now + 1
    /\ UNCHANGED <<campaigns, campaignCount, members, totals, balance>>

Init ==
    /\ now = 1
    /\ campaigns = [c \in CampaignIds |-> NoCampaign] /\ campaignCount = 0
    /\ positions = [p \in PositionIds |-> NoStake] /\ positionCount = 0
    /\ activePositions = [o \in Owners |-> <<>>]
    /\ positionIndex = [p \in PositionIds |-> 0]
    /\ totalPrincipal = 0 /\ totalRewardLiability = 0
    /\ totalUnallocatedRewards = 0
    /\ balance = 0

(* What anyone may do; the governor's calls come from the treasury.        *)
Participating ==
    \/ \E c \in CampaignIds : closeCampaign(c, FALSE, 0)
    \/ \E o \in Owners, c \in CampaignIds, a \in Amounts :
          \E t \in DOMAIN campaigns[c].terms : stake(o, c, t, a)
    \/ \E p \in PositionIds : claim(p)

Governing ==
    \/ \E s \in Times, e \in Times, cap \in Caps, b \in Budgets, m \in Menus :
          \E carried \in {0, b} :
             balance + carried <= MaxFunds /\ createCampaign(s, e, cap, b, m, carried)
    \/ \E c \in CampaignIds, recovered \in 0 .. MaxFunds :
          closeCampaign(c, TRUE, recovered)
    \/ \E c \in CampaignIds, paused \in BOOLEAN : setAdmissionsPaused(c, paused)
    \/ \E a \in 1 .. MaxFunds : recoverFreeTokens(a)

Next ==
    \/ Participating \/ Governing \/ Tick
    \/ \E a \in Budgets : balance + a <= MaxFunds /\ fund(a)

Spec == Init /\ [][Next]_vars

-----------------------------------------------------------------------------

CampaignType ==
    [startsAt : Nat, enrollmentEndsAt : Nat, principalCap : Nat,
     totalDeposited : Nat, rewardBudget : Nat, unallocatedReward : Nat,
     outstandingReward : Nat, admissionsPaused : BOOLEAN, closed : BOOLEAN,
     terms : Menus \cup {<<>>}]

PositionType ==
    [owner : Owners \cup {NoOwner}, campaignId : CampaignIds \cup {0},
     principal : Nat, reward : Nat, unlockAt : Nat, claimed : BOOLEAN]

(* Every variable has its declared type; no total and no budget is ever    *)
(* negative.                                                               *)
PoolTypeOK ==
    /\ now \in Nat
    /\ campaigns \in [CampaignIds -> CampaignType]
    /\ campaignCount \in 0 .. MaxCampaigns
    /\ positions \in [PositionIds -> PositionType]
    /\ positionCount \in 0 .. MaxPositions
    /\ activePositions \in [Owners -> Seq(PositionIds)]
    /\ positionIndex \in [PositionIds -> Nat]
    /\ totalPrincipal \in Nat /\ totalRewardLiability \in Nat
    /\ totalUnallocatedRewards \in Nat /\ balance \in Nat

(* The pool always holds the principal, the promised rewards and the       *)
(* rewards set aside for enrolment still open: freeBalance never reverts,  *)
(* so no participant is ever locked in by an insolvent pool.               *)
PoolIsSolvent == Solvent

(* The promise made at creation holds at every moment of enrolment:        *)
(* whatever was deposited so far, at whatever terms, the reward left still *)
(* covers the rest of the cap at every rate: no deposit within the         *)
(* cap is ever refused for lack of reward budget.                          *)
RewardCoversTheCap ==
    \A c \in CampaignIds : Created(c) /\ ~campaigns[c].closed =>
        BudgetCovers(campaigns[c].unallocatedReward,
                     campaigns[c].principalCap - campaigns[c].totalDeposited,
                     campaigns[c].terms)

Unclaimed == {p \in PositionIds : p <= positionCount /\ ~positions[p].claimed}

Principals == [p \in PositionIds |-> positions[p].principal]
Rewards == [p \in PositionIds |-> positions[p].reward]
Unallocated == [c \in CampaignIds |-> campaigns[c].unallocatedReward]
Enrolled(c) == {p \in Unclaimed : positions[p].campaignId = c}

(* The totals are the sums over what they stand for, so the checked        *)
(* subtractions of a claim and of a closing never revert.                  *)
PoolTotalsAreSums ==
    /\ totalPrincipal = SumFunctionOnSet(Principals, Unclaimed)
    /\ totalRewardLiability = SumFunctionOnSet(Rewards, Unclaimed)
    /\ totalUnallocatedRewards = SumFunction(Unallocated)
    /\ \A c \in CampaignIds : campaigns[c].outstandingReward = SumFunctionOnSet(Rewards, Enrolled(c))

(* An owner's list holds each unclaimed position once, at the index the    *)
(* pool remembers for it: no claim ever removes somebody else's entry.     *)
ActiveListsMatchIndex ==
    \A o \in Owners :
        /\ \A i \in 1 .. Len(activePositions[o]) :
              LET p == activePositions[o][i] IN
              p \in Unclaimed /\ positions[p].owner = o /\ positionIndex[p] = i - 1
        /\ \A p \in Unclaimed : positions[p].owner = o =>
              \E i \in 1 .. Len(activePositions[o]) : activePositions[o][i] = p

(* A matured position can always be claimed: none of claim's checks,       *)
(* checked subtractions and list accesses ever stands between a            *)
(* participant and what was promised.                                      *)
MaturedAreClaimable ==
    /\ PoolTotalsAreSums /\ ActiveListsMatchIndex
    /\ \A p \in Unclaimed : now >= positions[p].unlockAt => MayClaim(p)
=============================================================================
