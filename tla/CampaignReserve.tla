-------------------------- MODULE CampaignReserve --------------------------
(***************************************************************************)
(* contracts/src/ThotCampaignReserve.sol, and with Shared = TRUE the       *)
(* changes ThotTreasury.sol makes to it (the staking calls are in          *)
(* ThotTreasury).  Governance gives campaigns a budget that unlocks over   *)
(* time; authorised buyers spend it in the bound market.                   *)
(*                                                                         *)
(* The market is seen from here: a funded offer holds the purchase price   *)
(* until the market ends it, and then credits the reserve with anything    *)
(* from nothing (sold, the fee is somebody else's) to all of it            *)
(* (refunded).                                                             *)
(***************************************************************************)
EXTENDS Integers, FiniteSetsExt

CONSTANTS
    People,          \* accounts that may be buyers or the operator
    Nobody,          \* address(0)
    Governor,
    Owners,          \* governor.getOwners()
    FirstOperator,
    Shared,          \* FALSE: ThotCampaignReserve (v2); TRUE: ThotTreasury (v3)
    RESERVE,         \* 470M in the code
    Supply,          \* tokens that may reach the reserve
    MaxCampaigns,    \* bound on the campaigns ever created
    Acquisitions,    \* offer ids
    Budgets, Upfronts, Grosses,
    Durations,       \* those up to MAX_CAMPAIGN_DURATION
    MaxTime          \* bound on the clock

ASSUME ReserveAssumption ==
    /\ Nobody \notin People \cup {Governor} /\ Owners \subseteq People /\ FirstOperator \in People
    /\ Shared \in BOOLEAN
    /\ {RESERVE, Supply, MaxCampaigns, MaxTime} \subseteq Nat
    /\ Budgets \subseteq Nat /\ Upfronts \subseteq Nat
    /\ Durations \subseteq Nat \ {0} /\ Grosses \subseteq Nat

VARIABLES
    now,
    campaigns, campaignCount,
    totalAllocated, totalGrossCommitted,
    paused, operator, authorizedBuyers, bound,
    acquisitionBuyer, acquisitionCampaign,
    balance,         \* token.balanceOf(reserve)
    held,            \* what the market holds for each funded acquisition
    credit           \* market.claimable(reserve)

spending == <<campaigns, campaignCount, totalAllocated, totalGrossCommitted>>
people == <<operator, authorizedBuyers, bound>>
acquired == <<acquisitionBuyer, acquisitionCampaign>>
market == <<held, credit>>
vars == <<now, spending, paused, people, acquired, balance, market>>

CampaignIds == 1 .. MaxCampaigns
NoCampaign ==
    [budget |-> 0, committed |-> 0, startAt |-> 0, endAt |-> 0, upfront |-> 0,
     paused |-> FALSE, closed |-> FALSE]
Created(c) == c \in CampaignIds /\ c <= campaignCount

-----------------------------------------------------------------------------
(* Views.                                                                  *)

(* v3 has no lifetime ceiling: whatever is not promised may be allocated.  *)
unallocatedBalance ==
    LET free == balance - totalAllocated
        authority == RESERVE - totalGrossCommitted - totalAllocated
    IN  IF free <= 0 THEN 0
        ELSE IF ~Shared /\ free > authority THEN authority ELSE free

unlockedBudget(c) ==
    LET k == campaigns[c] IN
    IF now < k.startAt THEN 0
    ELSE IF now >= k.endAt THEN k.budget
    ELSE k.upfront + ((k.budget - k.upfront) * (now - k.startAt))
                       \div (k.endAt - k.startAt)

Spendable(c) ==
    /\ Created(c)
    /\ ~paused /\ ~campaigns[c].paused /\ ~campaigns[c].closed
    /\ now >= campaigns[c].startAt /\ now < campaigns[c].endAt

remainingAllowance_Whole(c) ==
    IF ~Spendable(c) THEN 0
    ELSE LET left == campaigns[c].budget - campaigns[c].committed
         IN  IF left > balance THEN balance ELSE left
remainingAllowance(c) ==
    LET left == unlockedBudget(c) - campaigns[c].committed IN
    IF ~Spendable(c) \/ left <= 0 THEN 0
    ELSE IF left > balance THEN balance ELSE left

-----------------------------------------------------------------------------
(* Governance.                                                             *)

bindMarket ==
    /\ ~bound
    /\ Shared \/ balance >= RESERVE
    /\ bound' = TRUE
    /\ UNCHANGED <<now, spending, paused, operator, authorizedBuyers, acquired,
                   balance, market>>

createCampaign(budget, start, duration, upfront) ==
    LET id == campaignCount + 1
        from == IF start = 0 THEN now ELSE start
    IN  /\ id \in CampaignIds
        /\ bound
        /\ budget > 0 /\ upfront <= budget /\ duration > 0
        /\ from >= now
        /\ budget <= unallocatedBalance
        /\ campaignCount' = id
        /\ campaigns' = [campaigns EXCEPT ![id] =
             [NoCampaign EXCEPT !.budget = budget, !.startAt = from,
                                !.endAt = from + duration, !.upfront = upfront]]
        /\ totalAllocated' = totalAllocated + budget
        /\ UNCHANGED <<now, totalGrossCommitted, paused, people, acquired,
                       balance, market>>

setCampaignPaused(c, value) ==
    /\ Created(c) /\ ~campaigns[c].closed
    /\ campaigns' = [campaigns EXCEPT ![c].paused = value]
    /\ UNCHANGED <<now, campaignCount, totalAllocated, totalGrossCommitted,
                   paused, people, acquired, balance, market>>

_close(c) ==
    LET released == campaigns[c].budget - campaigns[c].committed IN
    /\ Created(c) /\ ~campaigns[c].closed
    /\ released >= 0 /\ totalAllocated >= released
    /\ campaigns' = [campaigns EXCEPT ![c].closed = TRUE]
    /\ totalAllocated' = totalAllocated - released
    /\ UNCHANGED <<now, campaignCount, totalGrossCommitted, paused, people,
                   acquired, balance, market>>

cancelCampaign(c) == _close(c)

expireCampaign(c) == now >= campaigns[c].endAt /\ _close(c)

setOperator(next) ==
    /\ operator' = next
    /\ UNCHANGED <<now, spending, paused, authorizedBuyers, bound, acquired,
                   balance, market>>

setBuyer(buyer, allowed) ==
    /\ authorizedBuyers' = IF allowed THEN authorizedBuyers \cup {buyer}
                           ELSE authorizedBuyers \ {buyer}
    /\ UNCHANGED <<now, spending, paused, operator, bound, acquired, balance,
                   market>>

setPaused(value) ==
    /\ paused' = value
    /\ UNCHANGED <<now, spending, people, acquired, balance, market>>

-----------------------------------------------------------------------------
(* Spending.                                                               *)

_commit(c, id, gross, buyer) ==
    /\ gross > 0 /\ gross <= remainingAllowance(c)
    /\ acquisitionCampaign[id] = 0
    /\ totalAllocated >= gross
    /\ campaigns' = [campaigns EXCEPT ![c].committed = @ + gross]
    /\ totalAllocated' = totalAllocated - gross
    /\ totalGrossCommitted' = totalGrossCommitted + gross
    /\ acquisitionBuyer' = [acquisitionBuyer EXCEPT ![id] = buyer]
    /\ acquisitionCampaign' = [acquisitionCampaign EXCEPT ![id] = c]

(* purchase and purchaseAuthorized: the market takes the price at once; if *)
(* it refuses, the whole call reverts.                                     *)
purchase(buyer, c, id, gross) ==
    /\ buyer \in authorizedBuyers
    /\ _commit(c, id, gross, buyer)
    /\ balance' = balance - gross
    /\ held' = [held EXCEPT ![id] = gross]
    /\ UNCHANGED <<now, campaignCount, paused, people, credit>>

collectReturns ==
    /\ bound /\ credit > 0
    /\ balance' = balance + credit
    /\ credit' = 0
    /\ UNCHANGED <<now, spending, paused, people, acquired, held>>

(* Losing the right to buy does not take away the right to cancel.         *)
MayCancel(who, id) == who \in {Governor, operator, acquisitionBuyer[id]}

cancelOffer(who, id) ==
    /\ acquisitionCampaign[id] # 0
    /\ MayCancel(who, id)
    /\ held[id] > 0
    /\ held' = [held EXCEPT ![id] = 0]
    /\ credit' = credit + held[id]
    /\ UNCHANGED <<now, spending, paused, people, acquired, balance>>

(* The market ends a sale; the reserve is credited part of its price.      *)
marketEnds(id, returned) ==
    /\ held[id] > 0 /\ returned <= held[id]
    /\ held' = [held EXCEPT ![id] = 0]
    /\ credit' = credit + returned
    /\ UNCHANGED <<now, spending, paused, people, acquired, balance>>

donate(amount) ==
    /\ balance' = balance + amount
    /\ UNCHANGED <<now, spending, paused, people, acquired, market>>

Tick ==
    /\ now < MaxTime /\ now' = now + 1
    /\ UNCHANGED <<spending, paused, people, acquired, balance, market>>

Init ==
    /\ now = 1
    /\ campaigns = [c \in CampaignIds |-> NoCampaign] /\ campaignCount = 0
    /\ totalAllocated = 0 /\ totalGrossCommitted = 0
    /\ paused = FALSE /\ operator = FirstOperator /\ bound = FALSE
    /\ authorizedBuyers = IF Shared THEN {} ELSE Owners
    /\ acquisitionBuyer = [id \in Acquisitions |-> Nobody]
    /\ acquisitionCampaign = [id \in Acquisitions |-> 0]
    /\ balance = 0
    /\ held = [id \in Acquisitions |-> 0] /\ credit = 0

Governing ==
    \/ bindMarket
    \/ \E b \in Budgets, s \in 0 .. MaxTime, d \in Durations, u \in Upfronts :
          createCampaign(b, s, d, u)
    \/ \E c \in CampaignIds : cancelCampaign(c)
    \/ \E c \in CampaignIds, value \in BOOLEAN : setCampaignPaused(c, value)
    \/ \E p \in People : setOperator(p)
    \/ \E p \in People, allowed \in BOOLEAN : setBuyer(p, allowed)
    \/ \E value \in BOOLEAN : setPaused(value)

Trading ==
    \/ \E p \in People, c \in CampaignIds, id \in Acquisitions, g \in Grosses :
          purchase(p, c, id, g)
    \/ \E p \in People \cup {Governor}, id \in Acquisitions : cancelOffer(p, id)
    \/ \E id \in Acquisitions, r \in 0 .. Supply : marketEnds(id, r)
    \/ \E c \in CampaignIds : expireCampaign(c)
    \/ collectReturns

(* Bound: gifts never bring the reserve above Supply.                      *)
Next ==
    \/ Governing \/ Trading \/ Tick
    \/ \E a \in Budgets : balance + credit + a <= Supply /\ donate(a)

Spec == Init /\ [][Next]_vars

-----------------------------------------------------------------------------

CampaignType ==
    [budget : Nat, committed : Nat, startAt : Nat, endAt : Nat, upfront : Nat,
     paused : BOOLEAN, closed : BOOLEAN]

(* Every variable has its declared type; no counter is ever negative.      *)
ReserveTypeOK ==
    /\ now \in Nat
    /\ campaigns \in [CampaignIds -> CampaignType]
    /\ campaignCount \in 0 .. MaxCampaigns
    /\ totalAllocated \in Nat /\ totalGrossCommitted \in Nat
    /\ paused \in BOOLEAN /\ bound \in BOOLEAN
    /\ operator \in People /\ authorizedBuyers \subseteq People
    /\ acquisitionBuyer \in [Acquisitions -> People \cup {Nobody}]
    /\ acquisitionCampaign \in [Acquisitions -> CampaignIds \cup {0}]
    /\ balance \in Nat /\ credit \in Nat
    /\ held \in [Acquisitions -> Nat]

(* What open campaigns may still spend is there to be spent, whatever was  *)
(* bought, returned, given or promised in the meantime: no campaign lives  *)
(* on another one's tokens.                                                *)
AllocationsAreBacked == balance >= totalAllocated

(* The lifetime ceiling of v2: gifts and returned purchases never raise    *)
(* what may still be allocated and spent (so the subtraction that computes *)
(* the remaining authority never underflows).                              *)
AuthorityIsFinite ==
    ~Shared => totalGrossCommitted + totalAllocated <= RESERVE

(* No campaign ever spent more than its schedule had unlocked, nor         *)
(* anything before its start.                                              *)
SpendingFollowsSchedule ==
    \A c \in CampaignIds : campaigns[c].committed <= unlockedBudget(c)

(* An acquisition is committed once: it keeps its campaign, and the buyer  *)
(* who may cancel it, for good - revoked, cancelled or settled.            *)
AcquisitionsAreFinal ==
    [][\A id \in Acquisitions : acquisitionCampaign[id] # 0 =>
          /\ acquisitionCampaign'[id] = acquisitionCampaign[id]
          /\ acquisitionBuyer'[id] = acquisitionBuyer[id]]_vars

(* Campaigns spend what governance authorised, when it did: once for each  *)
(* acquisition, within their schedule, within the lifetime authority, and  *)
(* from tokens that are there for them, whatever was bought, returned,     *)
(* given or cancelled meanwhile.                                           *)
SpendingIsAuthorized ==
    /\ [](SpendingFollowsSchedule /\ AuthorityIsFinite /\ AllocationsAreBacked)
    /\ AcquisitionsAreFinal
=============================================================================
