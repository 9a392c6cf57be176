--------------------------- MODULE MandateMarket ----------------------------
(***************************************************************************)
(* ThotService of packages/market/src/service.ts: buyers fund mandates,      *)
(* contributors' traces are matched with them under the policies of their     *)
(* owners, authorized, licensed, delivered, settled in the ledger, and        *)
(* deleted.  Every command and every job is one transaction under the         *)
(* service lock, so it is one step.  The tables are one record: a             *)
(* transaction that fails leaves it as it was.  The vault is not part of the   *)
(* transaction: what a failed transaction removed stays removed, and what it    *)
(* sealed stays sealed although no row names it.                              *)
(*                                                                         *)
(* A candidate, its license, its settlement and its release object are named    *)
(* by mandate, trace and version of the policy they were made under.  A trace   *)
(* has at most one evidence receipt, and is imported eligible for sale.        *)
(***************************************************************************)
EXTENDS Ledger, Sequences, SequencesExt, FiniteSets

CONSTANTS
  Mandates, Traces,
  OwnerOf,        \* the contributor of a trace
  PriceOf,        \* the unit price of a mandate (economics.unit_price_minor)
  BudgetOf,       \* its total budget
  UnitsOf,        \* its max_units
  NeedsEvidence,  \* mandates that ask for an evidence receipt
  Exclusive,      \* mandates that ask for an exclusive license
  Cases,          \* bound: what may happen in a behaviour, see below
  MAX_ATTEMPTS,   \* runs of a job before it has failed (5)
  MAX_VERSION,    \* bound: policies an owner writes
  MAX_QUEUE,      \* bound: pending jobs when a mandate is activated or sales resume
  MAX_RESERVATIONS \* bound: inference reservations

ASSUME MandateMarketAssumption ==
  /\ \A m \in Mandates : /\ PriceOf[m] \in Nat \ {0} /\ UnitsOf[m] \in Nat \ {0}
                         /\ BudgetOf[m] \in Nat /\ BudgetOf[m] >= PriceOf[m]
  /\ MAX_ATTEMPTS \in Nat \ {0}

\* A case names the mandates and traces of a behaviour and the optional events of it.
Events == {"evidence", "delete", "lapse", "expiry", "pause", "controls", "partial", "money", "faults", "standing"}
ASSUME CaseAssumption ==
  \A c \in Cases : /\ c.mandates \subseteq Mandates /\ IsFiniteSet(c.mandates)
                   /\ c.traces \subseteq Traces /\ IsFiniteSet(c.traces)
                   /\ c.events \subseteq Events

VARIABLES case,    \* chosen at the start and never changed
          tables,  \* the database
          vault,   \* the private objects that exist
          orphans, \* releases sealed by transactions that were rolled back
          past     \* whose time has come: mandates, traces and licenses
marketVars == <<case, tables, vault, orphans, past>>

Owners == {OwnerOf[t] : t \in Traces}
May(event) == event \in case.events
Ids(m, t) == {<<m, t, v>> : v \in 1..MAX_VERSION}
MandateOf(id) == id[1]
TraceOf(id) == id[2]
Source(t) == <<"source", t>>       \* the raw, scrubbed and metadata objects of a trace
Release(id) == <<"release", id>>

NoPolicy == [version |-> 0, allows |-> {}, standing |-> FALSE]
NoMandate == [status |-> "none", funded |-> 0, spent |-> 0, units |-> 0]
Empty == [
  traces     |-> <<>>,                            \* imported, oldest first
  deleted    |-> {},
  linked     |-> {}, revoked |-> {},              \* evidence receipts, by trace
  policies   |-> [o \in Owners |-> NoPolicy],     \* the current policy of an owner
  mandates   |-> [m \in Mandates |-> NoMandate],
  funding    |-> {},                              \* funding references used, by mandate
  candidates |-> <<>>,                            \* id -> [status, evidence]
  licenses   |-> <<>>,                            \* id -> [delivery, payout]
  credit     |-> <<>>,                            \* id -> the contributor's entitlement
  burn       |-> <<>>,                            \* id -> status of the burn allocation
  reserved   |-> <<>>,                            \* inference_credit_reservations
  outbox     |-> <<>>,                            \* pending jobs, oldest first
  failed     |-> {},                              \* jobs given up
  book       |-> NoBook,
  paused     |-> {},                              \* operational_controls
  sourceGone |-> {}]                              \* private_objects_deleted

MarketInit ==
  /\ case \in Cases
  /\ tables = Empty /\ vault = {} /\ orphans = {}
  /\ past = [mandates |-> {}, traces |-> {}, licenses |-> {}]

With(f, x, y) == [z \in DOMAIN f \cup {x} |-> IF z = x THEN y ELSE f[z]]

(***************************************************************************)
(* The outbox.                                                             *)
(***************************************************************************)
Job(event, on) == [event |-> event, on |-> on, attempts |-> 0]
Enqueue(db, event, on) == [db EXCEPT !.outbox = Append(@, Job(event, on))]
Queued(db, event, on) == \E i \in 1..Len(db.outbox) : db.outbox[i].event = event /\ db.outbox[i].on = on
Open(db, m) == db.mandates[m].status = "active" /\ m \notin past.mandates
\* Jobs for each of a set, in any order.
EnqueueEach(db, event, S) == [db EXCEPT !.outbox = @ \o SetToSeq({Job(event, on) : on \in S})]
EnqueueMatching_OneQueue(db) ==
  IF \E i \in DOMAIN db.outbox : db.outbox[i].event = "MatchMandate" THEN db
  ELSE EnqueueEach(db, "MatchMandate", {m \in case.mandates : Open(db, m)})
\* One matching job for each open mandate that has none.
EnqueueMatching(db) == EnqueueEach(db, "MatchMandate", {m \in case.mandates : Open(db, m) /\ ~Queued(db, "MatchMandate", m)})

\* A command that succeeds: its rows, with the vault as it was.
Write(db) == tables' = db /\ UNCHANGED <<case, vault, orphans, past>>

(***************************************************************************)
(* Contributors: traces, policies and evidence.                             *)
(***************************************************************************)
ImportTrace(t) ==
  /\ t \notin Range(tables.traces)
  /\ tables' = EnqueueMatching([tables EXCEPT !.traces = Append(@, t)])
  /\ vault' = vault \cup {Source(t)}
  /\ UNCHANGED <<case, orphans, past>>

CreatePolicy(o, allows, standing) ==
  /\ tables.policies[o].version < MAX_VERSION
  /\ standing => May("standing")     \* config.standingAuthorization
  /\ Write(EnqueueMatching([tables EXCEPT !.policies[o] =
       [version |-> @.version + 1, allows |-> allows, standing |-> standing]]))

\* expires_at passes: the policy stays the current one, allows nothing any more, and queues nothing.
PolicyExpires(o) ==
  /\ tables.policies[o].allows # {}
  /\ Write([tables EXCEPT !.policies[o].allows = {}])

LinkEvidence(t) ==
  /\ t \in Range(tables.traces) \ (tables.deleted \cup tables.linked)
  /\ Write(EnqueueMatching([tables EXCEPT !.linked = @ \cup {t}]))

RevokeReceipt(t) ==
  /\ t \in tables.linked \ tables.revoked
  /\ Write([tables EXCEPT !.revoked = @ \cup {t}])

EvidenceOf(db, t) == t \in db.linked \ db.revoked

(***************************************************************************)
(* Buyers: mandates and their funding.                                      *)
(***************************************************************************)
CreateMandate(m) ==
  /\ tables.mandates[m].status = "none" /\ m \notin past.mandates
  /\ Write([tables EXCEPT !.mandates[m].status = "draft"])

\* Outside development, money comes with the confirmation of the settlement service.
FundMandate(m) ==
  /\ tables.mandates[m].status \in {"draft", "pending_funding", "funded"}
  /\ Write([tables EXCEPT !.mandates[m].status = "pending_funding"])

Escrow == "LIABILITY:buyer_escrow"
FundingJournal(db, m, reference, amount) ==
  postJournal(db.book, <<"fund", reference>>, Move(Cash, Into(<<Escrow, m>>, amount)))
FundedMore(row, amount) == [row EXCEPT !.funded = @ + amount, !.status = "funded"]
RecordFunding_Replayed(db, m, reference, amount) ==
  [db EXCEPT !.funding = @ \cup {reference}, !.book = FundingJournal(db, m, reference, amount),
             !.mandates[m] = FundedMore(@, amount)]
\* recordFunding: one reference pays once, and never beyond the budget.
RecordFunding(db, m, reference, amount) ==
  IF reference \in db.funding THEN db
  ELSE [db EXCEPT !.funding = @ \cup {reference}, !.book = FundingJournal(db, m, reference, amount),
                  !.mandates[m] = FundedMore(@, amount)]

\* A transfer of the settlement service is for one mandate and one amount; it may be
\* reported again under another command key.
Transfers(m) == {<<m, 1, a>> : a \in {BudgetOf[m]} \cup (IF May("partial") THEN {PriceOf[m]} ELSE {})}
                \cup (IF May("partial") THEN {<<m, 2, BudgetOf[m] - PriceOf[m]>>} ELSE {})
FundingReplays(m, transfer) == \E known \in tables.funding : known[1] = m /\ known[2] = transfer[2]
ConfirmFunding(m, transfer) ==
  /\ tables.mandates[m].status # "none"
  /\ FundingReplays(m, transfer) => transfer \in tables.funding
  /\ transfer \notin tables.funding =>
       transfer[3] > 0 /\ tables.mandates[m].funded + transfer[3] <= BudgetOf[m]
  /\ Write(RecordFunding(tables, m, transfer, transfer[3]))

ActivateMandate(m) ==
  LET row == tables.mandates[m] IN
  /\ "sales" \notin tables.paused
  /\ row.status \in {"funded", "paused", "active"} /\ row.funded >= PriceOf[m] /\ m \notin past.mandates
  /\ Len(tables.outbox) < MAX_QUEUE
  /\ Write(Enqueue([tables EXCEPT !.mandates[m].status = "active"], "MatchMandate", m))

PauseMandate(m) ==
  /\ tables.mandates[m].status = "active"
  /\ Write([tables EXCEPT !.mandates[m].status = "paused"])

(***************************************************************************)
(* Matching and sale.  A transaction in progress is its rows, its vault,     *)
(* what it sealed, and whether an exception has ended it.                   *)
(***************************************************************************)
Begin == [db |-> tables, vault |-> vault, sealed |-> {}, ok |-> TRUE]

Alive(db, t) == t \notin db.deleted /\ t \notin past.traces
Allows(db, m, t) == m \in db.policies[OwnerOf[t]].allows
CandidatesOf(db, m, t) == {id \in DOMAIN db.candidates : MandateOf(id) = m /\ TraceOf(id) = t}
\* The candidate matchMandate finds for a trace.
Existing(db, m, t) == {id \in CandidatesOf(db, m, t) : db.candidates[id].status \notin {"SUPERSEDED", "DELETED"}}

\* An exclusive license is the only license of a trace.
LicensesOfTrace(db, t) == {id \in DOMAIN db.licenses : TraceOf(id) = t}
Unlocked_ByOthersOnly(db, m, t) == m \in Exclusive => LicensesOfTrace(db, t) = {}
Unlocked(db, m, t) ==
  /\ \A id \in LicensesOfTrace(db, t) : MandateOf(id) \notin Exclusive
  /\ m \in Exclusive => LicensesOfTrace(db, t) = {}

\* The guards of authorizeIn and finalizeCandidate, in the rows db and objects kept.
Sellable(db, kept, id) ==
  LET m == MandateOf(id)  t == TraceOf(id)  row == db.mandates[m]
  IN /\ "sales" \notin db.paused
     /\ db.candidates[id].status = "USER_AUTH_PENDING"
     /\ db.policies[OwnerOf[t]].version = id[3] /\ Allows(db, m, t)
     /\ Alive(db, t)
     /\ Open(db, m)
     /\ db.candidates[id].evidence => EvidenceOf(db, t)
     /\ Unlocked(db, m, t)
     /\ row.units < UnitsOf[m] /\ row.funded - row.spent >= PriceOf[m]
     /\ Owed(db.book, Escrow, m) >= PriceOf[m]
     /\ Release(id) \in kept

\* authorizeIn and finalizeCandidate.
SoldOneMore(row, m) ==
  [row EXCEPT !.units = @ + 1, !.spent = @ + PriceOf[m],
              !.status = IF row.units + 1 >= UnitsOf[m] \/ row.funded - row.spent - PriceOf[m] < PriceOf[m] THEN "exhausted" ELSE @]
Sold(db, id, payout) ==
  Enqueue([db EXCEPT !.candidates[id].status = "LICENSED",
                     !.licenses = With(@, id, [delivery |-> "AVAILABLE", payout |-> payout]),
                     !.mandates[MandateOf(id)] = SoldOneMore(@, MandateOf(id))],
          "SettleLicense", id)

\* Candidates of a set get a status.
Marked(candidates, ids, status) ==
  [id \in DOMAIN candidates |-> IF id \in ids THEN [candidates[id] EXCEPT !.status = status] ELSE candidates[id]]

\* What matchMandate does with one trace.
MatchTrace(s, m, t) ==
  LET policy == s.db.policies[OwnerOf[t]]
      existing == Existing(s.db, m, t)
      settled == existing # {} /\ \A id \in existing : s.db.candidates[id].status # "USER_AUTH_PENDING" \/ id[3] = policy.version
      renewed == [s EXCEPT !.db.candidates = Marked(@, existing, "SUPERSEDED"),
                           !.vault = @ \ {Release(id) : id \in existing}]
      id == <<m, t, policy.version>>
      found == [renewed EXCEPT !.db.candidates = With(@, id, [status |-> "USER_AUTH_PENDING", evidence |-> EvidenceOf(s.db, t)]),
                               !.vault = @ \cup {Release(id)}, !.sealed = @ \cup {id}]
  IN IF ~Alive(s.db, t) \/ ~Allows(s.db, m, t) \/ settled THEN s
     ELSE IF m \in NeedsEvidence /\ ~EvidenceOf(s.db, t) THEN renewed
     ELSE IF ~policy.standing THEN found
     ELSE IF Sellable(found.db, found.vault, id) THEN [found EXCEPT !.db = Sold(@, id, "inference_credit")]
     ELSE [found EXCEPT !.ok = FALSE]

MatchMandate(s, m) ==
  LET upTo[n \in 0..Len(s.db.traces)] ==
        IF n = 0 THEN s ELSE IF upTo[n - 1].ok THEN MatchTrace(upTo[n - 1], m, s.db.traces[n]) ELSE upTo[n - 1]
  IN IF "sales" \in s.db.paused \/ ~Open(s.db, m) THEN s ELSE upTo[Len(s.db.traces)]

\* The owner authorizes a candidate.  Token payouts need config.tokenEnabled.
Authorize(id, payout) ==
  /\ id \in DOMAIN tables.candidates /\ Sellable(tables, vault, id)
  /\ payout = "token" => May("money")
  /\ Write(Sold(tables, id, payout))

\* The buyer fetches the release.
Deliver(id) ==
  /\ id \in DOMAIN tables.licenses /\ "deliveries" \notin tables.paused
  /\ tables.licenses[id].delivery \in {"AVAILABLE", "DELIVERED"} /\ id \notin past.licenses
  /\ Release(id) \in vault
  /\ Write([tables EXCEPT !.licenses[id].delivery = "DELIVERED"])

(***************************************************************************)
(* Settlement and the contributor's share.                                  *)
(***************************************************************************)
Unallocated == "LIABILITY:contributor_unallocated"
TokenPending == "LIABILITY:contributor_token_pending"
BurnPending == "LIABILITY:burn_pending"
Share(id) == splitSale(PriceOf[MandateOf(id)])

\* chooseIn: the share leaves the unallocated account for the disposition chosen.
ChosenFor(entitlement, disposition) ==
  [entitlement EXCEPT !.disposition = disposition, !.status = IF disposition = "token" THEN "TOKEN_PURCHASE_PENDING" ELSE "AVAILABLE"]
ChooseIn(db, id, disposition) ==
  LET account == IF disposition = "token" THEN TokenPending ELSE Credit IN
  [db EXCEPT !.book = postJournal(@, <<"choose", id>>,
                        Move(<<Unallocated, id>>, Into(<<account, id>>, Share(id).contributor))),
             !.credit[id] = ChosenFor(@, disposition)]

\* The price of a sale leaves the escrow of the buyer for three accounts.
OperatorRevenue == <<"REVENUE:operator_allocation", "network">>
SaleInto(id) ==
  [account \in {<<Unallocated, id>>, <<BurnPending, id>>, OperatorRevenue} |->
     CASE account = <<Unallocated, id>> -> Share(id).contributor
       [] account = <<BurnPending, id>> -> Share(id).burn
       [] account = OperatorRevenue -> Share(id).operator]
Posted(db, id) ==
  [db EXCEPT
     !.book = postJournal(@, <<"sale", id>>, Move(<<Escrow, MandateOf(id)>>, SaleInto(id))),
     !.credit = With(@, id, [disposition |-> "pending", status |-> "AVAILABLE", available |-> Share(id).contributor]),
     !.burn = With(@, id, "CREATED")]
Settled(db, id) ==
  IF db.licenses[id].payout = "inference_credit" THEN ChooseIn(Posted(db, id), id, "inference_credit") ELSE Posted(db, id)
SettleLicense_OncePerMandate(s, id) ==
  IF \E other \in DOMAIN s.db.credit : MandateOf(other) = MandateOf(id) THEN s ELSE [s EXCEPT !.db = Settled(@, id)]
\* settleLicense: once for each license.
SettleLicense(s, id) == IF id \in DOMAIN s.db.credit THEN s ELSE [s EXCEPT !.db = Settled(@, id)]

Choose(id, disposition) ==
  /\ id \in DOMAIN tables.credit
  /\ tables.credit[id].status = "AVAILABLE" /\ tables.credit[id].disposition = "pending"
  /\ Write(ChooseIn(tables, id, disposition))

ReserveInference(id, amount) ==
  LET entitlement == tables.credit[id]
      rid == Len(tables.reserved) + 1
  IN /\ id \in DOMAIN tables.credit /\ "inference" \notin tables.paused
     /\ entitlement.disposition = "inference_credit" /\ entitlement.status = "AVAILABLE"
     /\ amount <= entitlement.available /\ rid <= MAX_RESERVATIONS
     /\ Write([tables EXCEPT
          !.book = reserveJournal(@, rid, id, amount),
          !.credit[id].available = @ - amount,
          !.reserved = Append(@, [of |-> id, amount |-> amount, status |-> "RESERVED"])])

\* The service that meters inference settles what was used; the rest is credit again.
SettleInference(rid, actual) ==
  LET r == tables.reserved[rid]
      left == tables.credit[r.of].available + r.amount - actual
  IN /\ r.status = "RESERVED" /\ actual <= r.amount
     /\ Write([tables EXCEPT
          !.book = usageJournal(@, rid, r.of, r.amount, actual, Cash),
          !.credit[r.of] = [@ EXCEPT !.available = left, !.status = IF left > 0 THEN "AVAILABLE" ELSE "INFERENCE_SPENT"],
          !.reserved[rid].status = IF actual = 0 THEN "RELEASED" ELSE "SPENT"])

\* completeDevelopmentAllocations: buys the tokens of every allocation and passes them on,
\* unless an account does not hold what an allocation says.
Allocations(db) ==
  {<<"contributor", id>> : id \in {e \in DOMAIN db.credit : db.credit[e].status = "TOKEN_PURCHASE_PENDING"}}
  \cup {<<"burn", id>> : id \in {b \in DOMAIN db.burn : db.burn[b] = "CREATED"}}
CostOf(a) == IF a[1] = "contributor" THEN Share(a[2]).contributor ELSE Share(a[2]).burn
Pending(a) == <<IF a[1] = "contributor" THEN TokenPending ELSE BurnPending, a[2]>>
Inventory(a) == <<IF a[1] = "contributor" THEN "ASSET:token_inventory_for_user" ELSE "ASSET:token_inventory_for_burn", a[2]>>
Disposition(a) == <<"disposition", a>>
AllocationJournals(due) ==
  [reference \in due \cup {Disposition(a) : a \in due} |->
     IF reference \in due THEN Move(Inventory(reference), Into(Cash, CostOf(reference)))
     ELSE Move(Pending(reference[2]), Into(Inventory(reference[2]), CostOf(reference[2])))]
CompleteAllocations ==
  LET all == Allocations(tables)
      due == {a \in all : CostOf(a) > 0}
  IN /\ all # {}
     /\ \A a \in due : Owed(tables.book, Pending(a)[1], Pending(a)[2]) = CostOf(a)
     /\ accountBalance(tables.book, Cash) >= SumFunction([a \in due |-> CostOf(a)])
     /\ Write([tables EXCEPT
          !.book = postJournals(@, AllocationJournals(due)),
          !.credit = [id \in DOMAIN @ |->
             IF <<"contributor", id>> \notin all THEN @[id]
             ELSE [@[id] EXCEPT !.status = IF Share(id).contributor = 0 THEN "NO_ALLOCATION" ELSE "TOKEN_WITHDRAWN", !.available = 0]],
          !.burn = [id \in DOMAIN @ |->
             IF @[id] # "CREATED" THEN @[id] ELSE IF Share(id).burn = 0 THEN "NO_ALLOCATION" ELSE "BURN_FINAL"]])

(***************************************************************************)
(* Deletion and retention.                                                  *)
(***************************************************************************)
DeleteTrace(t) ==
  /\ t \in Range(tables.traces) \ tables.deleted
  /\ Write(Enqueue([tables EXCEPT !.deleted = @ \cup {t}], "DeleteTraceObjects", t))

Unsold_OrSold(db, t) == {id \in DOMAIN db.candidates : TraceOf(id) = t}
Unsold(db, t) == {id \in DOMAIN db.candidates : TraceOf(id) = t /\ db.candidates[id].status # "LICENSED"}
DeleteTraceObjects(s, t) ==
  [s EXCEPT !.vault = @ \ ({Source(t)} \cup {Release(id) : id \in Unsold(s.db, t)}),
            !.db.candidates = Marked(@, Unsold(s.db, t), "DELETED"),
            !.db.sourceGone = @ \cup {t}]

DeleteExpiredCandidate(s, id) ==
  IF s.db.candidates[id].status = "LICENSED" THEN [s EXCEPT !.ok = FALSE]
  ELSE [s EXCEPT !.vault = @ \ {Release(id)}]
DeleteExpiredRelease(s, id) == [s EXCEPT !.vault = @ \ {Release(id)}]

\* sweepRetention: everything whose time has come, in one transaction.
SweepRetention ==
  LET over == (Range(tables.traces) \cap past.traces) \ tables.deleted
      lapsed == {id \in DOMAIN tables.candidates :
                   tables.candidates[id].status = "USER_AUTH_PENDING" /\ MandateOf(id) \in past.mandates}
      expired == {id \in DOMAIN tables.licenses \cap past.licenses : tables.licenses[id].delivery # "EXPIRED"}
      rows == [tables EXCEPT
        !.deleted = @ \cup over,
        !.candidates = Marked(@, lapsed, "EXPIRED"),
        !.licenses = [id \in DOMAIN @ |-> IF id \in expired THEN [@[id] EXCEPT !.delivery = "EXPIRED"] ELSE @[id]]]
  IN /\ ~(over = {} /\ lapsed = {} /\ expired = {})
     /\ Write(EnqueueEach(EnqueueEach(EnqueueEach(rows, "DeleteTraceObjects", over),
                                     "DeleteExpiredCandidate", lapsed), "DeleteExpiredRelease", expired))

LapseMandate(m) == m \notin past.mandates /\ tables.mandates[m].status # "none"
                   /\ past' = [past EXCEPT !.mandates = @ \cup {m}] /\ UNCHANGED <<case, tables, vault, orphans>>
LapseTrace(t) == t \in Range(tables.traces) \ past.traces
                 /\ past' = [past EXCEPT !.traces = @ \cup {t}] /\ UNCHANGED <<case, tables, vault, orphans>>
LapseLicense(id) == id \in DOMAIN tables.licenses \ past.licenses
                    /\ past' = [past EXCEPT !.licenses = @ \cup {id}] /\ UNCHANGED <<case, tables, vault, orphans>>

(***************************************************************************)
(* The worker and the circuit breakers.                                     *)
(***************************************************************************)
\* A job that failed waits half a minute: a later job may come first, an earlier one
\* that was never tried may not be passed over.
Due(i) == \A j \in 1..i - 1 : tables.outbox[j].attempts > 0
Perform(s, job) ==
  CASE job.event = "MatchMandate" -> MatchMandate(s, job.on)
    [] job.event = "SettleLicense" -> SettleLicense(s, job.on)
    [] job.event = "DeleteTraceObjects" -> DeleteTraceObjects(s, job.on)
    [] job.event = "DeleteExpiredCandidate" -> DeleteExpiredCandidate(s, job.on)
    [] job.event = "DeleteExpiredRelease" -> DeleteExpiredRelease(s, job.on)

RunJob(i) ==
  LET done == Perform([Begin EXCEPT !.db.outbox = RemoveAt(@, i)], tables.outbox[i])
  IN /\ Due(i) /\ done.ok
     /\ tables' = done.db /\ vault' = done.vault
     /\ UNCHANGED <<case, orphans, past>>

\* The job throws, or the vault or the database fails under it: the rows are rolled back,
\* the objects removed before that are gone and the releases sealed before that remain.
FailJob(i) ==
  LET job == tables.outbox[i]
      done == Perform([Begin EXCEPT !.db.outbox = RemoveAt(@, i)], job)
      more == job.attempts + 1
  IN /\ Due(i) /\ (done.ok => May("faults"))
     /\ \E gone \in SUBSET (vault \ done.vault), kept \in SUBSET done.sealed :
          /\ ~done.ok => gone = vault \ done.vault /\ kept = done.sealed
          /\ vault' = vault \ gone
          /\ orphans' = orphans \cup kept
     /\ tables' = [tables EXCEPT !.outbox = IF more < MAX_ATTEMPTS THEN [@ EXCEPT ![i].attempts = more] ELSE RemoveAt(@, i),
                                 !.failed = IF more < MAX_ATTEMPTS THEN @ ELSE @ \cup {<<job.event, job.on>>}]
     /\ UNCHANGED <<case, past>>

\* OperationalControls.update, by an operator who has read the current revision.
UpdateControls(paused) ==
  LET next == [tables EXCEPT !.paused = paused]
  IN /\ paused # tables.paused /\ Len(tables.outbox) < MAX_QUEUE
     /\ Write(IF "sales" \in tables.paused \ paused THEN EnqueueMatching(next) ELSE next)

Contributor ==
  \E t \in case.traces : \/ ImportTrace(t)
                         \/ May("evidence") /\ (LinkEvidence(t) \/ RevokeReceipt(t))
                         \/ May("delete") /\ DeleteTrace(t)
Consent ==
  \E o \in {OwnerOf[t] : t \in case.traces} :
     \/ \E allows \in {{}, case.mandates}, standing \in BOOLEAN : CreatePolicy(o, allows, standing)
     \/ May("expiry") /\ PolicyExpires(o)
Buyer ==
  \E m \in case.mandates : \/ CreateMandate(m) \/ FundMandate(m) \/ ActivateMandate(m)
                           \/ May("pause") /\ PauseMandate(m)
                           \/ \E transfer \in Transfers(m) : ConfirmFunding(m, transfer)
CaseIds == UNION {Ids(m, t) : m \in case.mandates, t \in case.traces}
Sale == \E id \in CaseIds : \/ \E payout \in {"inference_credit", "token"} : Authorize(id, payout)
                            \/ Deliver(id)
Money ==
  /\ May("money")
  /\ \/ \E id \in CaseIds : \/ \E disposition \in {"inference_credit", "token"} : Choose(id, disposition)
                            \/ \E amount \in 1..Share(id).contributor : ReserveInference(id, amount)
     \/ \E rid \in DOMAIN tables.reserved : \E actual \in 0..tables.reserved[rid].amount : SettleInference(rid, actual)
     \/ CompleteAllocations
Worker == \E i \in DOMAIN tables.outbox : RunJob(i) \/ FailJob(i)
Operator ==
  \/ May("controls") /\ \E paused \in {{}, {"sales"}, {"sales", "deliveries", "inference"}} : UpdateControls(paused)
  \/ SweepRetention
Time ==
  /\ May("lapse")
  /\ \/ \E m \in case.mandates : LapseMandate(m)
     \/ \E t \in case.traces : LapseTrace(t)
     \/ \E id \in CaseIds : LapseLicense(id)

MarketNext == Contributor \/ Consent \/ Buyer \/ Sale \/ Money \/ Worker \/ Operator \/ Time

\* The worker calls runWorker again and again.  A job that failed is tried again once its
\* half minute is over, and the oldest job comes first then.  This is WF_marketVars(OldestJob)
\* with its ENABLED spelled out: a queue that is not empty has an oldest job, and it either
\* completes or fails.
OldestJob == RunJob(1) \/ FailJob(1)
MarketFairness == []<>(tables.outbox = <<>>) \/ []<><<tables.outbox # <<>> /\ OldestJob>>_marketVars
MarketSpec == MarketInit /\ [][MarketNext]_marketVars /\ MarketFairness

(***************************************************************************)
(* Properties.                                                             *)
(***************************************************************************)
LicensesOf(m) == {id \in DOMAIN tables.licenses : MandateOf(id) = m}
Unsettled(m) == LicensesOf(m) \ DOMAIN tables.credit

\* The rows and the ledger tell the same story: a mandate's escrow is what it was funded
\* with less what was settled, and each share of a sale is in the one account its
\* disposition names, with what is reserved for inference apart (service.ts, ledger).
LedgerMatchesTables ==
  /\ \A m \in case.mandates :
       Owed(tables.book, Escrow, m)
         = tables.mandates[m].funded - tables.mandates[m].spent + Cardinality(Unsettled(m)) * PriceOf[m]
  /\ \A id \in DOMAIN tables.credit :
       LET e == tables.credit[id]
           In(name, condition) == Owed(tables.book, name, id) = IF condition THEN e.available ELSE 0
       IN /\ In(Unallocated, e.disposition = "pending")
          /\ In(Credit, e.disposition = "inference_credit")
          /\ In(TokenPending, e.status = "TOKEN_PURCHASE_PENDING")
          /\ Owed(tables.book, BurnPending, id) = IF tables.burn[id] = "CREATED" THEN Share(id).burn ELSE 0
  /\ \A rid \in DOMAIN tables.reserved :
       Owed(tables.book, Reserved, rid)
         = IF tables.reserved[rid].status = "RESERVED" THEN tables.reserved[rid].amount ELSE 0

\* However authorizations, funding, expiry and standing policies interleave, a mandate
\* sells no more units than it asked for and no more than was paid in, and a trace sold
\* exclusively is sold once (finalizeCandidate).
SalesStayWithinTerms ==
  /\ \A m \in case.mandates :
       LET row == tables.mandates[m] IN
       /\ row.units = Cardinality(LicensesOf(m)) /\ row.units <= UnitsOf[m]
       /\ row.spent = row.units * PriceOf[m] /\ row.spent <= row.funded /\ row.funded <= BudgetOf[m]
  /\ \A id, other \in DOMAIN tables.licenses :
       TraceOf(id) = TraceOf(other) /\ MandateOf(id) \in Exclusive => id = other

\* Both: what was sold, what was paid, and what the ledger owes for it agree.
SalesMatchTheLedger == LedgerMatchesTables /\ SalesStayWithinTerms

\* A release that was sold can be fetched until its license expires, whatever happens to
\* the trace, the mandate and the policy it came from and whichever jobs fail half way.
LicensedReleasesAreKept ==
  \A id \in DOMAIN tables.licenses \ past.licenses : Release(id) \in vault

\* No match is forgotten: while sales are open, a trace that could be offered to an
\* active mandate has a candidate under its owner's current policy, or a matching job is
\* queued, or the job was given up (enqueueMatching and its callers).
MatchesAreQueued ==
  \A m \in case.mandates, t \in Range(tables.traces) :
    LET existing == Existing(tables, m, t)
        waiting == \A id \in existing : tables.candidates[id].status = "USER_AUTH_PENDING"
                                        /\ id[3] # tables.policies[OwnerOf[t]].version
    IN "sales" \notin tables.paused /\ Open(tables, m) /\ Alive(tables, t) /\ Allows(tables, m, t)
       /\ (m \in NeedsEvidence => EvidenceOf(tables, t)) /\ waiting
       => Queued(tables, "MatchMandate", m) \/ <<"MatchMandate", m>> \in tables.failed

\* The licenses of a behaviour are bounded, and in the end all of them are settled, except
\* those whose job failed MAX_ATTEMPTS times (runWorker retries it).
LicensesAreSettled ==
  <>[](\A id \in DOMAIN tables.licenses \ DOMAIN tables.credit : <<"SettleLicense", id>> \in tables.failed)

\* In the end the private objects and the unsold releases of every trace that was deleted
\* or swept are gone and none comes back, unless the job failed MAX_ATTEMPTS times.
\* Releases sealed by rolled-back transactions are not among them: no row names them.
DeletedTracesLeaveNoCopies ==
  <>[](\A t \in tables.deleted :
         \/ Source(t) \notin vault /\ \A id \in Unsold(tables, t) : Release(id) \notin vault
         \/ <<"DeleteTraceObjects", t>> \in tables.failed)

\* The worker ends what sales and deletions leave to it, through rolled-back transactions,
\* failing stores and retries.
QueuedWorkIsDone == LicensesAreSettled /\ DeletedTracesLeaveNoCopies
=============================================================================
