----------------------------- MODULE SaleWorker -----------------------------
(***************************************************************************)
(* The sale worker of packages/market/src/thot-market.ts: processSales and   *)
(* what it shares with prepareOffer and queueSamples.  A process runs one    *)
(* cycle at a time; several processes share the database and the operator's  *)
(* account.  A step of a worker is one database transaction, one read of     *)
(* the confirmed chain or one operator transaction, because buyers, other    *)
(* workers and the chain move in between: a worker keeps a whole copy of a    *)
(* job's document across its steps and writes the whole copy back.           *)
(*                                                                         *)
(* The chain is what the worker reads of it: the state of each offer,        *)
(* whether the deadline of that state has passed, and who has money to       *)
(* claim.  A block is known by its era: 0 before the fork, 1 on the branch   *)
(* one deep reorganization drops, 2 on the branch that replaces it.  A buyer  *)
(* may also make the offer of an ordinary intent by createOffer, which needs  *)
(* no authorization: the seller then accepts it or it expires.  The           *)
(* two content claims of a sale (source and release) move together and are    *)
(* one row here; a listing's authorization is good for one sale.             *)
(***************************************************************************)
EXTENDS Naturals, FiniteSets, Sequences

CONSTANTS
  Workers,      \* processes that run processSales
  Sales,        \* the ids of intents, a set of numbers: jobs are sorted by id
  Listings,     \* listings with a signed authorization
  ContentOf,    \* the content a listing sells
  SellerOf,     \* the account of a listing's seller
  Scenarios,    \* bound: who may act, see below
  PAGE,         \* how many open jobs a cycle takes (50)
  DONE_PAGE     \* how many complete jobs a cycle checks again (10)

ASSUME SaleWorkerAssumption ==
  /\ Sales \subseteq Nat \ {0} /\ IsFiniteSet(Sales)
  /\ PAGE \in Nat \ {0} /\ DONE_PAGE \in Nat \ {0}

\* A scenario bounds a behaviour: the processes that run, the intents that may be
\* prepared, those whose buyer may pay with the listing's authorization and those whose
\* buyer may offer without it, the listings that may be revoked, and whether a deep reorganization, failures and crashes may happen.
Deal == [sale : Sales, kind : {"auto", "manual", "ordinary"}, listing : Listings]
Scenario == [workers : SUBSET Workers, deals : SUBSET Deal, payers : SUBSET Sales, direct : SUBSET Sales,
             revocable : SUBSET Listings, reorg : BOOLEAN, faults : BOOLEAN]
ASSUME ScenarioAssumption == Scenarios \subseteq Scenario

VARIABLES
  scenario, \* chosen at the start and never changed
  sale,     \* what an intent is for: its listing and who funds it
  jobs,     \* the document of an intent, as far as the worker writes it
  claims,   \* sampling-content: which reserve sale holds a content
  cursor,   \* automation:sales-cursor and automation:completed-sales-cursor
  chain,    \* the confirmed state of the market contract
  fork,     \* that state at the last block both branches share
  era,      \* which branch is canonical
  journal,  \* the operator's transactions, by nonce
  at        \* where a worker is, and what it has read

vars == <<scenario, sale, jobs, claims, cursor, chain, fork, era, journal, at>>

(***************************************************************************)
(* The market contract, as the worker sees it.                             *)
(***************************************************************************)
Kinds == {"auto", "manual", "ordinary"}   \* funded by the operator or by a buyer for the reserve, or bought
Contents == {ContentOf[l] : l \in Listings}
NoSale == [kind |-> "none"]
Sale == [kind : Kinds, listing : Listings]
Exists(s) == sale[s] # NoSale
Treasury(s) == Exists(s) /\ sale[s].kind # "ordinary"

\* A delivered offer that a dispute upheld cannot be disputed again.
Statuses == {"none", "offered", "accepted", "delivered", "disputed", "upheld", "finalized", "refunded"}
Delivered == {"delivered", "upheld"}
Accounts == {SellerOf[l] : l \in Listings} \cup {"reserve", "buyer"}
Chain == [status : [Sales -> Statuses], due : SUBSET Sales, direct : SUBSET Sales, revoked : SUBSET Listings,
          owed : SUBSET Accounts]

Seller(s) == SellerOf[sale[s].listing]
Buyer(s) == IF Treasury(s) THEN "reserve" ELSE "buyer"
\* An offer made without the authorization (chain.direct) leaves it as it is.
Used(l) == \E s \in Sales \ chain.direct : Exists(s) /\ sale[s].listing = l /\ chain.status[s] # "none"
Usable(l) == ~Used(l) /\ l \notin chain.revoked

\* What one transaction does: the offer's new state, and whose money it frees.
Becomes(s, status, owed) ==
  [chain EXCEPT !.status[s] = status, !.due = @ \ {s}, !.owed = @ \cup owed]

Names == {"purchase", "deliver", "expire", "refund", "uphold", "finalize", "payBuyer", "paySeller"}
Op == [name : Names, sale : Sales]
Executable(op) ==
  LET s == op.sale
  IN CASE op.name = "purchase" -> chain.status[s] = "none" /\ Usable(sale[s].listing)
       [] op.name = "deliver" -> chain.status[s] = "accepted" /\ s \notin chain.due
       [] op.name = "expire" -> chain.status[s] = "offered" /\ s \in chain.due
       [] op.name = "refund" -> chain.status[s] = "accepted" /\ s \in chain.due
       [] op.name = "uphold" -> chain.status[s] = "disputed" /\ s \in chain.due
       [] op.name = "finalize" -> chain.status[s] \in Delivered /\ s \in chain.due
       [] op.name = "payBuyer" -> Buyer(s) \in chain.owed
       [] op.name = "paySeller" -> Seller(s) \in chain.owed
After(op) ==
  LET s == op.sale
  IN CASE op.name = "purchase" -> Becomes(s, "accepted", {})
       [] op.name = "deliver" -> Becomes(s, "delivered", {})
       [] op.name \in {"expire", "refund"} -> Becomes(s, "refunded", {Buyer(s)})
       [] op.name = "uphold" -> Becomes(s, "upheld", {})
       [] op.name = "finalize" -> Becomes(s, "finalized", {Seller(s)})
       [] op.name = "payBuyer" -> [chain EXCEPT !.owed = @ \ {Buyer(s)}]
       [] op.name = "paySeller" -> [chain EXCEPT !.owed = @ \ {Seller(s)}]

OnChain == UNCHANGED <<scenario, sale, jobs, claims, cursor, fork, era, journal, at>>

\* createReviewedAuthorizedOffer or purchaseAuthorized, from the buyer's own wallet.
Fund(s) ==
  /\ Exists(s) /\ sale[s].kind # "auto" /\ s \in scenario.payers
  /\ Executable([name |-> "purchase", sale |-> s])
  /\ chain' = After([name |-> "purchase", sale |-> s])
  /\ OnChain

\* createOffer, which locks the money until the seller agrees or a day has passed.
CreateOffer(s) ==
  /\ Exists(s) /\ sale[s].kind = "ordinary" /\ s \in scenario.direct
  /\ chain.status[s] = "none"
  /\ chain' = [chain EXCEPT !.status[s] = "offered", !.direct = @ \cup {s}]
  /\ OnChain

AcceptOffer(s) ==
  /\ chain.status[s] = "offered" /\ s \notin chain.due
  /\ chain' = Becomes(s, "accepted", {})
  /\ OnChain

CancelOffer(s) ==
  /\ chain.status[s] = "offered"
  /\ chain' = Becomes(s, "refunded", {Buyer(s)})
  /\ OnChain

\* The seller revokes the authorization, or it expires; one that is used is gone already.
Revoke(l) ==
  /\ l \in scenario.revocable
  /\ Usable(l)
  /\ chain' = [chain EXCEPT !.revoked = @ \cup {l}]
  /\ OnChain

\* The deadline of an offer's state passes.
PassDeadline(s) ==
  /\ chain.status[s] \in Delivered \cup {"offered", "accepted", "disputed"}
  /\ s \notin chain.due
  /\ chain' = [chain EXCEPT !.due = @ \cup {s}]
  /\ OnChain

Dispute(s) ==
  /\ chain.status[s] = "delivered" /\ s \notin chain.due
  /\ ~Treasury(s)
  /\ chain' = Becomes(s, "disputed", {})
  /\ OnChain

Vote(s) ==
  /\ chain.status[s] = "disputed" /\ s \notin chain.due
  /\ \/ chain' = Becomes(s, "upheld", {})
     \/ chain' = Becomes(s, "refunded", {Buyer(s)})
  /\ OnChain

\* Settlement and claims are open to everybody.
ByHand(op) ==
  /\ Exists(op.sale)
  /\ op.name \notin {"purchase", "deliver"}
  /\ Executable(op)
  /\ chain' = After(op)
  /\ OnChain

Fork ==
  /\ scenario.reorg /\ era = 0
  /\ era' = 1 /\ fork' = chain
  /\ UNCHANGED <<scenario, sale, jobs, claims, cursor, chain, journal, at>>

Reorganize ==
  /\ era = 1 /\ chain # fork
  /\ era' = 2 /\ chain' = fork
  /\ UNCHANGED <<scenario, sale, jobs, claims, cursor, fork, journal, at>>

IsCanonicalBlock(block) == block = era \/ block = 0 \/ (block = 1 /\ era = 1)

(***************************************************************************)
(* Preparing a sale.                                                        *)
(***************************************************************************)
NoBlock == 3
JobStatuses == {"new", "queued", "awaiting_funding", "blocked", "awaiting_settlement",
                "awaiting_reconciliation", "disputed", "complete"}
Doc == [status : JobStatuses, block : 0 .. NoBlock, closed : BOOLEAN]
NewJob(kind) ==
  [status |-> IF kind = "auto" THEN "queued" ELSE "new", block |-> NoBlock, closed |-> FALSE]

NoClaim == [status |-> "none"]
ContentClaim == [sale : Sales, status : {"queued", "committed", "released"}]
Free(c) == claims[c].status \in {"none", "released"}

Prepare_Unclaimed(s, kind, l) ==
  /\ ~Exists(s)
  /\ \A t \in Sales : t < s => Exists(t)
  /\ Usable(l)
  /\ sale' = [sale EXCEPT ![s] = [kind |-> kind, listing |-> l]]
  /\ jobs' = [jobs EXCEPT ![s] = NewJob(kind)]
  /\ claims' = IF kind = "ordinary" THEN claims
               ELSE [claims EXCEPT ![ContentOf[l]] = [sale |-> s, status |-> "queued"]]
  /\ UNCHANGED <<scenario, cursor, chain, fork, era, journal, at>>

\* prepareOffer, or queueSamples for a sale the operator funds.
Prepare(s, kind, l) ==
  /\ ~Exists(s)
  /\ \A t \in Sales : t < s => Exists(t)          \* ids are used in order, to save states
  /\ Usable(l)
  /\ kind # "ordinary" => Free(ContentOf[l])
  /\ sale' = [sale EXCEPT ![s] = [kind |-> kind, listing |-> l]]
  /\ jobs' = [jobs EXCEPT ![s] = NewJob(kind)]
  /\ claims' = IF kind = "ordinary" THEN claims
               ELSE [claims EXCEPT ![ContentOf[l]] = [sale |-> s, status |-> "queued"]]
  /\ UNCHANGED <<scenario, cursor, chain, fork, era, journal, at>>

(***************************************************************************)
(* The operator's transactions.  OperatorJournal shows how one is sent at    *)
(* most once; here a row is only its operation, its result and its block.    *)
(***************************************************************************)
Row == [op : Op, result : {"pending", "done", "reverted"}, block : 0 .. NoBlock]
RowsOf(op) == {r \in DOMAIN journal : journal[r].op = op}
Unsettled == {r \in DOMAIN journal : journal[r].result = "pending" \/ ~IsCanonicalBlock(journal[r].block)}
First(rows) == CHOOSE r \in rows : \A q \in rows : r <= q

\* settleJournal: the transaction is mined, and succeeds if it still can.
SettleRow(r) ==
  LET ok == Executable(journal[r].op)
  IN /\ journal' = [journal EXCEPT ![r].result = IF ok THEN "done" ELSE "reverted", ![r].block = era]
     /\ chain' = IF ok THEN After(journal[r].op) ELSE chain

(***************************************************************************)
(* A worker.                                                               *)
(***************************************************************************)
Job == [sale : Sales, doc : Doc]
Offer == [status : Statuses, due : BOOLEAN]
NoOp == [name |-> "none"]
Pcs == {"idle", "complete", "offer", "authorization", "recheck", "close", "claim", "bought",
        "wait", "funded", "refunding", "refunded", "finalizing", "finalized", "call", "reread", "sold",
        "save", "assess", "error", "failed", "down"}
Place == [pc : Pcs, todo : Seq(Job), offer : Offer, block : 0 .. NoBlock, void : {"no", "used", "revoked"},
          op : Op \cup {NoOp}, next : Pcs, stage : 1 .. 4]

Idle == [pc |-> "idle", todo |-> <<>>, offer |-> [status |-> "none", due |-> FALSE], block |-> NoBlock,
         void |-> "no", op |-> NoOp, next |-> "idle", stage |-> 1]

Read(s) == [status |-> chain.status[s], due |-> s \in chain.due]
This(w) == Head(at[w].todo).sale
TheDoc(w) == Head(at[w].todo).doc
WithDoc(p, doc) == [p EXCEPT !.todo = <<[Head(@) EXCEPT !.doc = doc]>> \o Tail(@)]
Go(p, pc) == [Idle EXCEPT !.pc = pc, !.todo = p.todo]   \* and forget what was read
Saw(p, pc, o) == [Go(p, pc) EXCEPT !.offer = o, !.block = era]
Call(p, op, next, stage) == [Go(p, "call") EXCEPT !.op = op, !.next = next, !.stage = stage]
Becoming(w, p) == at' = [at EXCEPT ![w] = p]

\* What the next job starts from: nothing is kept of the one before.
NextJob(p) ==
  LET todo == Tail(p.todo)
  IN IF todo = <<>> THEN Idle
     ELSE [Idle EXCEPT !.todo = todo, !.pc = IF Head(todo).doc.status = "complete" THEN "complete" ELSE "offer"]

Local == UNCHANGED <<scenario, sale, jobs, claims, cursor, chain, fork, era, journal>>
Writes == UNCHANGED <<scenario, sale, cursor, chain, fork, era, journal>>

\* reconcileOperatorTransactions: a cycle first settles what is not, in nonce order.
Reconcile(w) ==
  /\ at[w].pc = "idle"
  /\ Unsettled # {}
  /\ SettleRow(First(Unsettled))
  /\ UNCHANGED <<scenario, sale, jobs, claims, cursor, fork, era, at>>

Sorted(ids) == CHOOSE q \in [1 .. Cardinality(ids) -> ids] : \A i, j \in DOMAIN q : i < j => q[i] < q[j]
Upto(q, n) == SubSeq(q, 1, IF Len(q) < n THEN Len(q) ELSE n)

Page_FromTheStart(ids, last, n) == Upto(Sorted(ids), n)

\* The rows after the cursor, then the ones before it.
Page(ids, last, n) == Upto(Sorted({i \in ids : i > last}) \o Sorted({i \in ids : i <= last}), n)

Complete == {s \in Sales : Exists(s) /\ jobs[s].status = "complete"}
Open == {s \in Sales : Exists(s)} \ Complete

Nothing == [sale |-> 0]   \* before the first job
Take(w, taken) ==
  /\ taken # <<>>
  /\ Becoming(w, NextJob([Idle EXCEPT !.todo = <<Nothing>> \o [i \in DOMAIN taken |-> [sale |-> taken[i], doc |-> jobs[taken[i]]]]]))
  /\ UNCHANGED <<scenario, sale, jobs, claims, chain, fork, era, journal>>

\* One transaction reads the jobs and moves both cursors.
Select(w) ==
  LET open == Page(Open, cursor.open, PAGE)
      done == Page(Complete, cursor.done, DONE_PAGE)
  IN /\ at[w].pc = "idle" /\ Unsettled = {}
     /\ cursor' = [open |-> IF open = <<>> THEN cursor.open ELSE open[Len(open)],
                   done |-> IF done = <<>> THEN cursor.done ELSE done[Len(done)]]
     /\ Take(w, open \o done)

\* A complete job is left alone while its block is canonical, and else opened again.
CheckComplete(w) ==
  LET doc == TheDoc(w)
  IN /\ at[w].pc = "complete"
     /\ Becoming(w, IF IsCanonicalBlock(doc.block) THEN NextJob(at[w])
                    ELSE Go(WithDoc(at[w], [status |-> "awaiting_reconciliation", block |-> NoBlock, closed |-> FALSE]), "offer"))
     /\ Local

\* Which step a read of the offer leads to, from the k-th of the four checks on.
Check(k, o) ==
  CASE k = 1 /\ (o.status = "refunded" \/ (o.status \in {"offered", "accepted"} /\ o.due)) -> "refunding"
    [] k <= 2 /\ o.status = "accepted" /\ ~(k = 1 /\ o.due) -> "deliver"
    [] k <= 3 /\ o.status = "disputed" /\ o.due -> "uphold"
    [] (o.status \in Delivered /\ o.due) \/ o.status = "finalized" -> "finalizing"
    [] OTHER -> "save"

Dispatch(p, k, o) ==
  LET s == Head(p.todo).sale
      step == Check(k, o)
  IN CASE step = "deliver" -> Call(p, [name |-> "deliver", sale |-> s], "reread", 3)
       [] step = "uphold" -> Call(p, [name |-> "uphold", sale |-> s], "reread", 4)
       [] step = "save" -> Saw(p, "save", o)
       [] OTHER -> Go(p, step)

ReadOffer(w) ==
  /\ at[w].pc = "offer"
  /\ LET o == Read(This(w))
     IN Becoming(w, IF o.status = "none" THEN Go(at[w], "authorization") ELSE Saw(at[w], "funded", o))
  /\ Local

ReadAuthorization(w) ==
  LET s == This(w)
      l == sale[s].listing
      fundable == sale[s].kind = "auto" /\ TheDoc(w).status # "blocked"
  IN /\ at[w].pc = "authorization"
     /\ Becoming(w, IF Usable(l) THEN Go(at[w], IF fundable THEN "claim" ELSE "wait")
                    ELSE [Go(at[w], "recheck") EXCEPT !.block = era,
                                       !.void = IF l \in chain.revoked THEN "revoked" ELSE "used"])
     /\ Local

Closing(w) ==
  [Go(WithDoc(at[w], [status |-> "complete", block |-> at[w].block, closed |-> TRUE]), "close") EXCEPT !.void = at[w].void]

Recheck_Trusting(w) ==
  /\ at[w].pc = "recheck"
  /\ Becoming(w, Closing(w))
  /\ Local

\* Another worker or buyer may have funded between the two reads.
Recheck(w) ==
  /\ at[w].pc = "recheck"
  /\ LET o == Read(This(w))
     IN Becoming(w, IF o.status = "none" THEN Closing(w) ELSE Saw(at[w], "funded", o))
  /\ Local

\* The job and its claim are closed in one transaction.
Close(w) ==
  LET s == This(w)
      c == ContentOf[sale[s].listing]
      mine == Treasury(s) /\ claims[c] = [sale |-> s, status |-> "queued"]
  IN /\ at[w].pc = "close"
     /\ jobs' = [jobs EXCEPT ![s] = TheDoc(w)]
     /\ claims' = IF mine THEN [claims EXCEPT ![c].status = IF at[w].void = "revoked" THEN "released" ELSE "committed"]
                  ELSE claims
     /\ Becoming(w, NextJob(at[w]))
     /\ Writes

\* The transaction before a reserve purchase; the listing may be withdrawn by now.
ClaimContent(w) ==
  LET s == This(w)
      c == ContentOf[sale[s].listing]
      mine == claims[c].status = "none" \/ claims[c] = [sale |-> s, status |-> "queued"]
  IN /\ at[w].pc = "claim"
     /\ \/ /\ mine /\ Usable(sale[s].listing)
           /\ claims' = [claims EXCEPT ![c] = [sale |-> s, status |-> "queued"]]
           /\ Becoming(w, Call(at[w], [name |-> "purchase", sale |-> s], "bought", 1))
        \/ Becoming(w, Go(at[w], "assess")) /\ UNCHANGED claims
     /\ UNCHANGED jobs
     /\ Writes

ReadBought(w) ==
  /\ at[w].pc = "bought"
  /\ LET o == Read(This(w))
     IN Becoming(w, IF o.status = "none" THEN Go(at[w], "wait") ELSE Saw(at[w], "funded", o))
  /\ Local

\* Nobody has paid yet.
Wait(w) ==
  LET s == This(w)
      status == IF TheDoc(w).status = "blocked" THEN "blocked"
                ELSE IF sale[s].kind = "auto" THEN "queued" ELSE "awaiting_funding"
  IN /\ at[w].pc = "wait"
     /\ jobs' = [jobs EXCEPT ![s] = [TheDoc(w) EXCEPT !.status = status]]
     /\ Becoming(w, NextJob(at[w]))
     /\ UNCHANGED claims
     /\ Writes

\* reserveContent: a funded content is committed whoever held it.
Funded(w) ==
  LET s == This(w)
  IN /\ at[w].pc = "funded"
     /\ claims' = IF Treasury(s)
                  THEN [claims EXCEPT ![ContentOf[sale[s].listing]] = [sale |-> s, status |-> "committed"]]
                  ELSE claims
     /\ Becoming(w, Dispatch(at[w], 1, at[w].offer))
     /\ UNCHANGED jobs
     /\ Writes

\* refundOverdueAndPay and finalizeAndPay read the offer again at each step.
Refunding(w) ==
  LET s == This(w)
      o == Read(s)
  IN /\ at[w].pc = "refunding"
     /\ Becoming(w, IF o.status \in {"offered", "accepted"} /\ o.due
                    THEN Call(at[w], [name |-> IF o.status = "offered" THEN "expire" ELSE "refund", sale |-> s], "refunded", 2)
                    ELSE Go(at[w], "refunded"))
     /\ Local

Finalizing(w) ==
  LET s == This(w)
      o == Read(s)
  IN /\ at[w].pc = "finalizing"
     /\ Becoming(w, IF o.status \in Delivered /\ o.due
                    THEN Call(at[w], [name |-> "finalize", sale |-> s], "finalized", 4)
                    ELSE Go(at[w], "finalized"))
     /\ Local

\* The money is claimed for its owner, once for each sale, if any is left.
PayOut(w, status, account, op, next) ==
  LET again == \E r \in RowsOf(op) : journal[r].result # "reverted"
  IN /\ Becoming(w, IF chain.status[This(w)] # status THEN Go(at[w], "error")
                    ELSE IF account \in chain.owed \/ again THEN Call(at[w], op, next, 2)
                    ELSE [Go(at[w], next) EXCEPT !.stage = 2])
     /\ Local

PayRefund(w) ==
  /\ at[w].pc = "refunded"
  /\ PayOut(w, "refunded", Buyer(This(w)), [name |-> "payBuyer", sale |-> This(w)], "reread")
PaySeller(w) ==
  /\ at[w].pc = "finalized"
  /\ PayOut(w, "finalized", Seller(This(w)), [name |-> "paySeller", sale |-> This(w)], "sold")

\* operatorTransaction: settle what is open, never sign an operation twice, and
\* sign only what the node estimates to succeed.
Transact(w) ==
  LET op == at[w].op
      rows == RowsOf(op)
      settled == \E r \in rows : journal[r].result = "done"
  IN /\ at[w].pc = "call"
     /\ IF Unsettled # {}
        THEN LET r == First(Unsettled)
                 mine == journal[r].op = op
             IN /\ SettleRow(r)
                /\ Becoming(w, IF Executable(journal[r].op) \/ ~IsCanonicalBlock(journal[r].block)
                               THEN at[w] ELSE Go(at[w], "error"))
        ELSE IF rows # {}
        THEN /\ Becoming(w, IF settled THEN [Go(at[w], at[w].next) EXCEPT !.stage = at[w].stage] ELSE Go(at[w], "error"))
             /\ UNCHANGED <<journal, chain>>
        ELSE /\ journal' = IF Executable(op)
                           THEN Append(journal, [op |-> op, result |-> "pending", block |-> NoBlock]) ELSE journal
             /\ Becoming(w, IF Executable(op) THEN at[w] ELSE Go(at[w], "error"))
             /\ UNCHANGED chain
     /\ UNCHANGED <<scenario, sale, jobs, claims, cursor, fork, era>>

Reread(w) ==
  /\ at[w].pc = "reread"
  /\ Becoming(w, Dispatch(at[w], at[w].stage, Read(This(w))))
  /\ Local

\* After finalizeAndPay the offer is read again, and the job is complete
\* whatever that read says.
Sold(w) ==
  /\ at[w].pc = "sold"
  /\ Becoming(w, Saw(WithDoc(at[w], [TheDoc(w) EXCEPT !.status = "complete"]), "save", Read(This(w))))
  /\ Local

Save(w) ==
  LET doc == TheDoc(w)
      status == CASE doc.status = "complete" -> "complete"
                  [] at[w].offer.status = "refunded" -> "complete"
                  [] at[w].offer.status = "disputed" -> "disputed"
                  [] OTHER -> "awaiting_settlement"
  IN /\ at[w].pc = "save"
     /\ jobs' = [jobs EXCEPT ![This(w)] =
                   [doc EXCEPT !.status = status, !.block = IF status = "complete" THEN at[w].block ELSE @]]
     /\ Becoming(w, NextJob(at[w]))
     /\ UNCHANGED claims
     /\ Writes

\* A sample that may not be bought any more blocks the job, unless it is funded.
Assess(w) ==
  /\ at[w].pc = "assess"
  /\ \E status \in {IF chain.status[This(w)] = "none" THEN "blocked" ELSE "awaiting_settlement",
                    "awaiting_reconciliation"} :
       Becoming(w, Go(WithDoc(at[w], [TheDoc(w) EXCEPT !.status = status]), "error"))
  /\ Local

\* The error path writes the copy as it is by now.
RecordError(w) ==
  /\ at[w].pc \in {"error", "failed"}
  /\ jobs' = [jobs EXCEPT ![This(w)] = TheDoc(w)]
  /\ Becoming(w, NextJob(at[w]))
  /\ UNCHANGED claims
  /\ Writes

\* A read or a transaction of this job fails.
Fail(w) ==
  /\ scenario.faults
  /\ at[w].pc \notin {"idle", "error", "failed", "down"}
  /\ Becoming(w, Go(at[w], "failed"))
  /\ Local

\* The process dies, or the cycle ends with an error of its own.
ProcessDies(w) ==
  /\ scenario.faults
  /\ at[w].pc \notin {"idle", "down"}
  /\ Becoming(w, [Idle EXCEPT !.pc = "down"])
  /\ Local

Restart(w) ==
  /\ at[w].pc = "down"
  /\ Becoming(w, Idle)
  /\ Local

Init ==
  /\ scenario \in Scenarios
  /\ sale = [s \in Sales |-> NoSale]
  /\ jobs = [s \in Sales |-> NewJob("ordinary")]
  /\ claims = [c \in Contents |-> NoClaim]
  /\ cursor = [open |-> 0, done |-> 0]
  /\ chain = [status |-> [s \in Sales |-> "none"], due |-> {}, direct |-> {}, revoked |-> {}, owed |-> {}]
  /\ fork = chain /\ era = 0
  /\ journal = <<>>
  /\ at = [w \in Workers |-> Idle]

Cycle(w) == Reconcile(w) \/ Select(w) \/ CheckComplete(w)
Unfunded(w) ==
  \/ ReadOffer(w) \/ ReadAuthorization(w) \/ Recheck(w) \/ Close(w)
  \/ ClaimContent(w) \/ ReadBought(w) \/ Wait(w)
Settlement(w) ==
  \/ Funded(w) \/ Refunding(w) \/ Finalizing(w) \/ PayRefund(w) \/ PaySeller(w)
  \/ Transact(w) \/ Reread(w) \/ Sold(w) \/ Save(w) \/ Assess(w) \/ RecordError(w)
Step(w) == Cycle(w) \/ Unfunded(w) \/ Settlement(w) \/ Restart(w)

Users ==
  \/ \E d \in scenario.deals : Prepare(d.sale, d.kind, d.listing)
  \/ \E s \in Sales : Fund(s) \/ CreateOffer(s) \/ AcceptOffer(s) \/ CancelOffer(s)
  \/ \E s \in Sales : PassDeadline(s) \/ Dispute(s) \/ Vote(s)
  \/ \E l \in Listings : Revoke(l)
  \/ \E op \in Op : ByHand(op)

Next == Users \/ Fork \/ Reorganize \/ (\E w \in scenario.workers : Step(w) \/ Fail(w) \/ ProcessDies(w))

Spec == Init /\ [][Next]_vars

(***************************************************************************)
(* Fairness: the loop of apps/worker/main.ts starts a cycle again and again, *)
(* a process takes its next step, failures and crashes end at some point,    *)
(* and time passes.                                                         *)
(***************************************************************************)
Fairness ==
  /\ \A w \in Workers :
       /\ WF_vars(w \in scenario.workers /\ Step(w))
       /\ <>[][~ProcessDies(w) /\ ~Fail(w)]_vars
  /\ \A s \in Sales : WF_vars(PassDeadline(s))

FairSpec == Spec /\ Fairness

(***************************************************************************)
(* Properties.                                                             *)
(***************************************************************************)
Reorganized == era = 2
\* Settled, or closed because its authorization was gone before anybody had paid; its
\* buyer may still make an offer without one, which no cycle looks at any more.
Over(s, doc) ==
  \/ chain.status[s] \in {"finalized", "refunded"}
  \/ doc.closed /\ ~Usable(sale[s].listing) /\ (chain.status[s] = "none" \/ s \in chain.direct)

\* At most one reserve purchase per content is ever funded, and the claim that
\* keeps it so stays with the funded sale: no worker closes a job, and frees its
\* content for another sale, while a buyer or another worker funds it
\* (processSalesCycle, contentReservations).
FundedContentIsHeld ==
  ~Reorganized =>
    \A s \in Sales : Treasury(s) /\ chain.status[s] # "none" =>
      claims[ContentOf[sale[s].listing]] \in [sale : {s}, status : {"queued", "committed"}]

\* A job is complete only when nothing is left to do for its sale on the chain,
\* also when a worker writes back a document it read before another worker's
\* write (the last update of processSalesCycle).
CompleteJobsAreOver ==
  ~Reorganized => \A s \in Sales : Exists(s) /\ jobs[s].status = "complete" => Over(s, jobs[s])

\* A sale whose funding was dropped or whose completion was reorganized away is
\* worked on again: a complete job never keeps an anchor that is not canonical.
Suppressed(s) == jobs[s].status = "complete" /\ ~IsCanonicalBlock(jobs[s].block)
DroppedCompletionsReopen == \A s \in Sales : Suppressed(s) ~> ~Suppressed(s)

OfferedLate(s) == s \in chain.direct /\ jobs[s].closed

\* Every funded sale is settled, its money is paid out and its job ends, although
\* other jobs wait for buyers who never pay, and whatever crashes, fails, is
\* settled by hand first or is written twice by two workers.  A dispute may end in
\* a refund between two reads of one cycle, and then only the job is over: the
\* worker has passed its refund step, and the buyer claims the money by hand.
\* What a reorganization takes back is worked on again; what is offered without an
\* authorization after the job was closed is not.
FundedSalesArePaidOut ==
  /\ DroppedCompletionsReopen
  /\ \A s \in Sales :
       /\ chain.status[s] \in {"offered", "accepted"} \cup Delivered ~>
            \/ /\ chain.status[s] \in {"finalized", "refunded"}
               /\ {Seller(s), Buyer(s)} \cap chain.owed = {}
               /\ jobs[s].status = "complete"
            \/ chain.status[s] = "disputed" \/ Reorganized \/ OfferedLate(s)
       /\ chain.status[s] = "disputed" ~>
            \/ chain.status[s] \in {"finalized", "refunded"} /\ jobs[s].status = "complete"
            \/ Reorganized \/ OfferedLate(s)
=============================================================================
