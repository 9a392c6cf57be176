-------------------------- MODULE InferenceGateway --------------------------
(***************************************************************************)
(* InferenceGateway and InferenceReconciliation of packages/market: a        *)
(* contributor spends sale credit on calls to an outside provider.  A step   *)
(* is one transaction, or one step of the process that executes a request    *)
(* between its transactions; that process may crash at any of them.  What    *)
(* the provider charged is known to the service only through the answer, or  *)
(* through signed evidence two operators pass after the request is            *)
(* UNCERTAIN.  One owner, one entitlement, one provider and one rate card.   *)
(***************************************************************************)
EXTENDS Ledger, Sequences, FiniteSets

CONSTANTS
  Requests,     \* bound: the requests of a behaviour
  Failing,      \* bound: those whose process or database may fail
  Lapsing,      \* bound: those whose times come while they are of interest
  Costs,        \* what a call may cost
  CREDIT,       \* the entitlement's credit
  RESERVATION,  \* maximumReservation of the rate card
  DAILY_BUDGET, \* what the operator allows to be reserved in a day
  ACTIVE_LIMIT, \* requests of an owner that may be queued or processed (2)
  Submitters, Reviewers, \* operators who may submit evidence and review it
  Invoices,     \* bound: invoices the provider writes
  MAX_EVIDENCE  \* bound: evidence records

ASSUME InferenceGatewayAssumption ==
  Costs \subseteq 1..RESERVATION /\ {CREDIT, RESERVATION, DAILY_BUDGET} \subseteq Nat /\ IsFiniteSet(Requests)

VARIABLES
  requests,  \* the rows: status, what was metered, which texts they refer to
  available, \* the entitlement's available_minor
  accounts,  \* the book of the ledger
  running,   \* where the process is that executes a request
  calls,     \* what the provider did with a request: charge is 0 until it charges
  texts,     \* the sealed prompts and outputs that exist
  cleaning,  \* texts whose writer saw its transaction fail
  lapsed,    \* times that have come
  asked,     \* requests whose owner asked for the deletion of their contents
  evidence   \* the evidence records and their reviews
gatewayVars == <<requests, available, accounts, running, calls, texts, cleaning, lapsed, asked, evidence>>

Payable == <<"LIABILITY:inference_provider_payable", "network">>
Invoiced == <<"LIABILITY:inference_verified_invoice_payable", "network">>
NoRequest == [status |-> "none", actual |-> 0, refers |-> {}]
Prompt(r) == <<"prompt", r>>
Output(r) == <<"output", r>>
Is(r, statuses) == requests[r].status \in statuses
Active == {r \in Requests : Is(r, {"QUEUED", "PROCESSING"})}
Uncertain == {r \in Requests : Is(r, {"UNCERTAIN"})}
Made == {r \in Requests : ~Is(r, {"none"})}

GatewayInit ==
  /\ requests = [r \in Requests |-> NoRequest]
  /\ available = CREDIT
  /\ accounts = postJournal(NoBook, <<"choose", "e">>, Move(<<"LIABILITY:contributor_unallocated", "e">>, Into(<<Credit, "e">>, CREDIT)))
  /\ running = [r \in Requests |-> "no"]
  /\ calls = [r \in Requests |-> [sent |-> 0, open |-> FALSE, charge |-> 0]]
  /\ texts = {} /\ cleaning = {} /\ asked = {}
  /\ lapsed = [queue |-> {}, deadline |-> {}, retention |-> {}]
  /\ evidence = <<>>

\* settleInferenceIn, for a request whose reservation is held.
Settle(r, actual) ==
  /\ accounts' = usageJournal(accounts, r, "e", RESERVATION, actual, Payable)
  /\ available' = available + RESERVATION - actual
Update(r, status) == requests' = [requests EXCEPT ![r].status = status]
Resolve(r, status, actual) ==
  Settle(r, actual) /\ requests' = [requests EXCEPT ![r] = [@ EXCEPT !.status = status, !.actual = actual]]

(***************************************************************************)
(* create.  The prompt is sealed inside the transaction; the caller removes  *)
(* it when the transaction seems to have failed.                            *)
(***************************************************************************)
MayCreate(r) ==
  /\ Is(r, {"none"}) /\ <<"prompt", r>> \notin texts \cup cleaning
  /\ Uncertain = {}
  /\ Cardinality(Active) < ACTIVE_LIMIT
  /\ (Cardinality(Made) + 1) * RESERVATION <= DAILY_BUDGET
  /\ RESERVATION <= available

Create(r) ==
  /\ MayCreate(r)
  /\ requests' = [requests EXCEPT ![r] = [NoRequest EXCEPT !.status = "QUEUED", !.refers = {Prompt(r)}]]
  /\ available' = available - RESERVATION
  /\ accounts' = reserveJournal(accounts, r, "e", RESERVATION)
  /\ texts' = texts \cup {Prompt(r)}
  /\ \/ UNCHANGED cleaning
     \/ r \in Failing /\ cleaning' = cleaning \cup {Prompt(r)}   \* committed, but the caller saw an error
  /\ UNCHANGED <<running, calls, lapsed, asked, evidence>>
CreateFails(r) ==
  /\ r \in Failing /\ MayCreate(r)
  /\ texts' = texts \cup {Prompt(r)} /\ cleaning' = cleaning \cup {Prompt(r)}
  /\ UNCHANGED <<requests, available, accounts, running, calls, lapsed, asked, evidence>>

CleanupUnreferenced_Always(text) ==
  /\ text \in cleaning
  /\ cleaning' = cleaning \ {text}
  /\ texts' = texts \ {text}
  /\ UNCHANGED <<requests, available, accounts, running, calls, lapsed, asked, evidence>>
\* cleanupUnreferenced looks whether the rows refer to the text after all.
CleanupUnreferenced(text) ==
  /\ text \in cleaning
  /\ cleaning' = cleaning \ {text}
  /\ texts' = IF \E r \in Requests : text \in requests[r].refers THEN texts ELSE texts \ {text}
  /\ UNCHANGED <<requests, available, accounts, running, calls, lapsed, asked, evidence>>

\* Or the caller ends before that, or cannot see the rows: the text stays.
CleanupIsLost(text) ==
  /\ text \in cleaning
  /\ cleaning' = cleaning \ {text}
  /\ UNCHANGED <<requests, available, accounts, running, calls, texts, lapsed, asked, evidence>>

(***************************************************************************)
(* execute: one transaction claims the request, then the prompt is opened    *)
(* and counted, then the call is made, then one transaction finishes.        *)
(***************************************************************************)
Claim(r) ==
  /\ Is(r, {"QUEUED"}) /\ r \notin lapsed.queue
  /\ Cardinality(Made) * RESERVATION <= DAILY_BUDGET
  /\ Uncertain = {}
  /\ Update(r, "PROCESSING")
  /\ running' = [running EXCEPT ![r] = "claimed"]
  /\ UNCHANGED <<available, accounts, calls, texts, cleaning, lapsed, asked, evidence>>

Moves(r, from, to) ==
  /\ running[r] = from
  /\ running' = [running EXCEPT ![r] = to]
  /\ UNCHANGED <<requests, available, accounts, texts, cleaning, lapsed, asked, evidence>>

\* Opening the prompt, counting it and checking the rate card.
Preflight(r) == Moves(r, "claimed", "submitting") /\ Prompt(r) \in texts /\ UNCHANGED calls
PreflightFails(r) == Moves(r, "claimed", "unsubmitted") /\ UNCHANGED calls
Generate(r) ==
  /\ Moves(r, "submitting", "waiting")
  /\ calls' = [calls EXCEPT ![r].sent = @ + 1, ![r].open = TRUE]
\* The provider charges for a call once, or not at all; the answer may be lost.
Charge(r, cost) ==
  /\ calls[r].open
  /\ calls' = [calls EXCEPT ![r] = [@ EXCEPT !.open = FALSE, !.charge = cost]]
  /\ running' = [running EXCEPT ![r] = IF @ = "waiting" THEN "answered" ELSE @]
  /\ UNCHANGED <<requests, available, accounts, texts, cleaning, lapsed, asked, evidence>>
Refuse(r) ==
  /\ calls[r].open
  /\ calls' = [calls EXCEPT ![r].open = FALSE]
  /\ running' = [running EXCEPT ![r] = IF @ = "waiting" THEN "submitted" ELSE @]
  /\ UNCHANGED <<requests, available, accounts, texts, cleaning, lapsed, asked, evidence>>
\* A timeout, or an answer the process cannot use.
AnswerIsLost(r) == (Moves(r, "waiting", "submitted") \/ Moves(r, "answered", "submitted")) /\ UNCHANGED calls

Finish(r) ==
  /\ running[r] = "answered" /\ Is(r, {"PROCESSING"})
  /\ running' = [running EXCEPT ![r] = "over"]
  /\ Settle(r, calls[r].charge)
  /\ requests' = [requests EXCEPT ![r] = [status |-> "COMPLETED", actual |-> calls[r].charge, refers |-> @.refers \cup {Output(r)}]]
  /\ texts' = texts \cup {Output(r)}
  /\ UNCHANGED <<calls, cleaning, lapsed, asked, evidence>>
\* The finishing transaction is rolled back, or commits and is not known to have:
\* the output is cleaned up first, and then the request is looked at again.
FinishFails(r) ==
  /\ r \in Failing /\ running[r] = "answered" /\ Is(r, {"PROCESSING"})
  /\ running' = [running EXCEPT ![r] = "submitted"]
  /\ texts' = texts \cup {Output(r)} /\ cleaning' = cleaning \cup {Output(r)}
  /\ \/ UNCHANGED <<requests, available, accounts>>
     \/ /\ Settle(r, calls[r].charge)
        /\ requests' = [requests EXCEPT ![r] = [status |-> "COMPLETED", actual |-> calls[r].charge, refers |-> @.refers \cup {Output(r)}]]
  /\ UNCHANGED <<calls, lapsed, asked, evidence>>
FinishConflicts(r) == ~Is(r, {"PROCESSING"}) /\ Moves(r, "answered", "submitted") /\ UNCHANGED calls

Catch_Refunds(r) ==
  /\ running[r] \in {"unsubmitted", "submitted"} /\ Output(r) \notin cleaning
  /\ running' = [running EXCEPT ![r] = "over"]
  /\ IF Is(r, {"PROCESSING"}) THEN Resolve(r, "FAILED", 0) ELSE UNCHANGED <<requests, available, accounts>>
  /\ UNCHANGED <<calls, texts, cleaning, lapsed, asked, evidence>>
\* The catch block: a request that was submitted keeps its credit held.
Catch(r) ==
  /\ running[r] \in {"unsubmitted", "submitted"} /\ Output(r) \notin cleaning
  /\ running' = [running EXCEPT ![r] = "over"]
  /\ IF ~Is(r, {"PROCESSING"}) THEN UNCHANGED <<requests, available, accounts>>
     ELSE IF running[r] = "submitted" THEN Update(r, "UNCERTAIN") /\ UNCHANGED <<available, accounts>>
     ELSE Resolve(r, "FAILED", 0)
  /\ UNCHANGED <<calls, texts, cleaning, lapsed, asked, evidence>>
\* The process ends where it is; what it was to clean up stays.
Crash(r) ==
  /\ r \in Failing /\ running[r] \notin {"no", "over"}
  /\ running' = [running EXCEPT ![r] = "over"]
  /\ cleaning' = cleaning \ {Output(r)}
  /\ UNCHANGED <<requests, available, accounts, calls, texts, lapsed, asked, evidence>>

(***************************************************************************)
(* cancel, deleteContent and sweep.                                        *)
(***************************************************************************)
Cancel(r) ==
  /\ Is(r, {"QUEUED"}) /\ Resolve(r, "CANCELLED", 0)
  /\ UNCHANGED <<running, calls, texts, cleaning, lapsed, asked, evidence>>
\* removeContent takes the texts of a row out of the vault, the prompt first, and then the row is
\* updated; when something fails after that the rows are rolled back, the texts are gone.
TakenOut(rows) ==
  {gone \in (SUBSET UNION {requests[r].refers : r \in rows}) \ {{}} : \A r \in rows : Output(r) \in gone => Prompt(r) \in gone}

MayDelete(r) == r \in Made \ Active /\ requests[r].refers # {}
DeleteContent(r) ==
  /\ MayDelete(r)
  /\ texts' = texts \ requests[r].refers
  /\ requests' = [requests EXCEPT ![r].refers = {}]
  /\ asked' = asked \cup {r}
  /\ UNCHANGED <<available, accounts, running, calls, cleaning, lapsed, evidence>>
DeleteFails(r) ==
  /\ r \in Failing /\ MayDelete(r)
  /\ \E gone \in TakenOut({r}) : texts' = texts \ gone
  /\ asked' = asked \cup {r}
  /\ UNCHANGED <<requests, available, accounts, running, calls, cleaning, lapsed, evidence>>

\* sweep goes over all rows in one transaction.
Swept_Queued(r) == IF Is(r, {"QUEUED"}) /\ r \in lapsed.queue THEN "CANCELLED" ELSE requests[r].status
Swept(r) ==
  CASE Is(r, {"PROCESSING"}) /\ r \in lapsed.deadline -> "UNCERTAIN"
    [] Is(r, {"QUEUED"}) /\ r \in lapsed.queue -> "CANCELLED"
    [] OTHER -> requests[r].status
Removed == {r \in Made \cap lapsed.retention : Swept(r) \notin {"QUEUED", "PROCESSING"}}
SweepRequests ==
  LET expired == {r \in Requests : Is(r, {"QUEUED"}) /\ Swept(r) = "CANCELLED"}
  IN /\ requests' = [r \in Requests |-> [requests[r] EXCEPT !.status = Swept(r),
                                                            !.refers = IF r \in Removed THEN {} ELSE @]]
     /\ available' = available + Cardinality(expired) * RESERVATION
     /\ accounts' = postJournals(accounts, [reference \in {<<"usage", r>> : r \in expired} |->
                                               usagePostings(reference[2], "e", RESERVATION, 0, Payable)])
     /\ texts' = texts \ UNION {requests[r].refers : r \in Removed}
     /\ UNCHANGED <<running, calls, cleaning, lapsed, asked, evidence>>

SweepFails ==
  /\ Removed \cap Failing # {}
  /\ \E gone \in TakenOut(Removed) : texts' = texts \ gone
  /\ UNCHANGED <<requests, available, accounts, running, calls, cleaning, lapsed, asked, evidence>>

LapseQueue(r) == Is(r, {"QUEUED"}) /\ lapsed' = [lapsed EXCEPT !.queue = @ \cup {r}]
LapseDeadline(r) == Is(r, {"PROCESSING"}) /\ lapsed' = [lapsed EXCEPT !.deadline = @ \cup {r}]
LapseRetention(r) == r \in Made /\ lapsed' = [lapsed EXCEPT !.retention = @ \cup {r}]
PassTime(r) ==
  /\ r \in Lapsing /\ (LapseQueue(r) \/ LapseDeadline(r) \/ LapseRetention(r))
  /\ UNCHANGED <<requests, available, accounts, running, calls, texts, cleaning, asked, evidence>>

(***************************************************************************)
(* Evidence: one operator submits what a trusted verifier signed, another    *)
(* reviews it.  A verifier signs what the provider charged for a request     *)
(* only when the provider can charge nothing more for it, which includes      *)
(* that no process is left that could still make the call.  An invoice may     *)
(* bill any requests, at what they cost.                                    *)
(***************************************************************************)
Held(r) == Is(r, {"UNCERTAIN"})
Final(r) == ~calls[r].open /\ running[r] \in {"no", "over", "submitted", "answered"}
Spent(r) == Is(r, {"COMPLETED", "FAILED"}) /\ requests[r].actual > 0

Evidence(kind, about, name, by) == [kind |-> kind, about |-> about, name |-> name, by |-> by, review |-> "none"]
\* checkCurrent: a charge is for a request that is held, an invoice line for one that is metered.
Current(e) == IF e.kind = "charge" THEN \A r \in e.about : Held(r) ELSE \A r \in e.about : Spent(r)
\* checkConflicts: evidence that was not rejected is not contradicted or repeated.
Conflicts_ByName(e, except) ==
  \E i \in DOMAIN evidence \ except :
    LET other == evidence[i]
    IN other.kind = e.kind /\ other.review # "REJECTED" /\ (IF e.kind = "invoice" THEN e.name = other.name ELSE e.about = other.about)
Conflicts(e, except) ==
  \E i \in DOMAIN evidence \ except :
    LET other == evidence[i]
    IN /\ other.kind = e.kind /\ other.review # "REJECTED"
       /\ (e.about \cap other.about # {} \/ (e.kind = "invoice" /\ e.name = other.name))

Submit(e) ==
  /\ Len(evidence) < MAX_EVIDENCE
  /\ e.by \in Submitters /\ e.about # {}
  /\ Current(e) /\ ~Conflicts(e, {})
  /\ evidence' = Append(evidence, e)
  /\ UNCHANGED <<requests, available, accounts, running, calls, texts, cleaning, lapsed, asked>>
SubmitCharge(r, by) == Final(r) /\ Submit(Evidence("charge", {r}, "none", by))
SubmitInvoice(invoice, about, by) == Submit(Evidence("invoice", about, invoice, by))

Total(about) == SumFunctionOnSet([r \in Requests |-> requests[r].actual], about)
Reviewable(i, by) == evidence[i].review = "none" /\ by \in Reviewers /\ by # evidence[i].by
Approve(i, by) ==
  LET e == evidence[i] IN
  /\ Reviewable(i, by) /\ Current(e) /\ ~Conflicts(e, {i})
  /\ IF e.kind = "charge"
     THEN LET r == CHOOSE r \in e.about : TRUE IN Resolve(r, "FAILED", calls[r].charge)
     ELSE /\ Total(e.about) <= 0 - accountBalance(accounts, Payable)
          /\ accounts' = postJournal(accounts, <<"invoice", e.name>>, Move(Payable, Into(Invoiced, Total(e.about))))
          /\ UNCHANGED <<requests, available>>
  /\ evidence' = [evidence EXCEPT ![i].review = "APPROVED"]
  /\ UNCHANGED <<running, calls, texts, cleaning, lapsed, asked>>
Reject(i, by) ==
  /\ Reviewable(i, by)
  /\ evidence' = [evidence EXCEPT ![i].review = "REJECTED"]
  /\ UNCHANGED <<requests, available, accounts, running, calls, texts, cleaning, lapsed, asked>>

Owner == \E r \in Requests : Create(r) \/ CreateFails(r) \/ Claim(r) \/ Cancel(r) \/ DeleteContent(r) \/ DeleteFails(r)
Process == \E r \in Requests :
  \/ Preflight(r) \/ PreflightFails(r) \/ Generate(r) \/ AnswerIsLost(r) \/ Finish(r) \/ FinishFails(r)
  \/ FinishConflicts(r) \/ Catch(r) \/ Crash(r)
Provider == \E r \in Requests : Refuse(r) \/ \E cost \in Costs : Charge(r, cost)
Clean == \E text \in cleaning : CleanupUnreferenced(text) \/ CleanupIsLost(text)
Operators ==
  \/ \E r \in Requests, by \in Submitters : SubmitCharge(r, by)
  \/ \E invoice \in Invoices, about \in SUBSET Requests, by \in Submitters : SubmitInvoice(invoice, about, by)
  \/ \E i \in DOMAIN evidence, by \in Reviewers : Approve(i, by) \/ Reject(i, by)

GatewayNext == Owner \/ Process \/ Provider \/ Clean \/ SweepRequests \/ SweepFails \/ Operators \/ \E r \in Requests : PassTime(r)

\* sweep is called again and again until it succeeds, and times come.
GatewayFairness ==
  /\ WF_gatewayVars(SweepRequests)
  /\ \A r \in Requests : WF_gatewayVars(PassTime(r))
GatewaySpec == GatewayInit /\ [][GatewayNext]_gatewayVars /\ GatewayFairness

(***************************************************************************)
(* Properties.                                                             *)
(***************************************************************************)
\* What the provider charged is held or paid: no crash, lost answer, sweep or review gives the credit
\* behind a charge back ("Unknown outcomes hold credit"), what is charged to the contributor is what the
\* provider charged, and the entitlement says what the ledger says.  A generation is submitted at most
\* once, however often its request is executed and whatever fails, and only for a request whose credit
\* was set apart and has not been given back ("Durable at-most-one automatic submission",
\* inference-gateway.ts:9).
SubmittedOnce ==
  \A r \in Requests : calls[r].sent <= 1 /\ (calls[r].sent = 1 => Is(r, {"PROCESSING", "UNCERTAIN", "COMPLETED", "FAILED"}))
ChargesAreHeld ==
  /\ SubmittedOnce
  /\ \A r \in Requests :
       /\ calls[r].charge > 0 => Held(r) \/ Is(r, {"PROCESSING"}) \/ requests[r].actual = calls[r].charge
       /\ Owed(accounts, Reserved, r) = IF r \in Active \cup Uncertain THEN RESERVATION ELSE 0
  /\ available = Owed(accounts, Credit, "e") /\ available >= 0

\* Each charge is invoiced at most once, and only charges are: the approved invoices name
\* disjoint sets of metered requests, and the payable is what they leave (review).
InvoicesCoverChargesOnce ==
  LET approved == {i \in DOMAIN evidence : evidence[i].kind = "invoice" /\ evidence[i].review = "APPROVED"}
      invoiced == UNION {evidence[i].about : i \in approved}
  IN /\ \A i, j \in approved : i # j => evidence[i].about \cap evidence[j].about = {}
     /\ \A r \in invoiced : requests[r].actual = calls[r].charge /\ calls[r].charge > 0
     /\ 0 - accountBalance(accounts, Invoiced) = Total(invoiced)
     /\ 0 - accountBalance(accounts, Payable) = Total(Requests) - Total(invoiced)

\* A text a row refers to is gone only when its retention has ended, or when its owner asked for its
\* deletion after the request was over: whoever thinks its transaction failed looks at the rows before
\* it removes what it sealed (cleanupUnreferenced), and the prompt of a request that may still be
\* executed is there, also after deletions and sweeps that were rolled back (removeContent).
TextsLastUntilUnwanted ==
  /\ asked \subseteq Made \ Active
  /\ \A r \in Requests : requests[r].refers \subseteq texts \/ r \in lapsed.retention \cup asked

\* A request that is queued or processed leaves that state, whatever happens to the process
\* executing it, and the texts a row refers to go when their retention ends (sweep).
RequestsEnd ==
  \A r \in Lapsing : /\ r \in Active ~> r \notin Active
                     /\ r \in lapsed.retention ~> requests[r].refers = {}
=============================================================================
