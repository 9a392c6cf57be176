-------------------------- MODULE ReleaseRetention --------------------------
(***************************************************************************)
(* The sealed copies that are sold from one trace, and when they are        *)
(* destroyed: packages/market/src/thot-market.ts (retentionSnapshot to      *)
(* applyTraceRetention, sweepRetention) and service.ts (deleteTrace,        *)
(* deleteTraceObjects, sweepRetention).  A worker looks at rows, asks the   *)
(* chain listing by listing about authorizations and sales, and removes     *)
(* the copies nothing keeps.  The sweep asks without the service lock and   *)
(* then finds out whether the rows or the deadlines moved; the deletion job *)
(* asks while it holds the lock.                                           *)
(*                                                                         *)
(* The chain answers from the confirmed snapshot, which lags behind its     *)
(* head; blocks above it may be dropped, the snapshot is final.  Deadlines  *)
(* are events that happen at some point.  A prepared sale is paid with the  *)
(* listing's authorization, or, by a buyer who calls the contract itself,   *)
(* with createOffer, which needs no authorization and waits for the seller  *)
(* to accept.  The trade evidence that is cleaned up together with the      *)
(* copies is left out.                                                     *)
(***************************************************************************)
EXTENDS Naturals, FiniteSets

CONSTANTS
  Workers,
  Listings,     \* of the one trace
  Streamed,     \* those prepared for a stream: activated however late
  Sampling,     \* those whose seller agreed to treasury sampling
  Sales,        \* offer ids
  Direct,       \* those whose buyer may call createOffer
  ListingOf,    \* the listing an offer would buy
  MaxUses,      \* of an authorization
  None          \* nobody holds the service lock

ASSUME RetentionAssumption ==
  /\ IsFiniteSet(Listings) /\ IsFiniteSet(Sales) /\ Listings \cap Sales = {}
  /\ Streamed \subseteq Listings /\ Sampling \subseteq Listings /\ Direct \subseteq Sales
  /\ ListingOf \in [Sales -> Listings]
  /\ MaxUses \in Nat /\ None \notin Workers

VARIABLES
  source,     \* the trace: live, past its retention, or marked deleted
  rows,       \* the listings' records
  intents,    \* the sales prepared
  job,        \* a DeleteTraceObjects job waits in the outbox
  report,     \* what the trace's record says of its deletion
  young,      \* the listings whose 15 minutes for signing still run
  copies,     \* the sealed releases in the vault
  lock,       \* the worker whose transaction holds service_lock
  head, confirmed,   \* the market on chain: at its head, at the confirmed snapshot
  at,         \* where a worker is, and what it has read
  before      \* history: the running sales when the source stopped being live

database == <<source, rows, intents, job, report>>
chain == <<head, confirmed>>
retentionVars == <<database, young, copies, lock, chain, at, before>>

Stages == {"none", "unsigned", "signed"}
Row == [stage : Stages, active : BOOLEAN, unlisted : BOOLEAN, sampled : BOOLEAN, gone : BOOLEAN]
NoRow == [stage |-> "none", active |-> FALSE, unlisted |-> FALSE, sampled |-> FALSE, gone |-> FALSE]

SourceLive == source = "live"
Listed(l) == rows[l].stage # "none"
Free == lock = None

(***************************************************************************)
(* The market on chain, as far as it matters here.  A sale is funded once.  *)
(* With the authorization it runs until it is refunded or its licence ends;  *)
(* a direct offer is open until it lapses, is refunded, or its licence ends. *)
(* An authorization is void once it is revoked or past validUntil, and used  *)
(* up by the sales funded with it.                                          *)
(***************************************************************************)
Authorized(m, s) == m.sale[s] \in {"running", "over"}
Uses(m, l) == Cardinality({s \in Sales : ListingOf[s] = l /\ Authorized(m, s)})
Usable(m, l) == l \notin m.void /\ Uses(m, l) < MaxUses
Running(m, s) == m.sale[s] = "running"
Open(m, s) == m.sale[s] \in {"running", "offered", "accepted"}

OnChain(m) ==
  /\ head' = m
  /\ UNCHANGED <<database, young, copies, lock, confirmed, at, before>>

Fund(s) ==
  /\ s \in intents
  /\ head.sale[s] = "none"
  /\ Usable(head, ListingOf[s])
  /\ OnChain([head EXCEPT !.sale[s] = "running"])

\* The offer's id is the buyer's own; nothing else is asked of him.
createOffer(s) ==
  /\ s \in intents \cap Direct
  /\ head.sale[s] = "none"
  /\ OnChain([head EXCEPT !.sale[s] = "offered"])
acceptOffer(s) == head.sale[s] = "offered" /\ OnChain([head EXCEPT !.sale[s] = "accepted"])

EndSale(s) ==
  /\ Open(head, s)
  /\ OnChain([head EXCEPT !.sale[s] = IF Running(head, s) THEN "over" ELSE "ended"])
VoidAuthorization(l) == Listed(l) /\ OnChain([head EXCEPT !.void = @ \cup {l}])

Confirm ==
  /\ confirmed' = head
  /\ UNCHANGED <<database, young, copies, lock, head, at, before>>
Reorganize == OnChain(confirmed)

(***************************************************************************)
(* What sellers, buyers and time do.                                       *)
(***************************************************************************)
Others == <<job, report, lock, chain, at, before>>

\* A listing has an id of its own: one that failed is never tried again.
listTrace(l) ==
  /\ Free /\ SourceLive /\ ~Listed(l) /\ l \notin copies
  /\ rows' = [rows EXCEPT ![l] = [NoRow EXCEPT !.stage = "unsigned"]]
  /\ young' = young \cup {l}
  /\ copies' = copies \cup {l}
  /\ UNCHANGED <<source, intents, Others>>

\* The release is sealed before the row is inserted and committed: when that
\* fails, or the process dies, the copy stays and no row names it.
listingFails(l) ==
  /\ Free /\ SourceLive /\ ~Listed(l)
  /\ copies' = copies \cup {l}
  /\ UNCHANGED <<source, rows, intents, young, Others>>

\* Activation may complete a group of samples and select one of its members.
activateListing(l) ==
  /\ Free /\ SourceLive
  /\ rows[l].stage = "unsigned" /\ ~rows[l].gone /\ ~rows[l].unlisted
  /\ l \in young \cup Streamed
  /\ Usable(confirmed, l) /\ Uses(confirmed, l) = 0
  /\ LET signed == [rows EXCEPT ![l].stage = "signed", ![l].active = TRUE]
     IN \/ rows' = signed
        \/ \E k \in Sampling :
             l \in Sampling /\ signed[k].active /\ rows' = [signed EXCEPT ![k].sampled = TRUE]
  /\ UNCHANGED <<source, intents, young, copies, Others>>

unlist(l) ==
  /\ Free /\ Listed(l) /\ ~rows[l].unlisted
  /\ rows' = [rows EXCEPT ![l].active = FALSE, ![l].unlisted = TRUE]
  /\ UNCHANGED <<source, intents, young, copies, Others>>

prepareOffer(s) ==
  LET l == ListingOf[s]
  IN /\ Free /\ SourceLive /\ s \notin intents
     /\ rows[l].stage = "signed" /\ rows[l].active
     /\ Usable(confirmed, l)
     /\ intents' = intents \cup {s}
     /\ UNCHANGED <<source, rows, young, copies, Others>>

EndPreparation(l) ==
  /\ l \in young
  /\ young' = young \ {l}
  /\ UNCHANGED <<database, copies, lock, chain, at, before>>

Remember == [confirmed |-> {s \in Sales : Running(confirmed, s)},
             head |-> {s \in Sales : Running(head, s)}]

EndRetention ==
  /\ SourceLive
  /\ source' = "expired" /\ before' = Remember
  /\ UNCHANGED <<rows, intents, job, report, young, copies, lock, chain, at>>

MarkDeleted ==
  /\ source' = "deleted" /\ job' = TRUE
  /\ UNCHANGED <<rows, intents, report, young, copies, lock, chain, at>>
deleteTrace ==
  /\ Free /\ source # "deleted"
  /\ before' = IF SourceLive THEN Remember ELSE before
  /\ MarkDeleted
\* service.sweepRetention
markExpired == Free /\ source = "expired" /\ MarkDeleted /\ UNCHANGED before

(***************************************************************************)
(* The workers.                                                            *)
(***************************************************************************)
Snapshot == [source |-> source = "deleted", rows |-> rows, intents |-> intents, report |-> report]

Kept(table) == {l \in Listings : table[l].stage # "none" /\ ~table[l].gone}

\* retentionWindows
Windows ==
  [live |-> SourceLive,
   prepared |-> {l \in Kept(rows) : SourceLive /\ rows[l].stage = "unsigned" /\ l \in young}]

Idle == [pc |-> "idle", seen |-> None, windows |-> None, unread |-> {},
         usable |-> {}, open |-> {}, left |-> {}, retained |-> {}]

Go(w, pc) ==
  [pc |-> pc, seen |-> Snapshot, windows |-> Windows,
   unread |-> Kept(rows) \cup {s \in intents : ListingOf[s] \in Kept(rows)},
   usable |-> {}, open |-> {}, left |-> Kept(rows), retained |-> {}]

BeginSweep_UntilDeleted(w) ==
  /\ at[w].pc = "idle" /\ Free
  /\ Kept(rows) # {} /\ source # "deleted"
  /\ at' = [at EXCEPT ![w] = Go(w, "reading")]
  /\ UNCHANGED <<database, young, copies, lock, chain, before>>

\* Every sweep looks at each trace that still has a copy, whatever its state.
BeginSweep(w) ==
  /\ at[w].pc = "idle" /\ Free
  /\ Kept(rows) # {}
  /\ at' = [at EXCEPT ![w] = Go(w, "reading")]
  /\ UNCHANGED <<database, young, copies, lock, chain, before>>

\* deleteTraceObjects and cleanupTrace: one transaction from here on.
BeginJob(w) ==
  /\ at[w].pc = "idle" /\ Free
  /\ job
  /\ at' = [at EXCEPT ![w] = Go(w, "job")]
  /\ lock' = w
  /\ UNCHANGED <<database, young, copies, chain, before>>

Reading(w) == at[w].pc \in {"reading", "job"}

\* Unsigned listings have no authorization to ask for.
ReadAuthorization(w, l) ==
  /\ Reading(w) /\ l \in at[w].unread
  /\ at' = [at EXCEPT ![w].unread = @ \ {l},
              ![w].usable = IF at[w].seen.rows[l].stage = "signed" /\ Usable(confirmed, l)
                            THEN @ \cup {l} ELSE @]
  /\ UNCHANGED <<database, young, copies, lock, chain, before>>

\* A listing's sales are asked for after its authorization.
ReadOffer(w, s) ==
  /\ Reading(w) /\ s \in at[w].unread /\ ListingOf[s] \notin at[w].unread
  /\ at' = [at EXCEPT ![w].unread = @ \ {s},
              ![w].open = IF Open(confirmed, s) THEN @ \cup {s} ELSE @]
  /\ UNCHANGED <<database, young, copies, lock, chain, before>>

Apply_AnyTime(w) ==
  /\ at[w].pc = "reading" /\ at[w].unread = {} /\ Free
  /\ IF Snapshot = at[w].seen
     THEN lock' = w /\ at' = [at EXCEPT ![w].pc = "applying", ![w].windows = Windows]
     ELSE at' = [at EXCEPT ![w] = Idle] /\ UNCHANGED lock
  /\ UNCHANGED <<database, young, copies, chain, before>>

\* Reads that no longer fit are not applied; the next sweep reads again.  What
\* is applied is decided for this moment.
Apply(w) ==
  /\ at[w].pc = "reading" /\ at[w].unread = {} /\ Free
  /\ IF Snapshot = at[w].seen /\ Windows = at[w].windows
     THEN lock' = w /\ at' = [at EXCEPT ![w].pc = "applying", ![w].windows = Windows]
     ELSE at' = [at EXCEPT ![w] = Idle] /\ UNCHANGED lock
  /\ UNCHANGED <<database, young, copies, chain, before>>

\* Whether the copy of a listing is still wanted, from what was read.
Keep(w, l) ==
  LET seen == at[w].seen
      live == at[w].windows.live
  IN \/ live /\ seen.rows[l].stage = "signed" /\ l \in at[w].usable
     \/ l \in at[w].windows.prepared
     \/ \E s \in at[w].open : ListingOf[s] = l
     \/ live /\ seen.rows[l].sampled

\* Removing an object is not undone if the transaction fails later.
Discard(w, l) ==
  /\ at[w].pc \in {"applying", "job"} /\ l \in at[w].left
  /\ \A x \in at[w].unread : x # l /\ (x \in Sales => ListingOf[x] # l)
  /\ IF Keep(w, l)
     THEN at' = [at EXCEPT ![w].left = @ \ {l}, ![w].retained = @ \cup {l}] /\ UNCHANGED copies
     ELSE at' = [at EXCEPT ![w].left = @ \ {l}] /\ copies' = copies \ {l}
  /\ UNCHANGED <<database, young, lock, chain, before>>

AfterApply(w, l) ==
  LET row == rows[l]
      settled == [row EXCEPT !.active = @ /\ at[w].windows.live
                                 /\ (row.stage = "signed" => l \in at[w].usable)]
  IN IF l \notin Kept(rows) THEN row
     ELSE [settled EXCEPT !.gone = l \notin at[w].retained]

Report(w) ==
  IF at[w].pc = "job" \/ report.objects
  THEN [objects |-> TRUE, all |-> at[w].retained = {}]
  ELSE report

Commit(w) ==
  /\ at[w].pc \in {"applying", "job"} /\ at[w].left = {}
  /\ rows' = [l \in Listings |-> AfterApply(w, l)]
  /\ report' = Report(w)
  /\ job' = (job /\ at[w].pc = "applying")
  /\ lock' = None
  /\ at' = [at EXCEPT ![w] = Idle]
  /\ UNCHANGED <<source, intents, young, copies, chain, before>>

\* The chain, the vault or the database fails, or the process dies: the
\* transaction is rolled back.  A job that failed five times is never tried again.
Fail(w) ==
  /\ at[w].pc # "idle"
  /\ at' = [at EXCEPT ![w] = Idle]
  /\ lock' = IF lock = w THEN None ELSE lock
  /\ IF at[w].pc = "job" THEN job' \in BOOLEAN ELSE UNCHANGED job
  /\ UNCHANGED <<source, rows, intents, report, young, copies, chain, before>>

RetentionInit ==
  /\ source = "live"
  /\ rows = [l \in Listings |-> NoRow]
  /\ intents = {}
  /\ job = FALSE
  /\ report = [objects |-> FALSE, all |-> FALSE]
  /\ young = {} /\ copies = {}
  /\ lock = None
  /\ head = [sale |-> [s \in Sales |-> "none"], void |-> {}]
  /\ confirmed = head
  /\ at = [w \in Workers |-> Idle]
  /\ before = [confirmed |-> {}, head |-> {}]

Marketplace ==
  \/ \E s \in Sales : Fund(s) \/ createOffer(s) \/ acceptOffer(s) \/ EndSale(s) \/ prepareOffer(s)
  \/ \E l \in Listings :
       \/ VoidAuthorization(l)
       \/ listTrace(l) \/ listingFails(l)
       \/ activateListing(l) \/ unlist(l) \/ EndPreparation(l)
  \/ Confirm \/ Reorganize

Sweep(w) ==
  \/ BeginSweep(w) \/ Apply(w)
Work(w) ==
  \/ BeginJob(w) \/ Commit(w)
  \/ \E l \in Listings : ReadAuthorization(w, l) \/ Discard(w, l)
  \/ \E s \in Sales : ReadOffer(w, s)

RetentionNext ==
  \/ Marketplace
  \/ EndRetention \/ deleteTrace \/ markExpired
  \/ \E w \in Workers : Sweep(w) \/ Work(w) \/ Fail(w)

RetentionSpec == RetentionInit /\ [][RetentionNext]_retentionVars

\* A worker's cycle runs for ever and does not fail for ever.
Fairness ==
  \A w \in Workers :
    /\ WF_retentionVars(Work(w))
    /\ SF_retentionVars(BeginSweep(w)) /\ WF_retentionVars(Apply(w))
    /\ <>[][~Fail(w)]_retentionVars

FairSpec == RetentionSpec /\ Fairness

(***************************************************************************)
(* Properties.                                                             *)
(***************************************************************************)

View == [source : BOOLEAN, rows : [Listings -> Row], intents : SUBSET Sales,
         report : [objects : BOOLEAN, all : BOOLEAN]]
Place ==
  [pc : {"idle", "reading", "applying", "job"}, seen : View \cup {None},
   windows : [live : BOOLEAN, prepared : SUBSET Listings] \cup {None},
   unread : SUBSET (Listings \cup Sales), usable : SUBSET Listings,
   open : SUBSET Sales, left : SUBSET Listings, retained : SUBSET Listings]

\* A copy somebody paid for with the listing's authorization stays while the
\* licence runs: whatever the sweep read before and after the payment was confirmed,
\* and also when the seller deletes the source after that (retentionChainReads,
\* sweepRetention).
PaidReleaseIsKept ==
  \A s \in Sales :
    \/ SourceLive /\ (Running(head, s) \/ Running(confirmed, s))
    \/ s \in before.confirmed /\ Running(confirmed, s)
    => ListingOf[s] \in copies

\* The trace's record claims that all private objects are deleted only when no
\* listing has a copy left, through failed removals, jobs and sweeps in between
\* (deleteTraceObjects, sweepRetention).  Of what a failed listing has left behind
\* the record knows nothing: see Strays.
Strays == {l \in copies : ~Listed(l)}
DeletionReportIsTrue == report.all => copies = Strays

\* Deletion is not forgotten: once the source is deleted and no sale of a listing
\* is open any more, the listing's copy goes, also when the deletion job had to
\* retain it (sweepRetention); and the record never says so before.
Unwanted(l) ==
  source = "deleted" /\ Listed(l) /\ \A s \in Sales : ListingOf[s] = l => ~Open(confirmed, s)
DeletedSourcesLeaveNoCopy ==
  /\ \A l \in Listings : <>[]Unwanted(l) => <>[](l \notin copies)
  /\ []DeletionReportIsTrue

\* docs/private-retention.md:7 promises that "deleting a source does not revoke
\* already funded copies before their existing deadline": here also for a sale
\* whose funding was mined when the source was deleted.
FundedCopiesOutliveTheSource ==
  \A s \in before.head : Running(confirmed, s) => ListingOf[s] \in copies
=============================================================================
