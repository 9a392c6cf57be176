------------------------ MODULE MandateMarketProofs ------------------------
(***************************************************************************)
(* Proofs about MandateMarket and Connections, which MCMandateMarket checks    *)
(* together: for any mandates, traces, prices and budgets, what was sold is     *)
(* kept, paid for once and accounted for, and no match is forgotten; for any     *)
(* codes, policies, requests, recordings and workers, a code and a policy serve  *)
(* one connection, and nothing is shown for sale whose consent was stopped.     *)
(***************************************************************************)
EXTENDS MandateMarket, Connections, SumTheorems, SequenceTheorems

Fields == {"traces", "deleted", "linked", "revoked", "policies", "mandates", "funding", "candidates", "licenses",
           "credit", "burn", "reserved", "outbox", "failed", "book", "paused", "sourceGone"}
AllIds == Mandates \X Traces \X Nat
OwnerPolicies == [version : Nat, allows : SUBSET Mandates, standing : BOOLEAN]
MandateRecords == [status : {"none", "draft", "pending_funding", "funded", "active", "paused", "exhausted"},
                   funded : Nat, spent : Nat, units : Nat]
CandidateRecords == [status : {"USER_AUTH_PENDING", "LICENSED", "SUPERSEDED", "EXPIRED", "DELETED"}, evidence : BOOLEAN]
LicenseRecords == [delivery : {"AVAILABLE", "DELIVERED", "EXPIRED"}, payout : {"inference_credit", "token"}]
CreditRecords == [disposition : {"pending", "inference_credit", "token"},
                  status : {"AVAILABLE", "INFERENCE_SPENT", "TOKEN_PURCHASE_PENDING", "TOKEN_WITHDRAWN", "NO_ALLOCATION"},
                  available : Nat]
BurnStates == {"CREATED", "BURN_FINAL", "NO_ALLOCATION"}
ReservationRecords == [of : AllIds, amount : Nat, status : {"RESERVED", "RELEASED", "SPENT"}]
JobEvents == {"MatchMandate", "SettleLicense", "DeleteTraceObjects", "DeleteExpiredCandidate", "DeleteExpiredRelease"}
JobRecords == [event : JobEvents, on : Mandates \cup Traces \cup AllIds, attempts : Nat]

IsTable(f, names, records) == DOMAIN f \subseteq names /\ IsFiniteSet(DOMAIN f) /\ \A x \in DOMAIN f : f[x] \in records
Typed(db) ==
  /\ DOMAIN db = Fields
  /\ db.traces \in Seq(case.traces)
  /\ db.policies \in [Owners -> OwnerPolicies]
  /\ db.mandates \in [Mandates -> MandateRecords]
  /\ IsTable(db.candidates, AllIds, CandidateRecords)
  /\ IsTable(db.licenses, DOMAIN db.candidates, LicenseRecords)
  /\ IsTable(db.credit, DOMAIN db.licenses, CreditRecords)
  /\ IsTable(db.burn, DOMAIN db.credit, BurnStates) /\ DOMAIN db.burn = DOMAIN db.credit
  /\ db.reserved \in Seq(ReservationRecords)
  /\ db.outbox \in Seq(JobRecords)

\* A job names a row that is there; releases are removed whose license has expired, and objects of
\* traces that are deleted.
JobIsSound(db, job) ==
  /\ job.event = "MatchMandate" => job.on \in Mandates
  /\ job.event = "SettleLicense" => job.on \in DOMAIN db.licenses
  /\ job.event = "DeleteTraceObjects" => job.on \in db.deleted
  /\ job.event = "DeleteExpiredCandidate" => job.on \in DOMAIN db.candidates
  /\ job.event = "DeleteExpiredRelease" => job.on \in past.licenses
JobsAreSound(db) == \A job \in Range(db.outbox) : JobIsSound(db, job)

\* A trace has one candidate at a time for a mandate, and a license is of a candidate that stays
\* licensed; so no candidate that is superseded or removed has one.
Current(db, id) == db.candidates[id].status \notin {"SUPERSEDED", "DELETED"}
OneCandidate(db) ==
  \A id, other \in DOMAIN db.candidates :
    MandateOf(id) = MandateOf(other) /\ TraceOf(id) = TraceOf(other) /\ Current(db, id) /\ Current(db, other) => id = other
LicensedStay(db) == \A id \in DOMAIN db.licenses : db.candidates[id].status = "LICENSED"
ReleasesStay(db, kept) == \A id \in DOMAIN db.licenses \ past.licenses : Release(id) \in kept
ReleasesAreRight(db, kept) == OneCandidate(db) /\ LicensedStay(db) /\ ReleasesStay(db, kept)

\* Units, money and exclusivity of what was sold.
Licensed(db, m) == {id \in DOMAIN db.licenses : MandateOf(id) = m}
WithinTerms(db) ==
  /\ \A m \in Mandates : LET row == db.mandates[m] IN
       /\ row.units = Cardinality(Licensed(db, m)) /\ row.units <= UnitsOf[m]
       /\ row.spent = row.units * PriceOf[m] /\ row.spent <= row.funded /\ row.funded <= BudgetOf[m]
  /\ \A id, other \in DOMAIN db.licenses :
       TraceOf(id) = TraceOf(other) /\ MandateOf(id) \in Exclusive => id = other

\* A journal in the book is of a row: of a funding, a sale, a choice, a reservation, its settlement, or
\* an allocation carried out.
Carried(db, a) ==
  \/ a[1] = "contributor" /\ a[2] \in DOMAIN db.credit /\ db.credit[a[2]].status = "TOKEN_WITHDRAWN"
  \/ a[1] = "burn" /\ a[2] \in DOMAIN db.burn /\ db.burn[a[2]] # "CREATED"
JournalsAreOfRows(db) ==
  /\ \A r : <<"fund", r>> \in DOMAIN db.book => r \in db.funding
  /\ \A id : <<"sale", id>> \in DOMAIN db.book => id \in DOMAIN db.credit
  /\ \A id : <<"choose", id>> \in DOMAIN db.book => id \in DOMAIN db.credit /\ db.credit[id].disposition # "pending"
  /\ \A rid : <<"reserve", rid>> \in DOMAIN db.book => rid \in DOMAIN db.reserved
  /\ \A rid : <<"usage", rid>> \in DOMAIN db.book => rid \in DOMAIN db.reserved /\ db.reserved[rid].status # "RESERVED"
  /\ \A kind \in {"contributor", "burn"} : \A id : <<kind, id>> \in DOMAIN db.book => Carried(db, <<kind, id>>)
  /\ \A a : Disposition(a) \in DOMAIN db.book => Carried(db, a)

\* A share that has not been chosen for, or waits for its purchase, is whole; credit is reserved only of
\* a share chosen for inference.
SharesAreWhole(db) ==
  /\ \A id \in DOMAIN db.credit : LET e == db.credit[id] IN
       /\ e.disposition = "pending" => e.status = "AVAILABLE" /\ e.available = Share(id).contributor
       /\ e.status = "TOKEN_PURCHASE_PENDING" => e.disposition = "token" /\ e.available = Share(id).contributor
       /\ e.disposition = "inference_credit" => e.status \in {"AVAILABLE", "INFERENCE_SPENT"}
  /\ \A rid \in DOMAIN db.reserved : LET r == db.reserved[rid] IN
       r.of \in DOMAIN db.credit /\ db.credit[r.of].disposition = "inference_credit"

\* What each account owes, for every row there is or may be.
Held(db, id, condition) == IF id \in DOMAIN db.credit /\ condition THEN db.credit[id].available ELSE 0
EscrowOf(db, m) == db.mandates[m].funded - db.mandates[m].spent + Cardinality(Licensed(db, m) \ DOMAIN db.credit) * PriceOf[m]
ReservedFor(db, rid) == IF rid \in DOMAIN db.reserved /\ db.reserved[rid].status = "RESERVED" THEN db.reserved[rid].amount ELSE 0
BalancesAreRight(db) ==
  /\ \A m \in Mandates : Owed(db.book, Escrow, m) = EscrowOf(db, m)
  /\ \A id \in AllIds :
       /\ Owed(db.book, Unallocated, id) = Held(db, id, db.credit[id].disposition = "pending")
       /\ Owed(db.book, Credit, id) = Held(db, id, db.credit[id].disposition = "inference_credit")
       /\ Owed(db.book, TokenPending, id) = Held(db, id, db.credit[id].status = "TOKEN_PURCHASE_PENDING")
       /\ Owed(db.book, BurnPending, id) = IF id \in DOMAIN db.burn /\ db.burn[id] = "CREATED" THEN Share(id).burn ELSE 0
  /\ \A rid \in Nat : Owed(db.book, Reserved, rid) = ReservedFor(db, rid)
LedgerIsRight(db) == IsBook(db.book) /\ JournalsAreOfRows(db) /\ SharesAreWhole(db) /\ BalancesAreRight(db)

CaseIsChosen == case \in Cases /\ past \in [mandates : SUBSET Mandates, traces : SUBSET Traces, licenses : SUBSET AllIds]
Sound(db, kept) ==
  /\ Typed(db) /\ JobsAreSound(db) /\ ReleasesAreRight(db, kept) /\ WithinTerms(db) /\ LedgerIsRight(db)

\* A pair of mandate and trace that matching would do something for, and a matching job that is queued
\* or was given up.
Waits(db, m, t) ==
  \A id \in Existing(db, m, t) : db.candidates[id].status = "USER_AUTH_PENDING" /\ id[3] # db.policies[OwnerOf[t]].version
Matchable(db, m, t) == Alive(db, t) /\ Allows(db, m, t) /\ (m \in NeedsEvidence => EvidenceOf(db, t))
Wanted(db, m, t) == t \in Range(db.traces) /\ "sales" \notin db.paused /\ Open(db, m) /\ Matchable(db, m, t) /\ Waits(db, m, t)
Asked(db, m) ==
  <<"MatchMandate", m>> \in db.failed \/ \E job \in Range(db.outbox) : job.event = "MatchMandate" /\ job.on = m
MatchesAsked(db) == \A m \in case.mandates : (\E t : Wanted(db, m, t)) => Asked(db, m)

MarketInv == CaseIsChosen /\ Sound(tables, vault) /\ MatchesAsked(tables)

(***************************************************************************)
(* Sequences, and sets put in some order.                                    *)
(***************************************************************************)
\* The elements of a set, in the order it was given.
LEMMA InSomeOrder ==
  ASSUME NEW S, IsFiniteSet(S)
  PROVE  SetToSeq(S) \in Seq(S) /\ Range(SetToSeq(S)) = S
<1> DEFINE n == Cardinality(S)
           q == SetToSeq(S)
<1>1. n \in Nat /\ ExistsBijection(1..n, S)
  BY FS_CardinalityType
<1>2. \E f \in [1..n -> S] : IsInjective(f)
  BY <1>1 DEF ExistsBijection, Bijection, Injection
<1>3. q \in [1..n -> S] /\ IsInjective(q)
  BY <1>2 DEF SetToSeq
<1>4. q \in Injection(1..n, S)
  BY <1>3 DEF Injection
<1>5. IsFiniteSet(1..n) /\ Cardinality(1..n) = n
  BY <1>1, FS_Interval
<1> HIDE DEF q
<1>6. q \in Surjection(1..n, S)
  BY <1>4, <1>5, FS_Injection
<1>7. q \in Seq(S) /\ DOMAIN q = 1..n
  BY <1>1, <1>3, IsASeq
<1>8. Range(q) = S
  BY <1>3, <1>6, <1>7 DEF Range, Surjection
<1> QED BY <1>7, <1>8 DEF q

LEMMA OneMore ==
  ASSUME NEW X, NEW s \in Seq(X), NEW x \in X
  PROVE  Append(s, x) \in Seq(X) /\ Range(Append(s, x)) = Range(s) \cup {x}
<1>1. /\ Append(s, x) \in Seq(X) /\ DOMAIN Append(s, x) = 1..Len(s) + 1 /\ DOMAIN s = 1..Len(s) /\ Len(s) \in Nat
      /\ \A i \in 1..Len(s) : Append(s, x)[i] = s[i]
      /\ Append(s, x)[Len(s) + 1] = x
  BY AppendProperties, LenProperties
<1>2. Range(Append(s, x)) = Range(s) \cup {x}
  BY <1>1 DEF Range
<1> QED BY <1>1, <1>2

LEMMA OneLess ==
  ASSUME NEW X, NEW s \in Seq(X), NEW i \in DOMAIN s
  PROVE  /\ RemoveAt(s, i) \in Seq(X)
         /\ Range(RemoveAt(s, i)) \subseteq Range(s)
         /\ Range(s) \subseteq Range(RemoveAt(s, i)) \cup {s[i]}
<1> DEFINE one == SubSeq(s, 1, i - 1)
           two == SubSeq(s, i + 1, Len(s))
<1>1. /\ DOMAIN s = 1..Len(s) /\ Len(s) \in Nat /\ i \in Int /\ 1 <= i /\ i <= Len(s)
      /\ \A j \in DOMAIN s : s[j] \in X
  BY LenProperties, ElementOfSeq
<1>2. /\ one \in Seq(X) /\ Len(one) = i - 1 /\ \A j \in 1..i - 1 : one[j] = s[j]
  BY <1>1, SubSeqProperties
<1>3. /\ two \in Seq(X) /\ Len(two) = Len(s) - i /\ \A j \in 1..Len(s) - i : two[j] = s[i + j]
  BY <1>1, SubSeqProperties
<1> HIDE DEF one, two
<1>4. /\ one \o two \in Seq(X) /\ Range(one \o two) = Range(one) \cup Range(two)
      /\ DOMAIN one = 1..i - 1 /\ DOMAIN two = 1..Len(s) - i
  BY <1>2, <1>3, ConcatProperties, RangeConcatenation, LenProperties
<1>5. \A j \in 1..Len(s) - i : i + j \in DOMAIN s
  BY <1>1
<1>6. Range(one) \subseteq Range(s) /\ Range(two) \subseteq Range(s)
  BY <1>1, <1>2, <1>3, <1>4, <1>5 DEF Range
<1>7. \A j \in DOMAIN s : s[j] \in Range(one) \cup Range(two) \cup {s[i]}
  <2> TAKE j \in DOMAIN s
  <2>1. CASE j < i
    BY <1>1, <1>2, <1>4, <2>1 DEF Range
  <2>2. CASE j > i
    <3>1. j - i \in 1..Len(s) - i /\ i + (j - i) = j
      BY <1>1, <2>2
    <3>2. two[j - i] = s[j]
      BY <1>3, <3>1
    <3> QED BY <1>4, <3>1, <3>2 DEF Range
  <2> QED BY <1>1, <2>1, <2>2
<1>8. RemoveAt(s, i) = one \o two
  BY DEF RemoveAt, one, two
<1> QED BY <1>4, <1>6, <1>7, <1>8 DEF Range

(***************************************************************************)
(* What a transaction changes, and jobs it queues.                            *)
(***************************************************************************)
Keeps(new, db, changed) == DOMAIN new = Fields /\ \A f \in Fields \ changed : new[f] = db[f]
Queues(new, db, jobs) ==
  /\ Keeps(new, db, {"outbox"}) /\ new.outbox \in Seq(JobRecords)
  /\ Range(new.outbox) = Range(db.outbox) \cup jobs
Names == Mandates \cup Traces \cup AllIds

LEMMA JobIsRecord == ASSUME NEW event \in JobEvents, NEW on \in Names PROVE Job(event, on) \in JobRecords
BY DEF Job, JobRecords, Names

LEMMA EnqueueQueues ==
  ASSUME NEW db, DOMAIN db = Fields, db.outbox \in Seq(JobRecords), NEW event \in JobEvents, NEW on \in Names
  PROVE  Queues(Enqueue(db, event, on), db, {Job(event, on)})
<1>1. Job(event, on) \in JobRecords
  BY JobIsRecord
<1>2. /\ Append(db.outbox, Job(event, on)) \in Seq(JobRecords)
      /\ Range(Append(db.outbox, Job(event, on))) = Range(db.outbox) \cup {Job(event, on)}
  BY <1>1, OneMore
<1> QED BY <1>2 DEF Queues, Keeps, Enqueue, Fields

JobsFor(event, S) == {Job(event, on) : on \in S}
LEMMA EnqueueEachQueues ==
  ASSUME NEW db, DOMAIN db = Fields, db.outbox \in Seq(JobRecords), NEW event \in JobEvents, NEW S \in SUBSET Names, IsFiniteSet(S)
  PROVE  Queues(EnqueueEach(db, event, S), db, JobsFor(event, S))
<1> DEFINE jobs == JobsFor(event, S)
<1>1. jobs \subseteq JobRecords
  BY JobIsRecord DEF JobsFor
<1>2. IsFiniteSet(jobs)
  <2> DEFINE f == [on \in S |-> Job(event, on)]
  <2>1. f \in Surjection(S, jobs)
    BY DEF Surjection, JobsFor
  <2> QED BY <2>1, FS_Surjection, Zenon
<1>3. EnqueueEach(db, event, S) = [db EXCEPT !.outbox = @ \o SetToSeq(jobs)]
  BY DEF EnqueueEach, JobsFor
<1> HIDE DEF jobs
<1>4. SetToSeq(jobs) \in Seq(JobRecords) /\ Range(SetToSeq(jobs)) = jobs
  BY <1>1, <1>2, InSomeOrder, SeqMonotonic
<1>5. /\ db.outbox \o SetToSeq(jobs) \in Seq(JobRecords)
      /\ Range(db.outbox \o SetToSeq(jobs)) = Range(db.outbox) \cup jobs
  BY <1>4, ConcatProperties, RangeConcatenation
<1>6. Queues(EnqueueEach(db, event, S), db, jobs)
  BY <1>3, <1>5 DEF Queues, Keeps, Fields
<1> QED BY <1>6 DEF jobs

\* Every open mandate of the case has a matching job afterwards.
LEMMA MatchingQueues ==
  ASSUME CaseIsChosen, NEW db, DOMAIN db = Fields, db.outbox \in Seq(JobRecords)
  PROVE  \E S \in SUBSET case.mandates :
           /\ Queues(EnqueueMatching(db), db, JobsFor("MatchMandate", S))
           /\ \A m \in case.mandates : Open(db, m) => m \in S \/ Queued(db, "MatchMandate", m)
<1> DEFINE S == {m \in case.mandates : Open(db, m) /\ ~Queued(db, "MatchMandate", m)}
<1>1. case.mandates \subseteq Mandates /\ IsFiniteSet(case.mandates)
  BY CaseAssumption DEF CaseIsChosen
<1>2. S \in SUBSET case.mandates /\ IsFiniteSet(S) /\ S \in SUBSET Names
  BY <1>1, FS_Subset DEF Names
<1>3. EnqueueMatching(db) = EnqueueEach(db, "MatchMandate", S)
  BY DEF EnqueueMatching
<1>4. \A m \in case.mandates : Open(db, m) => m \in S \/ Queued(db, "MatchMandate", m)
  OBVIOUS
<1> HIDE DEF S
<1>5. Queues(EnqueueMatching(db), db, JobsFor("MatchMandate", S))
  BY <1>2, <1>3, EnqueueEachQueues DEF JobEvents
<1> QED BY <1>2, <1>4, <1>5

\* A part of the state that its rows do not concern.
LEMMA TermsKept ==
  ASSUME NEW db, NEW new, WithinTerms(db), DOMAIN new.licenses = DOMAIN db.licenses,
         \A m \in Mandates : /\ new.mandates[m].units = db.mandates[m].units
                             /\ new.mandates[m].spent = db.mandates[m].spent
                             /\ new.mandates[m].funded = db.mandates[m].funded
  PROVE  WithinTerms(new)
<1>1. \A m : Licensed(new, m) = Licensed(db, m)
  BY DEF Licensed
<1> QED BY <1>1 DEF WithinTerms

LEMMA LedgerKept ==
  ASSUME NEW db, NEW new, LedgerIsRight(db), DOMAIN new.licenses = DOMAIN db.licenses,
         new.book = db.book, new.funding = db.funding, new.credit = db.credit, new.burn = db.burn, new.reserved = db.reserved,
         \A m \in Mandates : new.mandates[m].spent = db.mandates[m].spent /\ new.mandates[m].funded = db.mandates[m].funded
  PROVE  LedgerIsRight(new)
<1>1. \A m \in Mandates : EscrowOf(new, m) = EscrowOf(db, m)
  <2>1. \A m : Licensed(new, m) = Licensed(db, m)
    BY DEF Licensed
  <2> QED BY <2>1 DEF EscrowOf
<1>2. JournalsAreOfRows(new) /\ SharesAreWhole(new)
  BY DEF LedgerIsRight, JournalsAreOfRows, SharesAreWhole, Carried
<1>3. BalancesAreRight(new)
  BY <1>1 DEF LedgerIsRight, BalancesAreRight, Held, ReservedFor
<1> QED BY <1>2, <1>3 DEF LedgerIsRight

LEMMA JobsKept ==
  ASSUME NEW db, NEW new, NEW jobs, JobsAreSound(db), Range(new.outbox) \subseteq Range(db.outbox) \cup jobs,
         \A job \in jobs : JobIsSound(new, job),
         DOMAIN db.licenses \subseteq DOMAIN new.licenses, DOMAIN db.candidates \subseteq DOMAIN new.candidates,
         db.deleted \subseteq new.deleted
  PROVE  JobsAreSound(new)
<1>1. \A job : JobIsSound(db, job) => JobIsSound(new, job)
  BY DEF JobIsSound
<1> QED BY <1>1 DEF JobsAreSound

LEMMA JobsStay ==
  ASSUME NEW db, NEW new, JobsAreSound(db), new.outbox = db.outbox,
         DOMAIN db.licenses \subseteq DOMAIN new.licenses, DOMAIN db.candidates \subseteq DOMAIN new.candidates,
         db.deleted \subseteq new.deleted
  PROVE  JobsAreSound(new)
<1>1. \A job : JobIsSound(db, job) => JobIsSound(new, job)
  BY DEF JobIsSound
<1> QED BY <1>1 DEF JobsAreSound

LEMMA QueueKeepsSound ==
  ASSUME NEW db, NEW new, NEW kept, NEW jobs, Sound(db, kept), Queues(new, db, jobs), \A job \in jobs : JobIsSound(db, job)
  PROVE  Sound(new, kept)
<1>1. /\ DOMAIN new = Fields /\ \A f \in Fields \ {"outbox"} : new[f] = db[f]
      /\ new.outbox \in Seq(JobRecords) /\ Range(new.outbox) = Range(db.outbox) \cup jobs
  BY DEF Queues, Keeps
<1>2. /\ new.traces = db.traces /\ new.deleted = db.deleted /\ new.policies = db.policies /\ new.mandates = db.mandates
      /\ new.funding = db.funding /\ new.candidates = db.candidates /\ new.licenses = db.licenses /\ new.credit = db.credit
      /\ new.burn = db.burn /\ new.reserved = db.reserved /\ new.book = db.book
  BY <1>1 DEF Fields
<1>3. Typed(new)
  BY <1>1, <1>2 DEF Sound, Typed
<1>4. JobsAreSound(new)
  <2>1. \A job \in jobs : JobIsSound(new, job)
    BY <1>2 DEF JobIsSound
  <2> QED BY <1>1, <1>2, <2>1, JobsKept DEF Sound
<1>5. ReleasesAreRight(new, kept)
  BY <1>2 DEF Sound, ReleasesAreRight, OneCandidate, Current, LicensedStay, ReleasesStay
<1>6. WithinTerms(new) /\ LedgerIsRight(new)
  BY <1>2, TermsKept, LedgerKept DEF Sound
<1> QED BY <1>3, <1>4, <1>5, <1>6 DEF Sound

\* Rows that no part of the invariant but their types is about, and objects that come to the vault.
LEMMA PlainRowsAreSound ==
  ASSUME NEW db, NEW new, NEW kept, NEW more, Sound(db, kept), kept \subseteq more,
         Keeps(new, db, {"traces", "policies", "linked", "revoked", "failed", "paused", "sourceGone", "deleted"}),
         new.traces \in Seq(case.traces), new.policies \in [Owners -> OwnerPolicies], db.deleted \subseteq new.deleted
  PROVE  Sound(new, more)
<1>1. DOMAIN new = Fields
  BY DEF Keeps
<1>2. /\ new.mandates = db.mandates /\ new.outbox = db.outbox
      /\ new.funding = db.funding /\ new.candidates = db.candidates /\ new.licenses = db.licenses /\ new.credit = db.credit
      /\ new.burn = db.burn /\ new.reserved = db.reserved /\ new.book = db.book
  BY DEF Keeps, Fields
<1>3. Typed(new)
  BY <1>1, <1>2 DEF Sound, Typed
<1>4. JobsAreSound(new)
  BY <1>2, JobsStay DEF Sound
<1>5. ReleasesAreRight(new, more)
  BY <1>2 DEF Sound, ReleasesAreRight, OneCandidate, Current, LicensedStay, ReleasesStay
<1>6. WithinTerms(new) /\ LedgerIsRight(new)
  BY <1>2, TermsKept, LedgerKept DEF Sound
<1> QED BY <1>3, <1>4, <1>5, <1>6 DEF Sound

\* A mandate gets another status.
LEMMA StatusIsSound ==
  ASSUME NEW db, NEW new, NEW kept, Sound(db, kept), Keeps(new, db, {"mandates"}), new.mandates \in [Mandates -> MandateRecords],
         \A m \in Mandates : /\ new.mandates[m].units = db.mandates[m].units
                             /\ new.mandates[m].spent = db.mandates[m].spent
                             /\ new.mandates[m].funded = db.mandates[m].funded
  PROVE  Sound(new, kept)
<1>1. DOMAIN new = Fields
  BY DEF Keeps
<1>2. /\ new.traces = db.traces /\ new.deleted = db.deleted /\ new.policies = db.policies /\ new.outbox = db.outbox
      /\ new.funding = db.funding /\ new.candidates = db.candidates /\ new.licenses = db.licenses /\ new.credit = db.credit
      /\ new.burn = db.burn /\ new.reserved = db.reserved /\ new.book = db.book
  BY DEF Keeps, Fields
<1>3. Typed(new)
  BY <1>1, <1>2 DEF Sound, Typed
<1>4. JobsAreSound(new)
  BY <1>2, JobsStay DEF Sound
<1>5. ReleasesAreRight(new, kept)
  BY <1>2 DEF Sound, ReleasesAreRight, OneCandidate, Current, LicensedStay, ReleasesStay
<1>6. WithinTerms(new) /\ LedgerIsRight(new)
  BY <1>2, TermsKept, LedgerKept DEF Sound
<1> QED BY <1>3, <1>4, <1>5, <1>6 DEF Sound

\* Candidates and the delivery of licenses change.
LEMMA CandidatesAreSound ==
  ASSUME NEW db, NEW new, NEW kept, NEW left, Sound(db, kept), Keeps(new, db, {"candidates", "licenses"}),
         IsTable(new.candidates, AllIds, CandidateRecords), DOMAIN db.candidates \subseteq DOMAIN new.candidates,
         DOMAIN new.licenses = DOMAIN db.licenses, \A id \in DOMAIN new.licenses : new.licenses[id] \in LicenseRecords,
         ReleasesAreRight(new, left)
  PROVE  Sound(new, left)
<1>1. DOMAIN new = Fields
  BY DEF Keeps
<1>2. /\ new.traces = db.traces /\ new.deleted = db.deleted /\ new.policies = db.policies /\ new.outbox = db.outbox
      /\ new.mandates = db.mandates /\ new.funding = db.funding /\ new.credit = db.credit
      /\ new.burn = db.burn /\ new.reserved = db.reserved /\ new.book = db.book
  BY DEF Keeps, Fields
<1>3. Typed(new)
  <2>1. IsTable(new.licenses, DOMAIN new.candidates, LicenseRecords) /\ IsTable(new.credit, DOMAIN new.licenses, CreditRecords)
    BY <1>2 DEF Sound, Typed, IsTable
  <2> QED BY <1>1, <1>2, <2>1 DEF Sound, Typed
<1>4. JobsAreSound(new)
  BY <1>2, JobsStay DEF Sound
<1>5. WithinTerms(new) /\ LedgerIsRight(new)
  BY <1>2, TermsKept, LedgerKept DEF Sound
<1> QED BY <1>3, <1>4, <1>5 DEF Sound

\* A row more, or another one in its place.
Puts(new, f, x, y) == DOMAIN new = DOMAIN f \cup {x} /\ new[x] = y /\ \A z \in DOMAIN f : z # x => new[z] = f[z]
LEMMA WithPuts == \A f, x, y : Puts(With(f, x, y), f, x, y)
BY DEF With, Puts

LEMMA PutTable ==
  ASSUME NEW f, NEW names, NEW records, IsTable(f, names, records), NEW x \in names, NEW y \in records, NEW g, Puts(g, f, x, y)
  PROVE  IsTable(g, names, records)
<1>1. IsFiniteSet(DOMAIN f \cup {x})
  BY FS_AddElement DEF IsTable
<1> QED BY <1>1 DEF IsTable, Puts

(***************************************************************************)
(* A sale.                                                                 *)
(***************************************************************************)
LEMMA OneUnitMore == ASSUME NEW k \in Int, NEW p \in Int PROVE (k + 1) * p = k * p + p /\ k * p \in Int
OBVIOUS

\* The rows of a sale before its settlement is queued.
Sells(new, db, id) ==
  LET m == MandateOf(id)  row == db.mandates[m] IN
  /\ Keeps(new, db, {"candidates", "licenses", "mandates"})
  /\ DOMAIN new.candidates = DOMAIN db.candidates /\ new.candidates[id] \in CandidateRecords /\ new.candidates[id].status = "LICENSED"
  /\ \A x \in DOMAIN db.candidates : x # id => new.candidates[x] = db.candidates[x]
  /\ DOMAIN new.licenses = DOMAIN db.licenses \cup {id} /\ new.licenses[id] \in LicenseRecords
  /\ \A x \in DOMAIN db.licenses : x # id => new.licenses[x] = db.licenses[x]
  /\ new.mandates \in [Mandates -> MandateRecords]
  /\ \A x \in Mandates : x # m => new.mandates[x] = db.mandates[x]
  /\ new.mandates[m].units = row.units + 1 /\ new.mandates[m].spent = row.spent + PriceOf[m] /\ new.mandates[m].funded = row.funded

LEMMA SoldSells ==
  ASSUME NEW db, NEW id \in DOMAIN db.candidates, Typed(db), NEW payout \in {"inference_credit", "token"}
  PROVE  \E new : Sells(new, db, id) /\ Sold(db, id, payout) = Enqueue(new, "SettleLicense", id)
<1> DEFINE m == MandateOf(id)
           row == db.mandates[m]
           record == SoldOneMore(row, m)
           license == [delivery |-> "AVAILABLE", payout |-> payout]
           new == [db EXCEPT !.candidates[id].status = "LICENSED", !.licenses = With(@, id, license),
                             !.mandates[m] = SoldOneMore(@, m)]
<1>1. id \in AllIds /\ m \in Mandates /\ row \in MandateRecords /\ db.candidates[id] \in CandidateRecords /\ DOMAIN db = Fields
  BY DEF Typed, IsTable, AllIds, MandateOf
<1>2. PriceOf[m] \in Nat
  BY <1>1, MandateMarketAssumption
<1>3. record \in MandateRecords /\ record.units = row.units + 1 /\ record.spent = row.spent + PriceOf[m] /\ record.funded = row.funded
  <2> DEFINE status == IF row.units + 1 >= UnitsOf[m] \/ row.funded - row.spent - PriceOf[m] < PriceOf[m] THEN "exhausted" ELSE row.status
  <2> HIDE DEF row
  <2>1. status \in {"none", "draft", "pending_funding", "funded", "active", "paused", "exhausted"}
    BY <1>1 DEF MandateRecords
  <2>2. record = [row EXCEPT !.units = @ + 1, !.spent = @ + PriceOf[m], !.status = status]
    BY DEF SoldOneMore
  <2> HIDE DEF status, record, m
  <2>3. row.units + 1 \in Nat /\ row.spent + PriceOf[m] \in Nat /\ row.funded \in Nat
    BY <1>1, <1>2 DEF MandateRecords
  <2>4. /\ record.units = row.units + 1 /\ record.spent = row.spent + PriceOf[m] /\ record.funded = row.funded
    BY <1>1, <2>2 DEF MandateRecords
  <2>5. record \in MandateRecords
    BY <1>1, <2>1, <2>2, <2>3 DEF MandateRecords
  <2> QED BY <2>4, <2>5
<1>4. license \in LicenseRecords
  BY DEF LicenseRecords
<1>5. Sold(db, id, payout) = Enqueue(new, "SettleLicense", id)
  BY DEF Sold
<1> HIDE DEF license
<1>6. /\ Keeps(new, db, {"candidates", "licenses", "mandates"})
      /\ new.licenses = With(db.licenses, id, license)
      /\ new.mandates = [db.mandates EXCEPT ![m] = record]
      /\ new.candidates = [db.candidates EXCEPT ![id] = [@ EXCEPT !.status = "LICENSED"]]
  BY <1>1 DEF Keeps, Fields
<1> HIDE DEF new, m, record
<1>7. [db.candidates[id] EXCEPT !.status = "LICENSED"] \in CandidateRecords
  BY <1>1 DEF CandidateRecords
<1>8. /\ DOMAIN new.candidates = DOMAIN db.candidates /\ new.candidates[id] \in CandidateRecords
      /\ new.candidates[id].status = "LICENSED"
      /\ \A x \in DOMAIN db.candidates : x # id => new.candidates[x] = db.candidates[x]
  <2>1. new.candidates[id] = [db.candidates[id] EXCEPT !.status = "LICENSED"]
    BY <1>6
  <2>2. new.candidates[id].status = "LICENSED"
    BY <1>1, <2>1 DEF CandidateRecords
  <2> QED BY <1>6, <1>7, <2>1, <2>2
<1>9. /\ DOMAIN new.licenses = DOMAIN db.licenses \cup {id} /\ new.licenses[id] \in LicenseRecords
      /\ \A x \in DOMAIN db.licenses : x # id => new.licenses[x] = db.licenses[x]
  <2>1. Puts(With(db.licenses, id, license), db.licenses, id, license)
    BY WithPuts, Zenon
  <2> QED BY <1>4, <1>6, <2>1 DEF Puts
<1>10. new.mandates \in [Mandates -> MandateRecords] /\ new.mandates[m] = record /\ \A x \in Mandates : x # m => new.mandates[x] = db.mandates[x]
  BY <1>1, <1>3, <1>6 DEF Typed
<1>11. Sells(new, db, id)
  BY <1>3, <1>6, <1>8, <1>9, <1>10 DEF Sells, m, row
<1> QED BY <1>5, <1>11

LEMMA SellsWithinTerms ==
  ASSUME NEW db, NEW kept, Sound(db, kept), NEW id \in DOMAIN db.candidates, Sellable(db, kept, id), NEW new, Sells(new, db, id)
  PROVE  WithinTerms(new) /\ BalancesAreRight(new) /\ id \notin DOMAIN db.licenses
<1> DEFINE m == MandateOf(id)
<1>1. /\ id \in AllIds /\ m \in Mandates /\ TraceOf(id) \in Traces /\ db.mandates[m] \in MandateRecords /\ PriceOf[m] \in Nat
      /\ DOMAIN db.credit \subseteq DOMAIN db.licenses /\ IsFiniteSet(DOMAIN db.licenses)
  BY MandateMarketAssumption DEF Sound, Typed, IsTable, AllIds, MandateOf, TraceOf
<1>2. /\ Keeps(new, db, {"candidates", "licenses", "mandates"})
      /\ DOMAIN new.licenses = DOMAIN db.licenses \cup {id}
      /\ \A x \in Mandates : x # m => new.mandates[x] = db.mandates[x]
      /\ new.mandates[m].units = db.mandates[m].units + 1
      /\ new.mandates[m].spent = db.mandates[m].spent + PriceOf[m] /\ new.mandates[m].funded = db.mandates[m].funded
  BY DEF Sells
<1>3. /\ db.mandates[m].units < UnitsOf[m] /\ db.mandates[m].funded - db.mandates[m].spent >= PriceOf[m]
      /\ \A x \in DOMAIN db.licenses : TraceOf(x) = TraceOf(id) => MandateOf(x) \notin Exclusive /\ m \notin Exclusive
  BY DEF Sellable, Unlocked, LicensesOfTrace
<1>4. id \notin DOMAIN db.licenses
  BY DEF Sellable, Sound, ReleasesAreRight, LicensedStay
<1>5. new.credit = db.credit /\ new.burn = db.burn /\ new.reserved = db.reserved /\ new.book = db.book
  BY <1>2 DEF Keeps, Fields
<1>6. /\ Licensed(new, m) = Licensed(db, m) \cup {id} /\ id \notin Licensed(db, m) /\ IsFiniteSet(Licensed(db, m))
      /\ Licensed(new, m) \ DOMAIN new.credit = (Licensed(db, m) \ DOMAIN db.credit) \cup {id}
      /\ IsFiniteSet(Licensed(db, m) \ DOMAIN db.credit)
      /\ \A x \in Mandates : x # m => Licensed(new, x) = Licensed(db, x)
  <2>1. Licensed(db, m) \subseteq DOMAIN db.licenses /\ Licensed(db, m) \ DOMAIN db.credit \subseteq DOMAIN db.licenses
    BY DEF Licensed
  <2>2. IsFiniteSet(Licensed(db, m)) /\ IsFiniteSet(Licensed(db, m) \ DOMAIN db.credit)
    BY <1>1, <2>1, FS_Subset
  <2>3. DOMAIN new.licenses = DOMAIN db.licenses \cup {id} /\ id \notin DOMAIN db.licenses /\ MandateOf(id) = m
    BY <1>2, <1>4
  <2>4. /\ Licensed(new, m) = Licensed(db, m) \cup {id} /\ id \notin Licensed(db, m)
        /\ \A x \in Mandates : x # m => Licensed(new, x) = Licensed(db, x)
    BY <2>3 DEF Licensed
  <2>5. id \notin DOMAIN db.credit
    BY <1>1, <2>3 DEF Typed, IsTable
  <2>6. Licensed(new, m) \ DOMAIN new.credit = (Licensed(db, m) \ DOMAIN db.credit) \cup {id}
    BY <1>5, <2>4, <2>5
  <2> QED BY <2>2, <2>4, <2>6
<1> DEFINE k == Cardinality(Licensed(db, m))
           u == Cardinality(Licensed(db, m) \ DOMAIN db.credit)
<1>7. /\ Cardinality(Licensed(new, m)) = k + 1 /\ k \in Nat
      /\ Cardinality(Licensed(new, m) \ DOMAIN new.credit) = u + 1 /\ u \in Nat
  <2>1. id \notin Licensed(db, m) \ DOMAIN db.credit
    BY <1>6
  <2>2. Cardinality(Licensed(new, m)) = k + 1 /\ k \in Nat
    BY <1>6, FS_AddElement, FS_CardinalityType, ZenonT(40)
  <2>3. Cardinality(Licensed(new, m) \ DOMAIN new.credit) = u + 1 /\ u \in Nat
    BY <1>6, <2>1, FS_AddElement, FS_CardinalityType, ZenonT(40)
  <2> QED BY <2>2, <2>3
<1>8. /\ (k + 1) * PriceOf[m] = k * PriceOf[m] + PriceOf[m] /\ k * PriceOf[m] \in Int
      /\ (u + 1) * PriceOf[m] = u * PriceOf[m] + PriceOf[m] /\ u * PriceOf[m] \in Int
  <2>1. k \in Int /\ u \in Int /\ PriceOf[m] \in Int
    BY <1>1, <1>7
  <2> QED BY <2>1, OneUnitMore, Zenon
<1>9. WithinTerms(db) /\ BalancesAreRight(db)
  BY DEF Sound, LedgerIsRight
<1>10. /\ db.mandates[m].units = k /\ db.mandates[m].spent = k * PriceOf[m] /\ db.mandates[m].funded <= BudgetOf[m]
  BY <1>1, <1>9 DEF WithinTerms
<1>11. EscrowOf(db, m) = db.mandates[m].funded - db.mandates[m].spent + u * PriceOf[m]
  BY DEF EscrowOf
<1>12. EscrowOf(new, m) = new.mandates[m].funded - new.mandates[m].spent + (u + 1) * PriceOf[m]
  BY <1>7 DEF EscrowOf
<1>13. db.mandates[m].funded \in Nat /\ db.mandates[m].spent \in Nat /\ UnitsOf[m] \in Nat
  BY <1>1, MandateMarketAssumption DEF MandateRecords
<1>14. EscrowOf(new, m) = EscrowOf(db, m)
  <2> DEFINE p == u * PriceOf[m]
             q == (u + 1) * PriceOf[m]
  <2>1. p \in Int /\ q = p + PriceOf[m]
    BY <1>8
  <2> HIDE DEF p, q
  <2>2. EscrowOf(db, m) = db.mandates[m].funded - db.mandates[m].spent + p /\ EscrowOf(new, m) = new.mandates[m].funded - new.mandates[m].spent + q
    BY <1>11, <1>12 DEF p, q
  <2> QED BY <1>1, <1>2, <1>13, <2>1, <2>2
<1>15. \A x \in Mandates : x # m => EscrowOf(new, x) = EscrowOf(db, x)
  BY <1>2, <1>5, <1>6 DEF EscrowOf
<1>16. BalancesAreRight(new)
  BY <1>5, <1>9, <1>14, <1>15 DEF BalancesAreRight, Held, ReservedFor
<1>17. /\ new.mandates[m].units = Cardinality(Licensed(new, m)) /\ new.mandates[m].units <= UnitsOf[m]
       /\ new.mandates[m].spent = new.mandates[m].units * PriceOf[m]
       /\ new.mandates[m].spent <= new.mandates[m].funded /\ new.mandates[m].funded <= BudgetOf[m]
  <2> HIDE DEF k, m
  <2>1. new.mandates[m].spent = (k + 1) * PriceOf[m]
    BY <1>2, <1>8, <1>10
  <2> QED BY <1>1, <1>2, <1>3, <1>7, <1>10, <1>13, <2>1
<1>18. \A x \in Mandates : x # m => LET row == new.mandates[x] IN
         /\ row.units = Cardinality(Licensed(new, x)) /\ row.units <= UnitsOf[x]
         /\ row.spent = row.units * PriceOf[x] /\ row.spent <= row.funded /\ row.funded <= BudgetOf[x]
  BY <1>2, <1>6, <1>9 DEF WithinTerms
<1>19. \A x, other \in DOMAIN new.licenses : TraceOf(x) = TraceOf(other) /\ MandateOf(x) \in Exclusive => x = other
  BY <1>2, <1>3, <1>9 DEF WithinTerms
<1> HIDE DEF m
<1>20. WithinTerms(new)
  BY <1>17, <1>18, <1>19 DEF WithinTerms
<1> QED BY <1>4, <1>16, <1>20

LEMMA SellsIsSound ==
  ASSUME NEW db, NEW kept, Sound(db, kept), NEW id \in DOMAIN db.candidates, Sellable(db, kept, id), NEW new, Sells(new, db, id)
  PROVE  Sound(new, kept)
<1>1. WithinTerms(new) /\ BalancesAreRight(new) /\ id \notin DOMAIN db.licenses
  BY SellsWithinTerms
<1>2. /\ DOMAIN new = Fields
      /\ new.traces = db.traces /\ new.deleted = db.deleted /\ new.policies = db.policies /\ new.outbox = db.outbox
      /\ new.funding = db.funding /\ new.credit = db.credit /\ new.burn = db.burn /\ new.reserved = db.reserved /\ new.book = db.book
  BY DEF Sells, Keeps, Fields
<1>3. /\ DOMAIN new.candidates = DOMAIN db.candidates /\ new.candidates[id] \in CandidateRecords
      /\ new.candidates[id].status = "LICENSED" /\ db.candidates[id].status = "USER_AUTH_PENDING"
      /\ \A x \in DOMAIN db.candidates : x # id => new.candidates[x] = db.candidates[x]
      /\ DOMAIN new.licenses = DOMAIN db.licenses \cup {id} /\ new.licenses[id] \in LicenseRecords
      /\ \A x \in DOMAIN db.licenses : x # id => new.licenses[x] = db.licenses[x]
      /\ new.mandates \in [Mandates -> MandateRecords] /\ Release(id) \in kept
  BY DEF Sells, Sellable
<1>4. Typed(db)
  BY DEF Sound
<1>5. Typed(new)
  <2>1. IsTable(new.candidates, AllIds, CandidateRecords)
    BY <1>3, <1>4 DEF Typed, IsTable
  <2>2. IsTable(new.licenses, DOMAIN new.candidates, LicenseRecords)
    <3>1. IsFiniteSet(DOMAIN db.licenses \cup {id})
      BY <1>4, FS_AddElement DEF Typed, IsTable
    <3> QED BY <1>3, <1>4, <3>1 DEF Typed, IsTable
  <2>3. IsTable(new.credit, DOMAIN new.licenses, CreditRecords)
    BY <1>2, <1>3, <1>4 DEF Typed, IsTable
  <2> QED BY <1>2, <1>3, <1>4, <2>1, <2>2, <2>3 DEF Typed
<1>6. JobsAreSound(new)
  BY <1>2, <1>3, JobsStay DEF Sound
<1>7. ReleasesAreRight(new, kept)
  BY <1>3, <1>4 DEF Sound, ReleasesAreRight, OneCandidate, Current, LicensedStay, ReleasesStay, Typed, IsTable
<1>8. JournalsAreOfRows(new) /\ SharesAreWhole(new)
  BY <1>2 DEF Sound, LedgerIsRight, JournalsAreOfRows, SharesAreWhole, Carried
<1>9. LedgerIsRight(new)
  BY <1>1, <1>2, <1>8 DEF Sound, LedgerIsRight
<1> QED BY <1>1, <1>5, <1>6, <1>7, <1>9 DEF Sound

\* A sale and its settlement to come.
LEMMA SoldIsSound ==
  ASSUME NEW db, NEW kept, Sound(db, kept), NEW id \in DOMAIN db.candidates, Sellable(db, kept, id),
         NEW payout \in {"inference_credit", "token"}
  PROVE  /\ Sound(Sold(db, id, payout), kept)
         /\ \E new : Sells(new, db, id) /\ Queues(Sold(db, id, payout), new, {Job("SettleLicense", id)})
<1>1. PICK new : Sells(new, db, id) /\ Sold(db, id, payout) = Enqueue(new, "SettleLicense", id)
  BY SoldSells DEF Sound
<1>2. Sound(new, kept)
  BY <1>1, SellsIsSound
<1>3. DOMAIN new = Fields /\ new.outbox \in Seq(JobRecords) /\ id \in Names /\ id \in DOMAIN new.licenses
  BY <1>1, <1>2 DEF Sound, Typed, IsTable, Names, Sells
<1>4. Queues(Sold(db, id, payout), new, {Job("SettleLicense", id)})
  BY <1>1, <1>3, EnqueueQueues DEF JobEvents
<1>5. \A job \in {Job("SettleLicense", id)} : JobIsSound(new, job)
  BY <1>3 DEF JobIsSound, Job
<1>6. Sound(Sold(db, id, payout), kept)
  BY <1>2, <1>4, <1>5, QueueKeepsSound
<1> QED BY <1>1, <1>4, <1>6

(***************************************************************************)
(* Matching one trace with a mandate.                                         *)
(***************************************************************************)
IsRun(s) == DOMAIN s = {"db", "vault", "sealed", "ok"}
\* What matching leaves alone, whatever it finds.
Stays(new, db) ==
  /\ new.traces = db.traces /\ new.deleted = db.deleted /\ new.linked = db.linked /\ new.revoked = db.revoked
  /\ new.policies = db.policies /\ new.failed = db.failed /\ new.paused = db.paused
Follows(new, db, m) ==
  /\ Stays(new, db) /\ Range(db.outbox) \subseteq Range(new.outbox)
  /\ \A x \in Mandates : Open(new, x) => Open(db, x)
  /\ DOMAIN db.licenses \subseteq DOMAIN new.licenses
  /\ \A id : MandateOf(id) # m => /\ id \in DOMAIN new.candidates <=> id \in DOMAIN db.candidates
                                  /\ id \in DOMAIN db.candidates => new.candidates[id] = db.candidates[id]
  /\ \A t : ~Waits(db, m, t) => ~Waits(new, m, t)

LEMMA FollowsItself == ASSUME NEW db, NEW m PROVE Follows(db, db, m)
BY DEF Follows, Stays

LEMMA FollowsOn ==
  ASSUME NEW one, NEW two, NEW three, NEW m, Follows(two, one, m), Follows(three, two, m)
  PROVE  Follows(three, one, m)
<1>1. Stays(three, one)
  BY DEF Follows, Stays
<1>2. \A id : MandateOf(id) # m => /\ id \in DOMAIN three.candidates <=> id \in DOMAIN one.candidates
                                   /\ id \in DOMAIN one.candidates => three.candidates[id] = one.candidates[id]
  BY DEF Follows
<1> QED BY <1>1, <1>2 DEF Follows

\* The offers of a pair that are replaced: none of them was sold.
Replaceable(db, m, t) ==
  ~(Existing(db, m, t) # {} /\ \A id \in Existing(db, m, t) :
       db.candidates[id].status # "USER_AUTH_PENDING" \/ id[3] = db.policies[OwnerOf[t]].version)

LEMMA ReplaceableArePending ==
  ASSUME NEW db, OneCandidate(db), NEW m, NEW t, Replaceable(db, m, t)
  PROVE  Waits(db, m, t) /\ \A id \in Existing(db, m, t) : db.candidates[id].status = "USER_AUTH_PENDING"
BY DEF Replaceable, OneCandidate, Waits, Existing, CandidatesOf, Current

\* The candidates of a pair after they were superseded, and after a new offer.
Supersedes(new, db, m, t) ==
  /\ DOMAIN new.candidates = DOMAIN db.candidates
  /\ \A id \in Existing(db, m, t) : new.candidates[id] \in CandidateRecords /\ new.candidates[id].status = "SUPERSEDED"
  /\ \A id \in DOMAIN db.candidates : id \notin Existing(db, m, t) => new.candidates[id] = db.candidates[id]

LEMMA SupersededIsSound ==
  ASSUME NEW db, NEW kept, Sound(db, kept), NEW m \in Mandates, NEW t \in Traces, Replaceable(db, m, t),
         NEW new, Keeps(new, db, {"candidates"}), Supersedes(new, db, m, t)
  PROVE  Sound(new, kept \ {Release(id) : id \in Existing(db, m, t)})
<1> DEFINE left == kept \ {Release(id) : id \in Existing(db, m, t)}
<1>1. Keeps(new, db, {"candidates", "licenses"}) /\ new.licenses = db.licenses
  BY DEF Keeps, Fields
<1>2. Typed(db) /\ OneCandidate(db) /\ LicensedStay(db) /\ ReleasesStay(db, kept)
  BY DEF Sound, ReleasesAreRight
<1>3. \A id \in Existing(db, m, t) : db.candidates[id].status = "USER_AUTH_PENDING"
  BY <1>2, ReplaceableArePending
<1>4. IsTable(new.candidates, AllIds, CandidateRecords)
  BY <1>2 DEF Supersedes, Typed, IsTable
<1>5. OneCandidate(new)
  BY <1>2 DEF Supersedes, OneCandidate, Current
<1>6. LicensedStay(new)
  BY <1>1, <1>2, <1>3 DEF Supersedes, LicensedStay, Typed, IsTable
<1>7. ReleasesStay(new, left)
  <2>1. \A id \in DOMAIN db.licenses : id \notin Existing(db, m, t)
    BY <1>2, <1>3 DEF LicensedStay
  <2>2. \A id, x : Release(id) = Release(x) => id = x
    BY DEF Release
  <2> QED BY <1>1, <1>2, <2>1, <2>2 DEF ReleasesStay
<1> HIDE DEF left
<1>8. Sound(new, left)
  BY <1>1, <1>2, <1>4, <1>5, <1>6, <1>7, CandidatesAreSound DEF Supersedes, ReleasesAreRight, Typed, IsTable
<1> QED BY <1>8 DEF left

LEMMA OfferedIsSound ==
  ASSUME NEW db, NEW kept, Sound(db, kept), NEW id \in AllIds, id \notin DOMAIN db.licenses,
         Existing(db, MandateOf(id), TraceOf(id)) = {},
         NEW new, Keeps(new, db, {"candidates"}), NEW record \in CandidateRecords, Puts(new.candidates, db.candidates, id, record)
  PROVE  Sound(new, kept \cup {Release(id)})
<1> DEFINE more == kept \cup {Release(id)}
<1>1. Keeps(new, db, {"candidates", "licenses"}) /\ new.licenses = db.licenses
  BY DEF Keeps, Fields
<1>2. Typed(db) /\ OneCandidate(db) /\ LicensedStay(db) /\ ReleasesStay(db, kept)
  BY DEF Sound, ReleasesAreRight
<1>3. IsTable(db.candidates, AllIds, CandidateRecords)
  BY <1>2 DEF Typed
<1>4. IsTable(new.candidates, AllIds, CandidateRecords)
  BY <1>3, PutTable
<1>5. OneCandidate(new)
  BY <1>2 DEF Puts, OneCandidate, Current, Existing, CandidatesOf
<1>6. LicensedStay(new) /\ ReleasesStay(new, more)
  BY <1>1, <1>2 DEF Puts, LicensedStay, ReleasesStay, Typed, IsTable
<1> HIDE DEF more
<1>7. ReleasesAreRight(new, more) /\ DOMAIN db.candidates \subseteq DOMAIN new.candidates
  BY <1>5, <1>6 DEF ReleasesAreRight, Puts
<1>8. \A x \in DOMAIN new.licenses : new.licenses[x] \in LicenseRecords
  BY <1>1, <1>2 DEF Typed, IsTable
<1>9. Sound(new, more)
  BY <1>1, <1>4, <1>7, <1>8, CandidatesAreSound
<1> QED BY <1>9 DEF more

LEMMA SupersededFollows ==
  ASSUME NEW db, NEW m, NEW t, Waits(db, m, t), NEW new, Keeps(new, db, {"candidates"}), Supersedes(new, db, m, t)
  PROVE  Follows(new, db, m) /\ Existing(new, m, t) = {}
<1>1. /\ Stays(new, db) /\ new.outbox = db.outbox /\ new.mandates = db.mandates /\ new.licenses = db.licenses
  BY DEF Keeps, Fields, Stays
<1>2. Existing(new, m, t) = {}
  BY DEF Supersedes, Existing, CandidatesOf
<1>3. \A id : MandateOf(id) # m => /\ id \in DOMAIN new.candidates <=> id \in DOMAIN db.candidates
                                   /\ id \in DOMAIN db.candidates => new.candidates[id] = db.candidates[id]
  BY DEF Supersedes, Existing, CandidatesOf
<1>4. ASSUME NEW other, ~Waits(db, m, other) PROVE ~Waits(new, m, other)
  <2>1. other # t
    BY <1>4
  <2>2. \A id \in DOMAIN db.candidates : TraceOf(id) = other => new.candidates[id] = db.candidates[id]
    BY <2>1 DEF Supersedes, Existing, CandidatesOf
  <2>3. Existing(new, m, other) = Existing(db, m, other)
    BY <2>2 DEF Supersedes, Existing, CandidatesOf
  <2>4. \A id \in Existing(db, m, other) : new.candidates[id] = db.candidates[id]
    BY <2>2 DEF Existing, CandidatesOf
  <2> QED BY <1>1, <1>4, <2>3, <2>4 DEF Waits, Stays
<1>5. \A x \in Mandates : Open(new, x) => Open(db, x)
  BY <1>1 DEF Open
<1> QED BY <1>1, <1>2, <1>3, <1>4, <1>5 DEF Follows

LEMMA OfferedFollows ==
  ASSUME NEW db, NEW id \in AllIds, Existing(db, MandateOf(id), TraceOf(id)) = {}, NEW new, Keeps(new, db, {"candidates"}),
         NEW record \in CandidateRecords, Puts(new.candidates, db.candidates, id, record), record.status = "USER_AUTH_PENDING",
         id[3] = db.policies[OwnerOf[TraceOf(id)]].version
  PROVE  Follows(new, db, MandateOf(id)) /\ ~Waits(new, MandateOf(id), TraceOf(id))
<1> DEFINE m == MandateOf(id)
           t == TraceOf(id)
<1>1. /\ Stays(new, db) /\ new.outbox = db.outbox /\ new.mandates = db.mandates /\ new.licenses = db.licenses
  BY DEF Keeps, Fields, Stays
<1>2. \A x : MandateOf(x) # m => /\ x \in DOMAIN new.candidates <=> x \in DOMAIN db.candidates
                                 /\ x \in DOMAIN db.candidates => new.candidates[x] = db.candidates[x]
  BY DEF Puts
<1>3. id \in Existing(new, m, t) /\ id[3] = new.policies[OwnerOf[t]].version
  BY <1>1 DEF Puts, Existing, CandidatesOf, Stays
<1>4. ASSUME NEW other, ~Waits(db, m, other) PROVE ~Waits(new, m, other)
  <2>1. other # t
    BY <1>4 DEF Waits
  <2>2. Existing(new, m, other) = Existing(db, m, other)
    BY <2>1 DEF Puts, Existing, CandidatesOf
  <2>3. \A x \in Existing(db, m, other) : new.candidates[x] = db.candidates[x]
    BY <2>1 DEF Puts, Existing, CandidatesOf
  <2> QED BY <1>1, <1>4, <2>2, <2>3 DEF Waits, Stays
<1>5. \A x \in Mandates : Open(new, x) => Open(db, x)
  BY <1>1 DEF Open
<1>6. ~Waits(new, m, t)
  BY <1>3 DEF Waits
<1> HIDE DEF m, t
<1>7. Follows(new, db, m)
  BY <1>1, <1>2, <1>4, <1>5 DEF Follows
<1> QED BY <1>6, <1>7 DEF m, t

LEMMA SoldFollows ==
  ASSUME NEW db, NEW kept, Typed(db), NEW id \in DOMAIN db.candidates, Sellable(db, kept, id), NEW new, Sells(new, db, id),
         NEW after, NEW jobs, Queues(after, new, jobs)
  PROVE  Follows(after, db, MandateOf(id)) /\ ~Waits(after, MandateOf(id), TraceOf(id))
<1> DEFINE m == MandateOf(id)
           t == TraceOf(id)
<1>1. /\ after.traces = db.traces /\ after.deleted = db.deleted /\ after.linked = db.linked /\ after.revoked = db.revoked
      /\ after.policies = db.policies /\ after.failed = db.failed /\ after.paused = db.paused
      /\ after.mandates = new.mandates /\ after.licenses = new.licenses /\ after.candidates = new.candidates
      /\ Range(db.outbox) \subseteq Range(after.outbox)
  BY DEF Sells, Queues, Keeps, Fields
<1>2. /\ DOMAIN new.candidates = DOMAIN db.candidates /\ new.candidates[id].status = "LICENSED"
      /\ \A x \in DOMAIN db.candidates : x # id => new.candidates[x] = db.candidates[x]
      /\ DOMAIN db.licenses \subseteq DOMAIN new.licenses
      /\ \A x \in Mandates : x # m => new.mandates[x] = db.mandates[x]
  BY DEF Sells
<1>3. Open(db, m)
  BY DEF Sellable
<1>4. \A x \in Mandates : Open(after, x) => Open(db, x)
  BY <1>1, <1>2, <1>3 DEF Open
<1>5. id \in Existing(after, m, t) /\ after.candidates[id].status = "LICENSED"
  BY <1>1, <1>2 DEF Existing, CandidatesOf
<1>6. ~Waits(after, m, t)
  BY <1>5 DEF Waits
<1>7. ASSUME NEW other, other # t, ~Waits(db, m, other) PROVE ~Waits(after, m, other)
  <2>1. Existing(after, m, other) = Existing(db, m, other)
    BY <1>1, <1>2, <1>7 DEF Existing, CandidatesOf
  <2>2. \A x \in Existing(db, m, other) : after.candidates[x] = db.candidates[x]
    BY <1>1, <1>2, <1>7 DEF Existing, CandidatesOf
  <2> QED BY <1>1, <1>7, <2>1, <2>2 DEF Waits
<1>8. \A x : MandateOf(x) # m => /\ x \in DOMAIN after.candidates <=> x \in DOMAIN db.candidates
                                 /\ x \in DOMAIN db.candidates => after.candidates[x] = db.candidates[x]
  BY <1>1, <1>2
<1> HIDE DEF m, t
<1>9. Follows(after, db, m)
  BY <1>1, <1>2, <1>4, <1>6, <1>7, <1>8 DEF Follows, Stays
<1> QED BY <1>6, <1>9 DEF m, t

\* A transaction under way, and what matching makes of it.
Matches(r, s, m) == IsRun(r) /\ Sound(r.db, r.vault) /\ Follows(r.db, s.db, m)

LEMMA MatchTraceMatches ==
  ASSUME NEW s, IsRun(s), Sound(s.db, s.vault), NEW m \in Mandates, NEW t \in Traces
  PROVE  LET r == MatchTrace(s, m, t) IN
         Matches(r, s, m) /\ (r.ok /\ Matchable(s.db, m, t) => ~Waits(r.db, m, t))
<1> DEFINE policy == s.db.policies[OwnerOf[t]]
           existing == Existing(s.db, m, t)
           settled == existing # {} /\ \A x \in existing : s.db.candidates[x].status # "USER_AUTH_PENDING" \/ x[3] = policy.version
           renewed == [s EXCEPT !.db.candidates = Marked(@, existing, "SUPERSEDED"),
                                !.vault = @ \ {Release(x) : x \in existing}]
           id == <<m, t, policy.version>>
           record == [status |-> "USER_AUTH_PENDING", evidence |-> EvidenceOf(s.db, t)]
           found == [renewed EXCEPT !.db.candidates = With(@, id, record),
                                    !.vault = @ \cup {Release(id)}, !.sealed = @ \cup {id}]
           sold == [found EXCEPT !.db = Sold(@, id, "inference_credit")]
           stopped == [found EXCEPT !.ok = FALSE]
           r == MatchTrace(s, m, t)
<1>1. r = IF ~Alive(s.db, t) \/ ~Allows(s.db, m, t) \/ settled THEN s
          ELSE IF m \in NeedsEvidence /\ ~EvidenceOf(s.db, t) THEN renewed
          ELSE IF ~policy.standing THEN found
          ELSE IF Sellable(found.db, found.vault, id) THEN sold
          ELSE stopped
  BY DEF MatchTrace
<1>2. Typed(s.db) /\ OneCandidate(s.db) /\ DOMAIN s.db = Fields /\ DOMAIN s = {"db", "vault", "sealed", "ok"}
  BY DEF IsRun, Sound, ReleasesAreRight, Typed
<1>3. CASE ~Alive(s.db, t) \/ ~Allows(s.db, m, t) \/ settled
  <2>1. r = s
    BY <1>1, <1>3, Zenon
  <2>2. settled => ~Waits(s.db, m, t)
    BY <1>2 DEF Waits
  <2>3. Matchable(s.db, m, t) => settled
    BY <1>3 DEF Matchable
  <2> QED BY <2>1, <2>2, <2>3, FollowsItself DEF Matches
<1>4. CASE ~(~Alive(s.db, t) \/ ~Allows(s.db, m, t) \/ settled)
  <2>1. Replaceable(s.db, m, t)
    BY <1>4 DEF Replaceable
  <2>2. Waits(s.db, m, t) /\ \A x \in existing : s.db.candidates[x].status = "USER_AUTH_PENDING"
    BY <1>2, <2>1, ReplaceableArePending
  <2>3. /\ IsRun(renewed) /\ Keeps(renewed.db, s.db, {"candidates"})
        /\ renewed.db.candidates = Marked(s.db.candidates, existing, "SUPERSEDED")
        /\ renewed.vault = s.vault \ {Release(x) : x \in existing} /\ renewed.ok = s.ok
    BY <1>2 DEF IsRun, Keeps, Fields
  <2>4. Supersedes(renewed.db, s.db, m, t)
    <3>1. existing \subseteq DOMAIN s.db.candidates /\ \A x \in existing : s.db.candidates[x] \in CandidateRecords
      BY <1>2 DEF Existing, CandidatesOf, Typed, IsTable
    <3> HIDE DEF renewed
    <3> QED BY <2>3, <3>1 DEF Supersedes, Marked, CandidateRecords
  <2>5. Sound(renewed.db, renewed.vault)
    <3> HIDE DEF renewed
    <3> QED BY <2>1, <2>3, <2>4, SupersededIsSound
  <2>6. Follows(renewed.db, s.db, m) /\ Existing(renewed.db, m, t) = {}
    <3> HIDE DEF renewed
    <3> QED BY <2>2, <2>3, <2>4, SupersededFollows
  <2>7. policy \in OwnerPolicies /\ policy.version \in Nat /\ EvidenceOf(s.db, t) \in BOOLEAN
    <3>1. OwnerOf[t] \in Owners
      BY DEF Owners
    <3> QED BY <1>2, <3>1 DEF Typed, OwnerPolicies, EvidenceOf
  <2>8. id \in AllIds /\ MandateOf(id) = m /\ TraceOf(id) = t /\ id[3] = policy.version
    BY <2>7 DEF AllIds, MandateOf, TraceOf
  <2>9. record \in CandidateRecords /\ record.status = "USER_AUTH_PENDING"
    BY <2>7 DEF CandidateRecords
  <2>10. id \notin DOMAIN renewed.db.licenses
    <3>1. renewed.db.licenses = s.db.licenses
      BY <2>3 DEF Keeps, Fields
    <3>2. LicensedStay(s.db)
      BY DEF Sound, ReleasesAreRight
    <3>3. ASSUME id \in DOMAIN s.db.licenses PROVE FALSE
      <4>1. s.db.candidates[id].status = "LICENSED" /\ id \in DOMAIN s.db.candidates
        BY <1>2, <3>2, <3>3 DEF LicensedStay, Typed, IsTable
      <4>2. id \in existing
        BY <2>8, <4>1 DEF Existing, CandidatesOf
      <4> QED BY <2>2, <4>1, <4>2
    <3> QED BY <3>1, <3>3
  <2>11. renewed.db.policies = s.db.policies /\ DOMAIN renewed.db = Fields /\ DOMAIN renewed = {"db", "vault", "sealed", "ok"}
    BY <2>3 DEF Keeps, Fields, IsRun
  <2>12. /\ IsRun(found) /\ Keeps(found.db, renewed.db, {"candidates"})
         /\ found.db.candidates = With(renewed.db.candidates, id, record)
         /\ found.vault = renewed.vault \cup {Release(id)} /\ found.ok = s.ok
    <3> HIDE DEF renewed, id, record
    <3> QED BY <2>3, <2>11 DEF IsRun, Keeps, Fields
  <2> HIDE DEF renewed, id, record, policy, settled
  <2>13. Puts(found.db.candidates, renewed.db.candidates, id, record)
    <3> HIDE DEF found
    <3>1. Puts(With(renewed.db.candidates, id, record), renewed.db.candidates, id, record)
      BY WithPuts, Zenon
    <3> QED BY <2>12, <3>1
  <2> HIDE DEF found
  <2>14. Sound(found.db, found.vault)
    BY <2>5, <2>6, <2>8, <2>9, <2>10, <2>12, <2>13, OfferedIsSound
  <2>15. Follows(found.db, renewed.db, m) /\ ~Waits(found.db, m, t)
    BY <2>6, <2>8, <2>9, <2>11, <2>12, <2>13, OfferedFollows DEF policy
  <2>16. Follows(found.db, s.db, m)
    BY <2>6, <2>15, FollowsOn
  <2>17. CASE m \in NeedsEvidence /\ ~EvidenceOf(s.db, t)
    <3>1. r = renewed
      BY <1>1, <1>4, <2>17
    <3>2. ~Matchable(s.db, m, t)
      BY <2>17 DEF Matchable
    <3> QED BY <2>3, <2>5, <2>6, <3>1, <3>2 DEF Matches
  <2>18. CASE ~(m \in NeedsEvidence /\ ~EvidenceOf(s.db, t)) /\ ~policy.standing
    <3>1. r = found
      BY <1>1, <1>4, <2>18
    <3> QED BY <2>12, <2>14, <2>15, <2>16, <3>1 DEF Matches
  <2>19. CASE ~(m \in NeedsEvidence /\ ~EvidenceOf(s.db, t)) /\ policy.standing /\ Sellable(found.db, found.vault, id)
    <3>1. r = sold
      BY <1>1, <1>4, <2>19
    <3>2. IsRun(sold) /\ sold.db = Sold(found.db, id, "inference_credit") /\ sold.vault = found.vault
      BY <2>12 DEF IsRun
    <3> HIDE DEF sold
    <3>3. id \in DOMAIN found.db.candidates
      BY <2>13 DEF Puts
    <3>4. /\ Sound(sold.db, sold.vault)
          /\ \E new : Sells(new, found.db, id) /\ Queues(sold.db, new, {Job("SettleLicense", id)})
      BY <2>14, <2>19, <3>2, <3>3, SoldIsSound
    <3>5. Follows(sold.db, found.db, m) /\ ~Waits(sold.db, m, t)
      <4>1. Typed(found.db)
        BY <2>14 DEF Sound
      <4>2. PICK new : Sells(new, found.db, id) /\ Queues(sold.db, new, {Job("SettleLicense", id)})
        BY <3>4
      <4> QED BY <2>8, <2>19, <3>3, <4>1, <4>2, SoldFollows
    <3>6. Follows(sold.db, s.db, m)
      BY <2>16, <3>5, FollowsOn
    <3> QED BY <3>1, <3>2, <3>4, <3>5, <3>6 DEF Matches
  <2>20. CASE ~(m \in NeedsEvidence /\ ~EvidenceOf(s.db, t)) /\ policy.standing /\ ~Sellable(found.db, found.vault, id)
    <3>1. r = stopped
      BY <1>1, <1>4, <2>20
    <3>2. IsRun(stopped) /\ stopped.db = found.db /\ stopped.vault = found.vault
      BY <2>12 DEF IsRun
    <3> HIDE DEF stopped
    <3> QED BY <2>14, <2>15, <2>16, <3>1, <3>2 DEF Matches
  <2> HIDE DEF r
  <2> QED BY <2>17, <2>18, <2>19, <2>20
<1> QED BY <1>3, <1>4

(***************************************************************************)
(* Matching all traces with a mandate, one after the other.                   *)
(***************************************************************************)
NextMatch(up, n, s, m) ==
  IF n = 0 THEN s ELSE IF up[n - 1].ok THEN MatchTrace(up[n - 1], m, s.db.traces[n]) ELSE up[n - 1]
Walk(s, m) == CHOOSE up : up = [n \in 0..Len(s.db.traces) |-> NextMatch(up, n, s, m)]

LEMMA WalkGoesOn ==
  ASSUME NEW s, NEW m, Len(s.db.traces) \in Nat
  PROVE  /\ Walk(s, m)[0] = s
         /\ \A n \in Nat : n + 1 <= Len(s.db.traces) => Walk(s, m)[n + 1] = NextMatch(Walk(s, m), n + 1, s, m)
<1> DEFINE A == {n \in Nat : \E g : g = [i \in 0..n |-> NextMatch(g, i, s, m)]}
<1>1. 0 \in A
  <2> DEFINE g == [i \in 0..0 |-> s]
  <2>1. g = [i \in 0..0 |-> NextMatch(g, i, s, m)]
    BY DEF NextMatch
  <2> QED BY <2>1
<1>2. ASSUME NEW n \in A PROVE n + 1 \in A
  <2>1. PICK g : g = [i \in 0..n |-> NextMatch(g, i, s, m)]
    BY <1>2
  <2> DEFINE h == [i \in 0..n + 1 |-> NextMatch(g, i, s, m)]
  <2>2. \A i \in 0..n : i \in 0..n + 1 /\ h[i] = g[i]
    <3>1. \A i \in 0..n : i \in 0..n + 1
      OBVIOUS
    <3>2. \A i \in 0..n : g[i] = NextMatch(g, i, s, m)
      BY <2>1
    <3> QED BY <3>1, <3>2
  <2>3. \A i \in 0..n + 1 : NextMatch(g, i, s, m) = NextMatch(h, i, s, m)
    <3> HIDE DEF h
    <3>1. \A i \in 0..n + 1 : i # 0 => i - 1 \in 0..n
      OBVIOUS
    <3> QED BY <2>2, <3>1 DEF NextMatch
  <2>4. h = [i \in 0..n + 1 |-> NextMatch(h, i, s, m)]
    <3>1. h = [i \in 0..n + 1 |-> NextMatch(g, i, s, m)]
      OBVIOUS
    <3> HIDE DEF h
    <3> QED BY <2>3, <3>1
  <2>5. \E k : k = [i \in 0..n + 1 |-> NextMatch(k, i, s, m)]
    BY <2>4
  <2> QED BY <2>5
<1>3. A = Nat
  <2>1. A \in SUBSET Nat /\ \A n \in A : n + 1 \in A
    BY <1>2
  <2> HIDE DEF A
  <2> QED BY <1>1, <2>1, NumberInduction
<1>4. \E g : g = [i \in 0..Len(s.db.traces) |-> NextMatch(g, i, s, m)]
  BY <1>3
<1>5. Walk(s, m) = [i \in 0..Len(s.db.traces) |-> NextMatch(Walk(s, m), i, s, m)]
  BY <1>4 DEF Walk
<1> QED BY <1>5 DEF NextMatch

LEMMA MatchMandateWalks ==
  ASSUME NEW s, NEW m, ~("sales" \in s.db.paused \/ ~Open(s.db, m))
  PROVE  MatchMandate(s, m) = Walk(s, m)[Len(s.db.traces)]
BY DEF MatchMandate, Walk, NextMatch

LEMMA MatchMandateMatches ==
  ASSUME CaseIsChosen, NEW s, IsRun(s), Sound(s.db, s.vault), NEW m \in Mandates
  PROVE  LET r == MatchMandate(s, m) IN
         /\ Matches(r, s, m)
         /\ r.ok /\ "sales" \notin s.db.paused /\ Open(s.db, m) =>
              \A t \in Range(s.db.traces) : Matchable(s.db, m, t) => ~Waits(r.db, m, t)
<1> DEFINE r == MatchMandate(s, m)
           traces == s.db.traces
           up == Walk(s, m)
           done(n) == \A i \in DOMAIN traces : i <= n /\ Matchable(s.db, m, traces[i]) => ~Waits(up[n].db, m, traces[i])
           A == {n \in Nat : n <= Len(traces) => Matches(up[n], s, m) /\ (up[n].ok => done(n))}
<1>1. CASE "sales" \in s.db.paused \/ ~Open(s.db, m)
  <2>1. r = s
    BY <1>1 DEF MatchMandate
  <2> QED BY <1>1, <2>1, FollowsItself DEF Matches
<1>2. CASE ~("sales" \in s.db.paused \/ ~Open(s.db, m))
  <2>1. r = up[Len(traces)]
    BY <1>2, MatchMandateWalks
  <2>2. /\ Len(traces) \in Nat /\ DOMAIN traces = 1..Len(traces) /\ \A i \in DOMAIN traces : traces[i] \in Traces
    BY CaseAssumption, LenProperties, ElementOfSeq DEF Sound, Typed, CaseIsChosen
  <2>3. /\ up[0] = s
        /\ \A n \in Nat : n + 1 <= Len(traces) => up[n + 1] = NextMatch(up, n + 1, s, m)
    BY <2>2, WalkGoesOn
  <2> HIDE DEF up, r
  <2>4. 0 \in A
    <3>1. Matches(up[0], s, m)
      BY <2>3, FollowsItself DEF Matches
    <3> QED BY <2>2, <3>1
  <2>5. ASSUME NEW n \in A PROVE n + 1 \in A
    <3>1. SUFFICES ASSUME n + 1 <= Len(traces) PROVE Matches(up[n + 1], s, m) /\ (up[n + 1].ok => done(n + 1))
      OBVIOUS
    <3>2. n \in Nat /\ Matches(up[n], s, m) /\ (up[n].ok => done(n)) /\ n + 1 \in DOMAIN traces /\ traces[n + 1] \in Traces
      BY <2>2, <3>1
    <3>3. up[n + 1] = IF up[n].ok THEN MatchTrace(up[n], m, traces[n + 1]) ELSE up[n]
      BY <2>3, <3>1, <3>2 DEF NextMatch
    <3>4. CASE ~up[n].ok
      BY <3>2, <3>3, <3>4
    <3>5. CASE up[n].ok
      <4>1. up[n + 1] = MatchTrace(up[n], m, traces[n + 1]) /\ IsRun(up[n]) /\ Sound(up[n].db, up[n].vault)
        BY <3>2, <3>3, <3>5 DEF Matches
      <4>2. /\ Matches(up[n + 1], up[n], m)
            /\ up[n + 1].ok /\ Matchable(up[n].db, m, traces[n + 1]) => ~Waits(up[n + 1].db, m, traces[n + 1])
        BY <3>2, <4>1, MatchTraceMatches
      <4>3. Matches(up[n + 1], s, m)
        BY <3>2, <4>2, FollowsOn, SMTT(30) DEF Matches
      <4>4. \A t : Matchable(s.db, m, t) => Matchable(up[n].db, m, t)
        BY <3>2 DEF Matches, Follows, Stays, Matchable, Alive, Allows, EvidenceOf
      <4>5. \A t : ~Waits(up[n].db, m, t) => ~Waits(up[n + 1].db, m, t)
        BY <4>2 DEF Matches, Follows
      <4>6. ASSUME up[n + 1].ok, NEW i \in DOMAIN traces, i <= n + 1, Matchable(s.db, m, traces[i])
            PROVE  ~Waits(up[n + 1].db, m, traces[i])
        <5>1. CASE i = n + 1
          BY <4>2, <4>4, <4>6, <5>1
        <5>2. CASE i # n + 1
          <6>1. i <= n
            BY <2>2, <3>2, <4>6, <5>2
          <6>2. ~Waits(up[n].db, m, traces[i])
            BY <3>2, <3>5, <4>6, <6>1
          <6> QED BY <4>5, <6>2
        <5> QED BY <5>1, <5>2
      <4> QED BY <4>3, <4>6
    <3> QED BY <3>4, <3>5
  <2>6. A = Nat
    <3>1. A \in SUBSET Nat /\ \A n \in A : n + 1 \in A
      BY <2>5
    <3> HIDE DEF A
    <3> QED BY <2>4, <3>1, NumberInduction
  <2>7. Matches(r, s, m) /\ (r.ok => done(Len(traces)))
    <3>1. Len(traces) \in A
      BY <2>2, <2>6
    <3> QED BY <2>1, <2>2, <3>1
  <2>8. ASSUME r.ok, NEW t \in Range(traces), Matchable(s.db, m, t) PROVE ~Waits(r.db, m, t)
    <3>1. PICK i \in DOMAIN traces : t = traces[i]
      BY DEF Range
    <3>2. i <= Len(traces)
      BY <2>2
    <3> QED BY <2>1, <2>7, <2>8, <3>1, <3>2
  <2> QED BY <2>7, <2>8 DEF r
<1> QED BY <1>1, <1>2

(***************************************************************************)
(* The ledger of the market.                                                 *)
(***************************************************************************)
\* A journal that moves an amount, as what the accounts owe afterwards.
MovesOwed(new, book, reference, from, to, amount) ==
  /\ IsBook(new) /\ DOMAIN new = DOMAIN book \cup {reference}
  /\ \A name, owner : Owed(new, name, owner) = Owed(book, name, owner)
       + (IF <<name, owner>> = from THEN 0 - amount ELSE IF <<name, owner>> = to THEN amount ELSE 0)

LEMMA OwedType == ASSUME NEW book, IsBook(book) PROVE \A name, owner : Owed(book, name, owner) \in Int
BY BalanceType DEF Owed

LEMMA JournalMovesOwed ==
  ASSUME NEW book, IsBook(book), NEW reference, reference \notin DOMAIN book, NEW from, NEW to, from # to, NEW amount \in Int
  PROVE  MovesOwed(postJournal(book, reference, Move(from, Into(to, amount))), book, reference, from, to, amount)
<1> DEFINE new == postJournal(book, reference, Move(from, Into(to, amount)))
<1>1. Shifts(new, book, reference, from, to, amount)
  BY PostedIntoOne, Zenon
<1> HIDE DEF new
<1>2. \A name, owner : /\ accountBalance(book, <<name, owner>>) \in Int
                       /\ accountBalance(new, <<name, owner>>) = accountBalance(book, <<name, owner>>)
                            + (IF <<name, owner>> = from THEN amount ELSE IF <<name, owner>> = to THEN 0 - amount ELSE 0)
  BY <1>1, BalanceType DEF Shifts
<1>3. MovesOwed(new, book, reference, from, to, amount)
  BY <1>1, <1>2 DEF MovesOwed, Shifts, Owed
<1> QED BY <1>3 DEF new

LEMMA FundingIsSound ==
  ASSUME NEW db, NEW kept, Sound(db, kept), NEW m \in Mandates, NEW reference, reference \notin db.funding, NEW amount \in Nat,
         db.mandates[m].funded + amount <= BudgetOf[m]
  PROVE  Sound(RecordFunding(db, m, reference, amount), kept)
<1> DEFINE row == db.mandates[m]
           record == FundedMore(row, amount)
           new == RecordFunding(db, m, reference, amount)
<1>1. /\ Typed(db) /\ DOMAIN db = Fields /\ row \in MandateRecords /\ row.funded \in Nat /\ row.spent \in Nat
      /\ IsBook(db.book) /\ JournalsAreOfRows(db)
      /\ WithinTerms(db) /\ BalancesAreRight(db) /\ SharesAreWhole(db)
  BY DEF Sound, Typed, MandateRecords, LedgerIsRight
<1>2. <<"fund", reference>> \notin DOMAIN db.book
  BY <1>1 DEF JournalsAreOfRows
<1>3. new = [db EXCEPT !.funding = @ \cup {reference}, !.book = FundingJournal(db, m, reference, amount),
                       !.mandates[m] = FundedMore(@, amount)]
  BY DEF RecordFunding
<1>4. /\ Keeps(new, db, {"funding", "book", "mandates"}) /\ new.funding = db.funding \cup {reference}
      /\ new.book = FundingJournal(db, m, reference, amount)
      /\ new.mandates = [db.mandates EXCEPT ![m] = record]
  BY <1>1, <1>3 DEF Keeps, Fields
<1>5. record \in MandateRecords /\ record.funded = row.funded + amount /\ record.spent = row.spent /\ record.units = row.units
  <2> HIDE DEF row
  <2>1. row.funded + amount \in Nat
    BY <1>1
  <2>2. record.funded = row.funded + amount /\ record.spent = row.spent /\ record.units = row.units
    BY <1>1 DEF MandateRecords, FundedMore
  <2>3. record \in MandateRecords
    BY <1>1, <2>1 DEF MandateRecords, FundedMore
  <2> QED BY <2>2, <2>3
<1>6. MovesOwed(new.book, db.book, <<"fund", reference>>, Cash, <<Escrow, m>>, amount)
  <2>1. Cash # <<Escrow, m>>
    BY DEF Cash, Escrow
  <2>2. new.book = postJournal(db.book, <<"fund", reference>>, Move(Cash, Into(<<Escrow, m>>, amount)))
    BY <1>4 DEF FundingJournal
  <2> QED BY <1>1, <1>2, <2>1, <2>2, JournalMovesOwed
<1> HIDE DEF new, record
<1>7. /\ new.traces = db.traces /\ new.deleted = db.deleted /\ new.policies = db.policies /\ new.outbox = db.outbox
      /\ new.candidates = db.candidates /\ new.licenses = db.licenses /\ new.credit = db.credit
      /\ new.burn = db.burn /\ new.reserved = db.reserved /\ DOMAIN new = Fields
  BY <1>4 DEF Keeps, Fields
<1>8. new.mandates \in [Mandates -> MandateRecords] /\ new.mandates[m] = record /\ \A x \in Mandates : x # m => new.mandates[x] = db.mandates[x]
  BY <1>1, <1>4, <1>5 DEF Typed
<1>9. Typed(new)
  BY <1>1, <1>7, <1>8 DEF Typed
<1>10. JobsAreSound(new)
  BY <1>7, JobsStay DEF Sound
<1>11. ReleasesAreRight(new, kept)
  BY <1>7 DEF Sound, ReleasesAreRight, OneCandidate, Current, LicensedStay, ReleasesStay
<1>12. \A x \in Mandates : Licensed(new, x) = Licensed(db, x)
  BY <1>7 DEF Licensed
<1>13. WithinTerms(new)
  BY <1>1, <1>5, <1>7, <1>8, <1>12 DEF WithinTerms
<1>14. EscrowOf(new, m) = EscrowOf(db, m) + amount /\ \A x \in Mandates : x # m => EscrowOf(new, x) = EscrowOf(db, x)
  <2> DEFINE p == Cardinality(Licensed(db, m) \ DOMAIN db.credit) * PriceOf[m]
  <2>1. p \in Int
    <3>1. IsFiniteSet(Licensed(db, m) \ DOMAIN db.credit)
      BY <1>1, FS_Subset DEF Licensed, Typed, IsTable
    <3>2. Cardinality(Licensed(db, m) \ DOMAIN db.credit) \in Int /\ PriceOf[m] \in Int
      BY <3>1, FS_CardinalityType, MandateMarketAssumption
    <3> QED BY <3>2, OneUnitMore, Zenon
  <2>2. EscrowOf(db, m) = row.funded - row.spent + p /\ EscrowOf(new, m) = record.funded - record.spent + p
    BY <1>7, <1>8, <1>12 DEF EscrowOf
  <2> HIDE DEF p, row
  <2>3. EscrowOf(new, m) = EscrowOf(db, m) + amount
    BY <1>1, <1>5, <2>1, <2>2
  <2> QED BY <1>7, <1>8, <1>12, <2>3 DEF EscrowOf
<1>15. JournalsAreOfRows(new) /\ SharesAreWhole(new)
  BY <1>1, <1>4, <1>6, <1>7 DEF MovesOwed, JournalsAreOfRows, SharesAreWhole, Carried, Disposition
<1>16. BalancesAreRight(new)
  <2>1. \A name, owner : /\ Owed(db.book, name, owner) \in Int
                         /\ Owed(new.book, name, owner) = Owed(db.book, name, owner)
                              + (IF <<name, owner>> = Cash THEN 0 - amount ELSE IF <<name, owner>> = <<Escrow, m>> THEN amount ELSE 0)
    BY <1>1, <1>6, OwedType DEF MovesOwed
  <2>2. /\ Owed(new.book, Escrow, m) = Owed(db.book, Escrow, m) + amount
        /\ \A x : x # m => Owed(new.book, Escrow, x) = Owed(db.book, Escrow, x)
    BY <2>1 DEF Escrow, Cash
  <2>3. \A name \in {Unallocated, Credit, TokenPending, BurnPending, Reserved} : \A x :
          Owed(new.book, name, x) = Owed(db.book, name, x)
    BY <2>1 DEF Escrow, Cash, Unallocated, Credit, TokenPending, BurnPending, Reserved
  <2> QED BY <1>1, <1>7, <1>14, <2>2, <2>3 DEF BalancesAreRight, Held, ReservedFor
<1>17. LedgerIsRight(new)
  BY <1>6, <1>15, <1>16 DEF LedgerIsRight, MovesOwed
<1>18. Sound(new, kept)
  BY <1>9, <1>10, <1>11, <1>13, <1>17 DEF Sound
<1> QED BY <1>18 DEF new

LEMMA MoneyRowsAreSound ==
  ASSUME NEW db, NEW kept, Sound(db, kept), NEW new, Keeps(new, db, {"book", "credit", "burn", "reserved"}),
         IsTable(new.credit, DOMAIN db.licenses, CreditRecords), IsTable(new.burn, DOMAIN new.credit, BurnStates),
         DOMAIN new.burn = DOMAIN new.credit, new.reserved \in Seq(ReservationRecords), LedgerIsRight(new)
  PROVE  Sound(new, kept)
<1>1. DOMAIN new = Fields
  BY DEF Keeps
<1>2. /\ new.traces = db.traces /\ new.deleted = db.deleted /\ new.policies = db.policies /\ new.outbox = db.outbox
      /\ new.mandates = db.mandates /\ new.candidates = db.candidates /\ new.licenses = db.licenses
  BY DEF Keeps, Fields
<1>3. Typed(new)
  BY <1>1, <1>2 DEF Sound, Typed
<1>4. JobsAreSound(new)
  BY <1>2, JobsStay DEF Sound
<1>5. ReleasesAreRight(new, kept)
  BY <1>2 DEF Sound, ReleasesAreRight, OneCandidate, Current, LicensedStay, ReleasesStay
<1>6. WithinTerms(new)
  BY <1>2, TermsKept DEF Sound
<1> QED BY <1>3, <1>4, <1>5, <1>6 DEF Sound

LEMMA SharesSplit ==
  ASSUME NEW id \in AllIds
  PROVE  /\ Share(id).contributor \in Nat /\ Share(id).burn \in Nat /\ Share(id).operator \in Int
         /\ Share(id).contributor + Share(id).burn + Share(id).operator = PriceOf[MandateOf(id)]
<1> DEFINE g == PriceOf[MandateOf(id)]
<1>1. g \in Nat
  BY MandateMarketAssumption DEF AllIds, MandateOf
<1>2. /\ Share(id).contributor = (g * 65) \div 100 /\ Share(id).burn = (g * 20) \div 100
      /\ Share(id).operator = g - (g * 65) \div 100 - (g * 20) \div 100
  BY DEF Share, splitSale
<1> HIDE DEF g
<1>3. (g * 65) \div 100 \in Nat /\ (g * 20) \div 100 \in Nat
  BY <1>1
<1> DEFINE c == (g * 65) \div 100
           b == (g * 20) \div 100
<1>4. c \in Nat /\ b \in Nat /\ Share(id).contributor = c /\ Share(id).burn = b /\ Share(id).operator = g - c - b
  BY <1>2, <1>3
<1> HIDE DEF c, b
<1>5. Share(id).contributor + Share(id).burn + Share(id).operator = g
  BY <1>1, <1>4
<1> QED BY <1>1, <1>4, <1>5 DEF g

LEMMA ChoiceIsSound ==
  ASSUME NEW db, NEW kept, Sound(db, kept), NEW id \in DOMAIN db.credit, db.credit[id].disposition = "pending",
         NEW disposition \in {"inference_credit", "token"}
  PROVE  Sound(ChooseIn(db, id, disposition), kept)
<1> DEFINE amount == Share(id).contributor
           account == IF disposition = "token" THEN TokenPending ELSE Credit
           e == db.credit[id]
           record == ChosenFor(e, disposition)
           new == ChooseIn(db, id, disposition)
<1>1. /\ Typed(db) /\ DOMAIN db = Fields /\ IsTable(db.credit, DOMAIN db.licenses, CreditRecords) /\ e \in CreditRecords
      /\ IsBook(db.book) /\ JournalsAreOfRows(db) /\ BalancesAreRight(db) /\ SharesAreWhole(db)
  BY DEF Sound, Typed, LedgerIsRight, IsTable
<1>2. id \in AllIds /\ amount \in Nat /\ e.available = amount /\ e.status = "AVAILABLE"
  <2>1. id \in AllIds
    BY <1>1 DEF Typed, IsTable
  <2>2. e.available = amount /\ e.status = "AVAILABLE"
    BY <1>1 DEF SharesAreWhole
  <2> QED BY <2>1, <2>2, SharesSplit
<1>3. <<"choose", id>> \notin DOMAIN db.book
  BY <1>1 DEF JournalsAreOfRows
<1>4. /\ Keeps(new, db, {"book", "credit"})
      /\ new.book = postJournal(db.book, <<"choose", id>>, Move(<<Unallocated, id>>, Into(<<account, id>>, amount)))
      /\ new.credit = [db.credit EXCEPT ![id] = record]
  BY <1>1 DEF ChooseIn, Keeps, Fields
<1>5. /\ record \in CreditRecords /\ record.disposition = disposition /\ record.available = amount
      /\ record.status = IF disposition = "token" THEN "TOKEN_PURCHASE_PENDING" ELSE "AVAILABLE"
  <2>1. CASE disposition = "token"
    BY <1>1, <1>2, <2>1 DEF ChosenFor, CreditRecords
  <2>2. CASE disposition = "inference_credit"
    BY <1>1, <1>2, <2>2 DEF ChosenFor, CreditRecords
  <2> QED BY <2>1, <2>2
<1>6. MovesOwed(new.book, db.book, <<"choose", id>>, <<Unallocated, id>>, <<account, id>>, amount)
  <2>1. <<Unallocated, id>> # <<account, id>>
    BY DEF Unallocated, TokenPending, Credit
  <2> QED BY <1>1, <1>2, <1>3, <1>4, <2>1, JournalMovesOwed
<1> HIDE DEF new, record, amount, account
<1>7. /\ new.mandates = db.mandates /\ new.licenses = db.licenses /\ new.funding = db.funding
      /\ new.burn = db.burn /\ new.reserved = db.reserved /\ DOMAIN new = Fields /\ Keeps(new, db, {"book", "credit", "burn", "reserved"})
  BY <1>4 DEF Keeps, Fields
<1>8. /\ DOMAIN new.credit = DOMAIN db.credit /\ new.credit[id] = record
      /\ \A x \in DOMAIN db.credit : x # id => new.credit[x] = db.credit[x]
  BY <1>4
<1>9. IsTable(new.credit, DOMAIN db.licenses, CreditRecords) /\ IsTable(new.burn, DOMAIN new.credit, BurnStates)
  BY <1>1, <1>5, <1>7, <1>8 DEF Typed, IsTable
<1>10. JournalsAreOfRows(new)
  BY <1>1, <1>2, <1>5, <1>6, <1>7, <1>8 DEF MovesOwed, JournalsAreOfRows, Carried, Disposition
<1>11. SharesAreWhole(new)
  BY <1>1, <1>5, <1>7, <1>8 DEF SharesAreWhole, amount
<1>12. BalancesAreRight(new)
  <2>1. \A name, owner : /\ Owed(db.book, name, owner) \in Int
                         /\ Owed(new.book, name, owner) = Owed(db.book, name, owner)
                              + (IF <<name, owner>> = <<Unallocated, id>> THEN 0 - amount ELSE IF <<name, owner>> = <<account, id>> THEN amount ELSE 0)
    BY <1>1, <1>6, OwedType DEF MovesOwed
  <2>2. account \in {Credit, TokenPending}
    BY DEF account
  <2>3. \A name \in {Escrow, BurnPending, Reserved} : \A x : Owed(new.book, name, x) = Owed(db.book, name, x)
    BY <2>1, <2>2 DEF Escrow, Unallocated, Credit, TokenPending, BurnPending, Reserved
  <2>4. \A name \in {Unallocated, Credit, TokenPending} : \A x : x # id => Owed(new.book, name, x) = Owed(db.book, name, x)
    BY <2>1
  <2>5. /\ Owed(db.book, Unallocated, id) = amount /\ Owed(db.book, Credit, id) = 0 /\ Owed(db.book, TokenPending, id) = 0
    BY <1>1, <1>2 DEF BalancesAreRight, Held
  <2>6. /\ Owed(new.book, Unallocated, id) = 0
        /\ Owed(new.book, Credit, id) = IF disposition = "token" THEN 0 ELSE amount
        /\ Owed(new.book, TokenPending, id) = IF disposition = "token" THEN amount ELSE 0
    <3>1. amount \in Int
      BY <1>2
    <3>2. CASE disposition = "token"
      BY <2>1, <2>5, <3>1, <3>2 DEF Unallocated, Credit, TokenPending, account
    <3>3. CASE disposition # "token"
      BY <2>1, <2>5, <3>1, <3>3 DEF Unallocated, Credit, TokenPending, account
    <3> QED BY <3>2, <3>3
  <2>7. \A m \in Mandates : EscrowOf(new, m) = EscrowOf(db, m)
    BY <1>7, <1>8 DEF EscrowOf, Licensed
  <2>8. \A m \in Mandates : Owed(new.book, Escrow, m) = EscrowOf(new, m)
    BY <1>1, <2>3, <2>7 DEF BalancesAreRight
  <2>9. \A rid \in Nat : Owed(new.book, Reserved, rid) = ReservedFor(new, rid)
    BY <1>1, <1>7, <2>3 DEF BalancesAreRight, ReservedFor
  <2>10. ASSUME NEW x \in AllIds
         PROVE  /\ Owed(new.book, Unallocated, x) = Held(new, x, new.credit[x].disposition = "pending")
                /\ Owed(new.book, Credit, x) = Held(new, x, new.credit[x].disposition = "inference_credit")
                /\ Owed(new.book, TokenPending, x) = Held(new, x, new.credit[x].status = "TOKEN_PURCHASE_PENDING")
                /\ Owed(new.book, BurnPending, x) = IF x \in DOMAIN new.burn /\ new.burn[x] = "CREATED" THEN Share(x).burn ELSE 0
    <3>1. CASE x = id
      <4>1. Owed(new.book, BurnPending, x) = IF x \in DOMAIN new.burn /\ new.burn[x] = "CREATED" THEN Share(x).burn ELSE 0
        BY <1>1, <1>7, <2>3 DEF BalancesAreRight
      <4>2. CASE disposition = "token"
        BY <1>5, <1>8, <2>6, <3>1, <4>1, <4>2 DEF Held
      <4>3. CASE disposition = "inference_credit"
        BY <1>5, <1>8, <2>6, <3>1, <4>1, <4>3 DEF Held
      <4> QED BY <4>2, <4>3
    <3>2. CASE x # id
      BY <1>1, <1>7, <1>8, <2>3, <2>4, <3>2 DEF BalancesAreRight, Held
    <3> QED BY <3>1, <3>2
  <2> QED BY <2>8, <2>9, <2>10 DEF BalancesAreRight
<1>13. LedgerIsRight(new)
  BY <1>6, <1>10, <1>11, <1>12 DEF LedgerIsRight, MovesOwed
<1>14. Sound(new, kept)
  BY <1>1, <1>7, <1>8, <1>9, <1>13, MoneyRowsAreSound DEF Typed
<1> QED BY <1>14 DEF new

\* The journal of a sale: the price leaves the escrow of the buyer for three accounts.
SaleMovesOwed(new, book, id) ==
  /\ IsBook(new) /\ DOMAIN new = DOMAIN book \cup {<<"sale", id>>}
  /\ \A name, owner : Owed(new, name, owner) = Owed(book, name, owner)
       + (IF <<name, owner>> = <<Escrow, MandateOf(id)>> THEN 0 - PriceOf[MandateOf(id)]
          ELSE IF <<name, owner>> = <<Unallocated, id>> THEN Share(id).contributor
          ELSE IF <<name, owner>> = <<BurnPending, id>> THEN Share(id).burn
          ELSE IF <<name, owner>> = OperatorRevenue THEN Share(id).operator ELSE 0)

LEMMA SumOfThree ==
  ASSUME NEW f, NEW a, NEW b, NEW c, a # b, a # c, b # c, \A x \in {a, b, c} : f[x] \in Int
  PROVE  SumFunctionOnSet(f, {a, b, c}) = f[a] + f[b] + f[c]
<1>1. IsFiniteSet({c}) /\ IsFiniteSet({b, c}) /\ IsFiniteSet({a, b, c})
  <2>1. IsFiniteSet({c})
    BY FS_Singleton
  <2>2. IsFiniteSet({c} \cup {b}) /\ {c} \cup {b} = {b, c}
    BY <2>1, FS_AddElement
  <2>3. IsFiniteSet({b, c} \cup {a}) /\ {b, c} \cup {a} = {a, b, c}
    BY <2>2, FS_AddElement
  <2> QED BY <2>1, <2>2, <2>3
<1>2. SumFunctionOnSet(f, {a, b, c}) = f[a] + SumFunctionOnSet(f, {a, b, c} \ {a})
  BY <1>1, SumTakesAny
<1>3. {a, b, c} \ {a} = {b, c} /\ {b, c} \ {b} = {c} /\ {c} \ {c} = {}
  OBVIOUS
<1>4. SumFunctionOnSet(f, {b, c}) = f[b] + SumFunctionOnSet(f, {b, c} \ {b})
  BY <1>1, SumTakesAny
<1>5. SumFunctionOnSet(f, {c}) = f[c] + SumFunctionOnSet(f, {c} \ {c})
  BY <1>1, SumTakesAny
<1>6. SumFunctionOnSet(f, {}) = 0
  BY FS_EmptySet, SumRecursion
<1>7. /\ SumFunctionOnSet(f, {a, b, c}) = f[a] + SumFunctionOnSet(f, {b, c})
      /\ SumFunctionOnSet(f, {b, c}) = f[b] + SumFunctionOnSet(f, {c})
      /\ SumFunctionOnSet(f, {c}) = f[c] + 0
  BY <1>2, <1>3, <1>4, <1>5, <1>6
<1> QED BY <1>7

LEMMA SaleJournal ==
  ASSUME NEW book, IsBook(book), NEW id \in AllIds, <<"sale", id>> \notin DOMAIN book
  PROVE  SaleMovesOwed(postJournal(book, <<"sale", id>>, Move(<<Escrow, MandateOf(id)>>, SaleInto(id))), book, id)
<1> DEFINE from == <<Escrow, MandateOf(id)>>
           a == <<Unallocated, id>>
           b == <<BurnPending, id>>
           c == OperatorRevenue
           into == SaleInto(id)
           postings == Move(from, into)
           new == postJournal(book, <<"sale", id>>, postings)
           price == PriceOf[MandateOf(id)]
<1>1. a # b /\ a # c /\ b # c /\ from # a /\ from # b /\ from # c
  BY DEF Escrow, Unallocated, BurnPending, OperatorRevenue
<1>2. /\ DOMAIN into = {a, b, c}
      /\ into[a] = Share(id).contributor /\ into[b] = Share(id).burn /\ into[c] = Share(id).operator
  <2>1. DOMAIN into = {a, b, c}
    BY DEF SaleInto
  <2>2. \A account \in {a, b, c} :
          into[account] = CASE account = a -> Share(id).contributor [] account = b -> Share(id).burn [] account = c -> Share(id).operator
    BY DEF SaleInto
  <2> HIDE DEF a, b, c, into
  <2> QED BY <1>1, <2>1, <2>2
<1>3. /\ Share(id).contributor \in Int /\ Share(id).burn \in Int /\ Share(id).operator \in Int
      /\ Share(id).contributor + Share(id).burn + Share(id).operator = price
  BY SharesSplit
<1> HIDE DEF from, a, b, c, into, price
<1>4. SumFunction(into) = price
  <2>1. SumFunctionOnSet(into, {a, b, c}) = into[a] + into[b] + into[c]
    BY <1>1, <1>2, <1>3, SumOfThree
  <2>2. SumFunction(into) = SumFunctionOnSet(into, {a, b, c})
    BY <1>2 DEF SumFunction
  <2> QED BY <1>2, <1>3, <2>1, <2>2
<1>5. /\ DOMAIN postings = {from, a, b, c} /\ postings[from] = price /\ postings[a] = 0 - Share(id).contributor
      /\ postings[b] = 0 - Share(id).burn /\ postings[c] = 0 - Share(id).operator
  <2>1. postings = [account \in {from} \cup {a, b, c} |-> IF account = from THEN price ELSE 0 - into[account]]
    BY <1>2, <1>4 DEF Move
  <2> HIDE DEF postings
  <2> QED BY <1>1, <1>2, <2>1
<1> HIDE DEF postings
<1>6. price \in Int
  BY <1>3
<1>7. \A account \in DOMAIN postings : postings[account] \in Int
  BY <1>3, <1>5, <1>6
<1>8. Posts(new, book, <<"sale", id>>, postings)
  BY <1>7, PostedBalance, Zenon
<1> HIDE DEF new
<1>9. \A account : Amount(postings, account)
        = IF account = from THEN price ELSE IF account = a THEN 0 - Share(id).contributor
          ELSE IF account = b THEN 0 - Share(id).burn ELSE IF account = c THEN 0 - Share(id).operator ELSE 0
  BY <1>5 DEF Amount
<1>10. \A name, owner : /\ accountBalance(book, <<name, owner>>) \in Int
                        /\ accountBalance(new, <<name, owner>>) = accountBalance(book, <<name, owner>>) + Amount(postings, <<name, owner>>)
  BY <1>8, BalanceType DEF Posts
<1>11. ASSUME NEW name, NEW owner
       PROVE  Owed(new, name, owner) = Owed(book, name, owner)
                + (IF <<name, owner>> = from THEN 0 - price
                   ELSE IF <<name, owner>> = a THEN Share(id).contributor
                   ELSE IF <<name, owner>> = b THEN Share(id).burn
                   ELSE IF <<name, owner>> = c THEN Share(id).operator ELSE 0)
  <2> DEFINE x == <<name, owner>>
             was == accountBalance(book, x)
  <2>1. was \in Int /\ accountBalance(new, x) = was + Amount(postings, x) /\ Owed(book, name, owner) = 0 - was
        /\ Owed(new, name, owner) = 0 - accountBalance(new, x)
    BY <1>10 DEF Owed
  <2>2. Amount(postings, x)
        = IF x = from THEN price ELSE IF x = a THEN 0 - Share(id).contributor
          ELSE IF x = b THEN 0 - Share(id).burn ELSE IF x = c THEN 0 - Share(id).operator ELSE 0
    BY <1>9
  <2> HIDE DEF x, was
  <2>3. Owed(new, name, owner) = Owed(book, name, owner)
                + (IF x = from THEN 0 - price
                   ELSE IF x = a THEN Share(id).contributor
                   ELSE IF x = b THEN Share(id).burn
                   ELSE IF x = c THEN Share(id).operator ELSE 0)
    BY <1>3, <1>6, <2>1, <2>2
  <2> QED BY <2>3 DEF x
<1>12. SaleMovesOwed(new, book, id)
  <2>1. IsBook(new) /\ DOMAIN new = DOMAIN book \cup {<<"sale", id>>}
    BY <1>8 DEF Posts
  <2> QED BY <1>11, <2>1 DEF SaleMovesOwed, from, a, b, c, price
<1> QED BY <1>12 DEF new, postings, into, from

LEMMA PostedIsSound ==
  ASSUME NEW db, NEW kept, Sound(db, kept), NEW id \in DOMAIN db.licenses, id \notin DOMAIN db.credit
  PROVE  /\ Sound(Posted(db, id), kept) /\ DOMAIN Posted(db, id).credit = DOMAIN db.credit \cup {id}
         /\ Posted(db, id).credit[id].disposition = "pending"
<1> DEFINE new == Posted(db, id)
           m == MandateOf(id)
           record == [disposition |-> "pending", status |-> "AVAILABLE", available |-> Share(id).contributor]
<1>1. /\ Typed(db) /\ DOMAIN db = Fields /\ IsTable(db.credit, DOMAIN db.licenses, CreditRecords)
      /\ IsTable(db.burn, DOMAIN db.credit, BurnStates) /\ DOMAIN db.burn = DOMAIN db.credit /\ IsFiniteSet(DOMAIN db.licenses)
      /\ IsBook(db.book) /\ JournalsAreOfRows(db) /\ BalancesAreRight(db) /\ SharesAreWhole(db)
  BY DEF Sound, Typed, LedgerIsRight, IsTable
<1>2. id \in AllIds /\ m \in Mandates /\ PriceOf[m] \in Nat
  <2>1. id \in AllIds
    BY <1>1 DEF Typed, IsTable
  <2> QED BY <2>1, MandateMarketAssumption DEF AllIds, MandateOf
<1>3. /\ Share(id).contributor \in Nat /\ Share(id).burn \in Nat /\ Share(id).operator \in Int
  BY <1>2, SharesSplit
<1>4. /\ Keeps(new, db, {"book", "credit", "burn"})
      /\ new.book = postJournal(db.book, <<"sale", id>>, Move(<<Escrow, MandateOf(id)>>, SaleInto(id)))
      /\ new.credit = With(db.credit, id, record) /\ new.burn = With(db.burn, id, "CREATED")
  BY <1>1 DEF Posted, Keeps, Fields
<1>5. record \in CreditRecords /\ record.available = Share(id).contributor /\ record.disposition = "pending" /\ record.status = "AVAILABLE"
  BY <1>3 DEF CreditRecords
<1> HIDE DEF new, record, m
<1>6. SaleMovesOwed(new.book, db.book, id)
  <2>1. <<"sale", id>> \notin DOMAIN db.book
    BY <1>1 DEF JournalsAreOfRows
  <2> QED BY <1>1, <1>2, <1>4, <2>1, SaleJournal
<1>7. Puts(new.credit, db.credit, id, record) /\ Puts(new.burn, db.burn, id, "CREATED")
  <2>1. Puts(With(db.credit, id, record), db.credit, id, record) /\ Puts(With(db.burn, id, "CREATED"), db.burn, id, "CREATED")
    BY WithPuts, Zenon
  <2> QED BY <1>4, <2>1
<1>8. /\ DOMAIN new.credit = DOMAIN db.credit \cup {id} /\ new.credit[id] = record
      /\ \A x \in DOMAIN db.credit : x # id => new.credit[x] = db.credit[x]
      /\ DOMAIN new.burn = DOMAIN db.burn \cup {id} /\ new.burn[id] = "CREATED"
      /\ \A x \in DOMAIN db.burn : x # id => new.burn[x] = db.burn[x]
  BY <1>7 DEF Puts
<1>9. IsTable(new.credit, DOMAIN db.licenses, CreditRecords) /\ IsTable(new.burn, DOMAIN new.credit, BurnStates)
  <2>1. IsTable(new.credit, DOMAIN db.licenses, CreditRecords)
    BY <1>1, <1>5, <1>7, PutTable
  <2>2. IsTable(db.burn, DOMAIN new.credit, BurnStates) /\ id \in DOMAIN new.credit
    BY <1>1, <1>8 DEF IsTable
  <2>3. IsTable(new.burn, DOMAIN new.credit, BurnStates)
    BY <1>7, <2>2, PutTable DEF BurnStates
  <2> QED BY <2>1, <2>3
<1>10. /\ new.mandates = db.mandates /\ new.licenses = db.licenses /\ new.funding = db.funding
       /\ new.reserved = db.reserved /\ DOMAIN new = Fields /\ Keeps(new, db, {"book", "credit", "burn", "reserved"})
  BY <1>4 DEF Keeps, Fields
<1>11. JournalsAreOfRows(new)
  BY <1>1, <1>6, <1>8, <1>10 DEF SaleMovesOwed, JournalsAreOfRows, Carried, Disposition
<1>12. SharesAreWhole(new)
  BY <1>1, <1>5, <1>8, <1>10 DEF SharesAreWhole
<1>13. BalancesAreRight(new)
  <2>1. \A name, owner : /\ Owed(db.book, name, owner) \in Int
                         /\ Owed(new.book, name, owner) = Owed(db.book, name, owner)
                              + (IF <<name, owner>> = <<Escrow, m>> THEN 0 - PriceOf[m]
                                 ELSE IF <<name, owner>> = <<Unallocated, id>> THEN Share(id).contributor
                                 ELSE IF <<name, owner>> = <<BurnPending, id>> THEN Share(id).burn
                                 ELSE IF <<name, owner>> = OperatorRevenue THEN Share(id).operator ELSE 0)
    BY <1>1, <1>6, OwedType DEF SaleMovesOwed, m
  <2>2. \A name \in {Credit, TokenPending, Reserved} : \A x : Owed(new.book, name, x) = Owed(db.book, name, x)
    BY <2>1 DEF Escrow, Unallocated, Credit, TokenPending, BurnPending, Reserved, OperatorRevenue
  <2>3. \A x : x # m => Owed(new.book, Escrow, x) = Owed(db.book, Escrow, x)
    BY <2>1 DEF Escrow, Unallocated, BurnPending, OperatorRevenue
  <2>4. \A name \in {Unallocated, BurnPending} : \A x : x # id => Owed(new.book, name, x) = Owed(db.book, name, x)
    BY <2>1 DEF Escrow, Unallocated, BurnPending, OperatorRevenue
  <2>5. Owed(db.book, Unallocated, id) = 0 /\ Owed(db.book, BurnPending, id) = 0 /\ Owed(db.book, Credit, id) = 0 /\ Owed(db.book, TokenPending, id) = 0
    BY <1>1, <1>2 DEF BalancesAreRight, Held
  <2>6. Owed(new.book, Unallocated, id) = Share(id).contributor /\ Owed(new.book, BurnPending, id) = Share(id).burn
    BY <1>3, <2>1, <2>5 DEF Escrow, Unallocated, BurnPending, OperatorRevenue
  <2>7. Owed(new.book, Escrow, m) = Owed(db.book, Escrow, m) - PriceOf[m]
    BY <1>2, <2>1 DEF Escrow, Unallocated, BurnPending, OperatorRevenue
  <2>8. EscrowOf(new, m) = EscrowOf(db, m) - PriceOf[m]
    <3> DEFINE old == Licensed(db, m) \ DOMAIN db.credit
               left == Licensed(new, m) \ DOMAIN new.credit
    <3>1. id \in old /\ left = old \ {id} /\ IsFiniteSet(old)
      <4>1. id \in old /\ left = old \ {id} /\ old \subseteq DOMAIN db.licenses
        BY <1>8, <1>10 DEF Licensed, m
      <4> QED BY <1>1, <4>1, FS_Subset
    <3> DEFINE k == Cardinality(left)
    <3>2. k \in Nat /\ Cardinality(old) = k + 1
      <4>1. IsFiniteSet(old) /\ id \in old /\ left = old \ {id}
        BY <3>1
      <4> HIDE DEF old, left
      <4>2. IsFiniteSet(left) /\ Cardinality(left) = Cardinality(old) - 1
        BY <4>1, FS_RemoveElement
      <4>3. Cardinality(left) \in Nat /\ Cardinality(old) \in Nat
        BY <4>1, <4>2, FS_CardinalityType
      <4> QED BY <4>2, <4>3
    <3> DEFINE p == k * PriceOf[m]
    <3>3. Cardinality(old) * PriceOf[m] = p + PriceOf[m] /\ p \in Int
      <4> HIDE DEF k
      <4>1. k \in Int /\ PriceOf[m] \in Int
        BY <1>2, <3>2
      <4>2. (k + 1) * PriceOf[m] = k * PriceOf[m] + PriceOf[m] /\ k * PriceOf[m] \in Int
        BY <4>1, OneUnitMore, Zenon
      <4> QED BY <3>2, <4>2, Zenon
    <3>4. /\ EscrowOf(db, m) = db.mandates[m].funded - db.mandates[m].spent + (p + PriceOf[m])
          /\ EscrowOf(new, m) = db.mandates[m].funded - db.mandates[m].spent + p
      BY <1>10, <3>3 DEF EscrowOf
    <3>5. db.mandates[m].funded \in Int /\ db.mandates[m].spent \in Int
      BY <1>1, <1>2 DEF Typed, MandateRecords
    <3> HIDE DEF p
    <3> QED BY <1>2, <3>3, <3>4, <3>5
  <2>9. ASSUME NEW x \in Mandates, x # m PROVE EscrowOf(new, x) = EscrowOf(db, x)
    <3>1. Licensed(new, x) \ DOMAIN new.credit = Licensed(db, x) \ DOMAIN db.credit
      BY <1>8, <1>10, <2>9 DEF Licensed, m
    <3> QED BY <1>10, <3>1 DEF EscrowOf
  <2>10. \A x \in Mandates : Owed(new.book, Escrow, x) = EscrowOf(new, x)
    BY <1>1, <1>2, <2>3, <2>7, <2>8, <2>9 DEF BalancesAreRight
  <2>11. \A rid \in Nat : Owed(new.book, Reserved, rid) = ReservedFor(new, rid)
    BY <1>1, <1>10, <2>2 DEF BalancesAreRight, ReservedFor
  <2>12. ASSUME NEW x \in AllIds
         PROVE  /\ Owed(new.book, Unallocated, x) = Held(new, x, new.credit[x].disposition = "pending")
                /\ Owed(new.book, Credit, x) = Held(new, x, new.credit[x].disposition = "inference_credit")
                /\ Owed(new.book, TokenPending, x) = Held(new, x, new.credit[x].status = "TOKEN_PURCHASE_PENDING")
                /\ Owed(new.book, BurnPending, x) = IF x \in DOMAIN new.burn /\ new.burn[x] = "CREATED" THEN Share(x).burn ELSE 0
    <3>1. CASE x = id
      BY <1>5, <1>8, <2>2, <2>5, <2>6, <3>1 DEF Held
    <3>2. CASE x # id
      BY <1>1, <1>8, <2>2, <2>4, <3>2 DEF BalancesAreRight, Held
    <3> QED BY <3>1, <3>2
  <2> QED BY <2>10, <2>11, <2>12 DEF BalancesAreRight
<1>14. LedgerIsRight(new)
  BY <1>6, <1>11, <1>12, <1>13 DEF LedgerIsRight, SaleMovesOwed
<1>15. Sound(new, kept)
  <2>1. DOMAIN new.burn = DOMAIN new.credit /\ new.reserved \in Seq(ReservationRecords)
    BY <1>1, <1>8, <1>10 DEF Typed
  <2> QED BY <1>9, <1>10, <1>14, <2>1, MoneyRowsAreSound
<1>16. DOMAIN new.credit = DOMAIN db.credit \cup {id} /\ new.credit[id].disposition = "pending"
  BY <1>5, <1>8
<1> QED BY <1>15, <1>16 DEF new

LEMMA SettledIsSound ==
  ASSUME NEW db, NEW kept, Sound(db, kept), NEW id \in DOMAIN db.licenses, id \notin DOMAIN db.credit
  PROVE  Sound(Settled(db, id), kept)
<1>1. /\ Sound(Posted(db, id), kept) /\ id \in DOMAIN Posted(db, id).credit
      /\ Posted(db, id).credit[id].disposition = "pending"
  BY PostedIsSound
<1>2. Sound(ChooseIn(Posted(db, id), id, "inference_credit"), kept)
  BY <1>1, ChoiceIsSound
<1> QED BY <1>1, <1>2 DEF Settled

\* Credit is set apart for a reservation.
LEMMA ReservationIsSound ==
  ASSUME NEW db, NEW kept, Sound(db, kept), NEW id \in DOMAIN db.credit, NEW amount \in Nat,
         db.credit[id].disposition = "inference_credit", db.credit[id].status = "AVAILABLE", amount <= db.credit[id].available,
         NEW rid, rid = Len(db.reserved) + 1, NEW new,
         new = [db EXCEPT !.book = reserveJournal(@, rid, id, amount),
                          !.credit[id].available = @ - amount,
                          !.reserved = Append(@, [of |-> id, amount |-> amount, status |-> "RESERVED"])]
  PROVE  Sound(new, kept)
<1> DEFINE e == db.credit[id]
           record == [e EXCEPT !.available = @ - amount]
           r == [of |-> id, amount |-> amount, status |-> "RESERVED"]
<1>1. /\ Typed(db) /\ DOMAIN db = Fields /\ IsTable(db.credit, DOMAIN db.licenses, CreditRecords) /\ e \in CreditRecords
      /\ IsTable(db.burn, DOMAIN db.credit, BurnStates) /\ db.reserved \in Seq(ReservationRecords)
      /\ IsBook(db.book) /\ JournalsAreOfRows(db) /\ BalancesAreRight(db) /\ SharesAreWhole(db)
  BY DEF Sound, Typed, LedgerIsRight, IsTable
<1>2. id \in AllIds
  BY <1>1 DEF Typed, IsTable
<1>3. /\ Keeps(new, db, {"book", "credit", "reserved"})
      /\ new.book = reserveJournal(db.book, rid, id, amount)
      /\ new.credit = [db.credit EXCEPT ![id] = record]
      /\ new.reserved = Append(db.reserved, r)
  BY <1>1 DEF Keeps, Fields
<1>4. e.available \in Nat /\ e.available - amount \in Nat /\ e.disposition \in {"pending", "inference_credit", "token"}
      /\ e.status \in {"AVAILABLE", "INFERENCE_SPENT", "TOKEN_PURCHASE_PENDING", "TOKEN_WITHDRAWN", "NO_ALLOCATION"}
  BY <1>1 DEF CreditRecords
<1>5. /\ record \in CreditRecords /\ record.disposition = "inference_credit" /\ record.available = e.available - amount
      /\ record.status = "AVAILABLE"
  <2>1. record.disposition = e.disposition /\ record.status = e.status /\ record.available = e.available - amount
    BY <1>1 DEF CreditRecords
  <2>2. record \in CreditRecords
    BY <1>1, <1>4 DEF CreditRecords
  <2> QED BY <2>1, <2>2
<1>6. r \in ReservationRecords /\ r.of = id /\ r.amount = amount /\ r.status = "RESERVED"
  BY <1>2 DEF ReservationRecords
<1> HIDE DEF record, r
<1>7. /\ new.mandates = db.mandates /\ new.licenses = db.licenses /\ new.funding = db.funding
      /\ new.burn = db.burn /\ DOMAIN new = Fields /\ Keeps(new, db, {"book", "credit", "burn", "reserved"})
  BY <1>3 DEF Keeps, Fields
<1>8. /\ DOMAIN new.credit = DOMAIN db.credit /\ new.credit[id] = record
      /\ \A x \in DOMAIN db.credit : x # id => new.credit[x] = db.credit[x]
  BY <1>3
<1>9. /\ new.reserved \in Seq(ReservationRecords) /\ DOMAIN new.reserved = DOMAIN db.reserved \cup {rid} /\ rid \notin DOMAIN db.reserved
      /\ new.reserved[rid] = r /\ \A x \in DOMAIN db.reserved : new.reserved[x] = db.reserved[x]
  BY <1>1, <1>3, <1>6, AppendProperties, LenProperties
<1>10. MovesOwed(new.book, db.book, <<"reserve", rid>>, <<Credit, id>>, <<Reserved, rid>>, amount)
  <2>1. <<Credit, id>> # <<Reserved, rid>> /\ <<"reserve", rid>> \notin DOMAIN db.book
    BY <1>1, <1>9 DEF Credit, Reserved, JournalsAreOfRows
  <2>2. new.book = postJournal(db.book, <<"reserve", rid>>, Move(<<Credit, id>>, Into(<<Reserved, rid>>, amount)))
    BY <1>3 DEF reserveJournal
  <2> QED BY <1>1, <2>1, <2>2, JournalMovesOwed
<1>11. IsTable(new.credit, DOMAIN db.licenses, CreditRecords) /\ IsTable(new.burn, DOMAIN new.credit, BurnStates)
  BY <1>1, <1>5, <1>7, <1>8, SMTT(30) DEF Typed, IsTable
<1>12. JournalsAreOfRows(new)
  BY <1>1, <1>5, <1>7, <1>8, <1>9, <1>10, SMTT(30) DEF MovesOwed, JournalsAreOfRows, Carried, Disposition
<1>13. SharesAreWhole(new)
  BY <1>1, <1>5, <1>6, <1>7, <1>8, <1>9 DEF SharesAreWhole
<1>14. BalancesAreRight(new)
  <2>1. \A name, owner : /\ Owed(db.book, name, owner) \in Int
                         /\ Owed(new.book, name, owner) = Owed(db.book, name, owner)
                              + (IF <<name, owner>> = <<Credit, id>> THEN 0 - amount ELSE IF <<name, owner>> = <<Reserved, rid>> THEN amount ELSE 0)
    BY <1>1, <1>10, OwedType DEF MovesOwed
  <2>2. \A name \in {Escrow, Unallocated, TokenPending, BurnPending} : \A x : Owed(new.book, name, x) = Owed(db.book, name, x)
    BY <2>1 DEF Escrow, Unallocated, Credit, TokenPending, BurnPending, Reserved
  <2>3. /\ \A x : x # id => Owed(new.book, Credit, x) = Owed(db.book, Credit, x)
        /\ \A x : x # rid => Owed(new.book, Reserved, x) = Owed(db.book, Reserved, x)
    BY <2>1 DEF Credit, Reserved
  <2>4. Owed(db.book, Credit, id) = e.available /\ Owed(db.book, Reserved, rid) = 0
    <3>1. rid \in Nat
      BY <1>1, LenProperties
    <3> QED BY <1>1, <1>2, <1>9, <3>1 DEF BalancesAreRight, Held, ReservedFor
  <2>5. Owed(new.book, Credit, id) = e.available - amount /\ Owed(new.book, Reserved, rid) = amount
    BY <1>4, <2>1, <2>4 DEF Credit, Reserved
  <2>6. \A m \in Mandates : EscrowOf(new, m) = EscrowOf(db, m)
    BY <1>7, <1>8 DEF EscrowOf, Licensed
  <2>7. \A m \in Mandates : Owed(new.book, Escrow, m) = EscrowOf(new, m)
    BY <1>1, <2>2, <2>6 DEF BalancesAreRight
  <2>8. ASSUME NEW x \in Nat PROVE Owed(new.book, Reserved, x) = ReservedFor(new, x)
    <3>1. CASE x = rid
      BY <1>6, <1>9, <2>5, <3>1 DEF ReservedFor
    <3>2. CASE x # rid
      BY <1>1, <1>9, <2>3, <3>2 DEF BalancesAreRight, ReservedFor
    <3> QED BY <3>1, <3>2
  <2>9. ASSUME NEW x \in AllIds
        PROVE  /\ Owed(new.book, Unallocated, x) = Held(new, x, new.credit[x].disposition = "pending")
               /\ Owed(new.book, Credit, x) = Held(new, x, new.credit[x].disposition = "inference_credit")
               /\ Owed(new.book, TokenPending, x) = Held(new, x, new.credit[x].status = "TOKEN_PURCHASE_PENDING")
               /\ Owed(new.book, BurnPending, x) = IF x \in DOMAIN new.burn /\ new.burn[x] = "CREATED" THEN Share(x).burn ELSE 0
    <3>1. CASE x = id
      <4>1. /\ Owed(db.book, Unallocated, id) = 0 /\ Owed(db.book, TokenPending, id) = 0
            /\ Owed(db.book, BurnPending, id) = IF id \in DOMAIN db.burn /\ db.burn[id] = "CREATED" THEN Share(id).burn ELSE 0
        BY <1>1, <1>2 DEF BalancesAreRight, Held
      <4> QED BY <1>5, <1>7, <1>8, <2>2, <2>5, <3>1, <4>1 DEF Held
    <3>2. CASE x # id
      BY <1>1, <1>7, <1>8, <2>2, <2>3, <3>2 DEF BalancesAreRight, Held
    <3> QED BY <3>1, <3>2
  <2> QED BY <2>7, <2>8, <2>9 DEF BalancesAreRight
<1>15. LedgerIsRight(new)
  BY <1>10, <1>12, <1>13, <1>14 DEF LedgerIsRight, MovesOwed
<1> QED
  <2>1. DOMAIN new.burn = DOMAIN new.credit
    BY <1>1, <1>7, <1>8 DEF Typed
  <2> QED BY <1>7, <1>9, <1>11, <1>15, <2>1, MoneyRowsAreSound

\* What was used of a reservation leaves the ledger's liabilities; the rest is credit again.
UsageMovesOwed(new, book, rid, id, amount, actual) ==
  /\ IsBook(new) /\ DOMAIN new = DOMAIN book \cup {<<"usage", rid>>}
  /\ \A name, owner : Owed(new, name, owner) = Owed(book, name, owner)
       + (IF <<name, owner>> = <<Reserved, rid>> THEN 0 - amount
          ELSE IF <<name, owner>> = <<Credit, id>> THEN amount - actual
          ELSE IF <<name, owner>> = Cash THEN actual ELSE 0)

LEMMA UsageJournal ==
  ASSUME NEW book, IsBook(book), NEW rid, NEW id, <<"usage", rid>> \notin DOMAIN book, NEW amount \in Int, NEW actual \in Int
  PROVE  UsageMovesOwed(usageJournal(book, rid, id, amount, actual, Cash), book, rid, id, amount, actual)
<1> DEFINE from == <<Reserved, rid>>
           one == <<Credit, id>>
           x == amount - actual
           postings == Move(from, Halves(one, Cash, x, actual))
           new == postJournal(book, <<"usage", rid>>, postings)
<1>1. from # one /\ from # Cash /\ one # Cash /\ x \in Int /\ x + actual = amount
  BY DEF Reserved, Credit, Cash
<1>2. usageJournal(book, rid, id, amount, actual, Cash) = new
  BY DEF usageJournal, usagePostings, Halves
<1>3. Divides(postings, from, one, Cash, x, actual)
  <2> HIDE DEF from, one, x
  <2> QED BY <1>1, PostedIntoTwo, Zenon
<1> HIDE DEF postings
<1>4. Posts(new, book, <<"usage", rid>>, postings)
  <2>1. \A account \in DOMAIN postings : postings[account] \in Int
    BY <1>3 DEF Divides
  <2> QED BY <2>1, PostedBalance, Zenon
<1> HIDE DEF new
<1>5. \A account : /\ accountBalance(book, account) \in Int
                   /\ accountBalance(new, account) = accountBalance(book, account) + Amount(postings, account)
                   /\ Amount(postings, account)
                        = IF account = from THEN x + actual ELSE IF account = one THEN 0 - x ELSE IF account = Cash THEN 0 - actual ELSE 0
  BY <1>3, <1>4, BalanceType DEF Posts, Divides
<1>6. ASSUME NEW name, NEW owner
      PROVE  Owed(new, name, owner) = Owed(book, name, owner)
               + (IF <<name, owner>> = from THEN 0 - amount
                  ELSE IF <<name, owner>> = one THEN amount - actual
                  ELSE IF <<name, owner>> = Cash THEN actual ELSE 0)
  <2> DEFINE account == <<name, owner>>
             was == accountBalance(book, account)
  <2>1. was \in Int /\ accountBalance(new, account) = was + Amount(postings, account) /\ Owed(book, name, owner) = 0 - was
        /\ Owed(new, name, owner) = 0 - accountBalance(new, account)
    BY <1>5 DEF Owed
  <2>2. Amount(postings, account)
        = IF account = from THEN amount ELSE IF account = one THEN 0 - (amount - actual) ELSE IF account = Cash THEN 0 - actual ELSE 0
    BY <1>1, <1>5
  <2> HIDE DEF account, was
  <2>3. Owed(new, name, owner) = Owed(book, name, owner)
               + (IF account = from THEN 0 - amount
                  ELSE IF account = one THEN amount - actual
                  ELSE IF account = Cash THEN actual ELSE 0)
    BY <1>1, <2>1, <2>2
  <2> QED BY <2>3 DEF account
<1>7. UsageMovesOwed(new, book, rid, id, amount, actual)
  BY <1>4, <1>6 DEF UsageMovesOwed, Posts, from, one
<1> QED BY <1>2, <1>7

\* The rows of such a settlement.
IsReserved(db, rid, id, amount) ==
  rid \in DOMAIN db.reserved /\ db.reserved[rid].of = id /\ db.reserved[rid].amount = amount /\ db.reserved[rid].status = "RESERVED"
SettlesReserved(new, db, rid, id, amount, actual, e, r) ==
  /\ Keeps(new, db, {"book", "credit", "reserved"})
  /\ new.book = usageJournal(db.book, rid, id, amount, actual, Cash)
  /\ new.credit = [db.credit EXCEPT ![id] = e] /\ new.reserved = [db.reserved EXCEPT ![rid] = r]
  /\ e.disposition = db.credit[id].disposition /\ e.status \in {"AVAILABLE", "INFERENCE_SPENT"}
  /\ e.available = db.credit[id].available + amount - actual
  /\ DOMAIN e = {"disposition", "status", "available"} /\ e = [disposition |-> e.disposition, status |-> e.status, available |-> e.available]
  /\ r = [of |-> id, amount |-> amount, status |-> r.status] /\ r.status \in {"RELEASED", "SPENT"}

LEMMA SettlementIsSound ==
  ASSUME NEW db, NEW kept, Sound(db, kept), NEW rid, NEW id, NEW amount, NEW actual \in Nat,
         IsReserved(db, rid, id, amount), actual <= amount, NEW record, NEW r, NEW new,
         SettlesReserved(new, db, rid, id, amount, actual, record, r)
  PROVE  Sound(new, kept)
<1> DEFINE e == db.credit[id]
           left == record.available
<1>1. /\ Typed(db) /\ DOMAIN db = Fields /\ IsTable(db.credit, DOMAIN db.licenses, CreditRecords)
      /\ IsTable(db.burn, DOMAIN db.credit, BurnStates) /\ db.reserved \in Seq(ReservationRecords)
      /\ db.reserved[rid] \in ReservationRecords /\ rid \in DOMAIN db.reserved
      /\ IsBook(db.book) /\ JournalsAreOfRows(db) /\ BalancesAreRight(db) /\ SharesAreWhole(db)
  <2>1. db.reserved \in Seq(ReservationRecords) /\ rid \in DOMAIN db.reserved
    BY DEF Sound, Typed, IsReserved
  <2>2. db.reserved[rid] \in ReservationRecords
    BY <2>1, ElementOfSeq, LenProperties
  <2> QED BY <2>1, <2>2 DEF Sound, Typed, LedgerIsRight, IsTable
<1>2. id \in DOMAIN db.credit /\ e.disposition = "inference_credit" /\ id \in AllIds /\ amount \in Nat /\ e \in CreditRecords
  <2>1. id \in DOMAIN db.credit /\ e.disposition = "inference_credit"
    BY <1>1 DEF SharesAreWhole, IsReserved
  <2> QED BY <1>1, <2>1 DEF ReservationRecords, IsTable, IsReserved
<1>3. e.available \in Nat
  BY <1>2 DEF CreditRecords
<1>4. left \in Nat /\ left = e.available + (amount - actual)
  <2> DEFINE was == e.available
  <2>1. was \in Nat /\ left = was + amount - actual
    BY <1>3 DEF SettlesReserved
  <2> HIDE DEF was, left
  <2>2. left \in Nat /\ left = was + (amount - actual)
    BY <1>2, <2>1
  <2> QED BY <2>2 DEF was
<1>5. record \in CreditRecords /\ record.disposition = "inference_credit" /\ record.status \in {"AVAILABLE", "INFERENCE_SPENT"}
  <2>1. /\ record = [disposition |-> record.disposition, status |-> record.status, available |-> record.available]
        /\ record.disposition = "inference_credit" /\ record.status \in {"AVAILABLE", "INFERENCE_SPENT"}
    BY <1>2 DEF SettlesReserved
  <2>2. record.available \in Nat
    BY <1>4
  <2>3. [disposition |-> record.disposition, status |-> record.status, available |-> record.available] \in CreditRecords
    BY <2>1, <2>2 DEF CreditRecords
  <2> QED BY <2>1, <2>3
<1>6. r \in ReservationRecords /\ r.of = id /\ r.amount = amount /\ r.status # "RESERVED"
  <2>1. r = [of |-> id, amount |-> amount, status |-> r.status] /\ r.status \in {"RELEASED", "SPENT"}
    BY DEF SettlesReserved
  <2>2. [of |-> id, amount |-> amount, status |-> r.status] \in ReservationRecords
    BY <1>2, <2>1 DEF ReservationRecords
  <2> QED BY <2>1, <2>2
<1> HIDE DEF left
<1>7. /\ new.mandates = db.mandates /\ new.licenses = db.licenses /\ new.funding = db.funding
      /\ new.burn = db.burn /\ DOMAIN new = Fields /\ Keeps(new, db, {"book", "credit", "burn", "reserved"})
  BY DEF Keeps, Fields, SettlesReserved
<1>8. /\ DOMAIN new.credit = DOMAIN db.credit /\ new.credit[id] = record /\ record.available = left
      /\ \A x \in DOMAIN db.credit : x # id => new.credit[x] = db.credit[x]
  BY <1>2 DEF SettlesReserved, left
<1>9. /\ new.reserved \in Seq(ReservationRecords) /\ DOMAIN new.reserved = DOMAIN db.reserved
      /\ new.reserved[rid] = r /\ \A x \in DOMAIN db.reserved : x # rid => new.reserved[x] = db.reserved[x]
      /\ rid \in Nat
  BY <1>1, <1>6, ExceptSeq, LenProperties DEF SettlesReserved
<1>10. UsageMovesOwed(new.book, db.book, rid, id, amount, actual)
  <2>1. <<"usage", rid>> \notin DOMAIN db.book
    BY <1>1 DEF JournalsAreOfRows, IsReserved
  <2>2. new.book = usageJournal(db.book, rid, id, amount, actual, Cash)
    BY DEF SettlesReserved
  <2> QED BY <1>1, <1>2, <2>1, <2>2, UsageJournal
<1>11. IsTable(new.credit, DOMAIN db.licenses, CreditRecords) /\ IsTable(new.burn, DOMAIN new.credit, BurnStates)
  BY <1>1, <1>5, <1>7, <1>8 DEF Typed, IsTable
<1>12. JournalsAreOfRows(new)
  <2>1. \A a : Carried(db, a) => Carried(new, a)
    <3>1. e.status # "TOKEN_WITHDRAWN"
      BY <1>1, <1>2 DEF SharesAreWhole
    <3> QED BY <1>2, <1>7, <1>8, <3>1 DEF Carried
  <2> QED BY <1>1, <1>5, <1>6, <1>7, <1>8, <1>9, <1>10, <2>1 DEF UsageMovesOwed, JournalsAreOfRows, Disposition
<1>13. SharesAreWhole(new)
  <2>1. \A x \in DOMAIN new.credit : x # id => new.credit[x] = db.credit[x] /\ x \in DOMAIN db.credit
    BY <1>8
  <2>2. \A x \in DOMAIN new.reserved : new.reserved[x].of \in DOMAIN db.credit /\ db.credit[new.reserved[x].of].disposition = "inference_credit"
    BY <1>1, <1>2, <1>6, <1>9 DEF SharesAreWhole
  <2>3. \A x \in DOMAIN new.reserved : new.reserved[x].of \in DOMAIN new.credit /\ new.credit[new.reserved[x].of].disposition = "inference_credit"
    BY <1>5, <1>8, <2>2
  <2>4. \A x \in DOMAIN new.credit : LET y == new.credit[x] IN
       /\ y.disposition = "pending" => y.status = "AVAILABLE" /\ y.available = Share(x).contributor
       /\ y.status = "TOKEN_PURCHASE_PENDING" => y.disposition = "token" /\ y.available = Share(x).contributor
       /\ y.disposition = "inference_credit" => y.status \in {"AVAILABLE", "INFERENCE_SPENT"}
    BY <1>1, <1>5, <1>8, <2>1 DEF SharesAreWhole
  <2> QED BY <2>3, <2>4 DEF SharesAreWhole
<1>14. BalancesAreRight(new)
  <2>1. \A name, owner : /\ Owed(db.book, name, owner) \in Int
                         /\ Owed(new.book, name, owner) = Owed(db.book, name, owner)
                              + (IF <<name, owner>> = <<Reserved, rid>> THEN 0 - amount
                                 ELSE IF <<name, owner>> = <<Credit, id>> THEN amount - actual
                                 ELSE IF <<name, owner>> = Cash THEN actual ELSE 0)
    BY <1>1, <1>10, OwedType DEF UsageMovesOwed
  <2>2. \A name \in {Escrow, Unallocated, TokenPending, BurnPending} : \A x : Owed(new.book, name, x) = Owed(db.book, name, x)
    BY <2>1 DEF Escrow, Unallocated, Credit, TokenPending, BurnPending, Reserved, Cash
  <2>3. /\ \A x : x # id => Owed(new.book, Credit, x) = Owed(db.book, Credit, x)
        /\ \A x : x # rid => Owed(new.book, Reserved, x) = Owed(db.book, Reserved, x)
    BY <2>1 DEF Credit, Reserved, Cash
  <2>4. Owed(db.book, Credit, id) = e.available /\ Owed(db.book, Reserved, rid) = amount
    BY <1>1, <1>2, <1>9 DEF BalancesAreRight, Held, ReservedFor, IsReserved
  <2>5. Owed(new.book, Credit, id) = left /\ Owed(new.book, Reserved, rid) = 0
    BY <1>2, <1>4, <2>1, <2>4 DEF Credit, Reserved
  <2>6. \A m \in Mandates : EscrowOf(new, m) = EscrowOf(db, m)
    BY <1>7, <1>8 DEF EscrowOf, Licensed
  <2>7. \A m \in Mandates : Owed(new.book, Escrow, m) = EscrowOf(new, m)
    BY <1>1, <2>2, <2>6 DEF BalancesAreRight
  <2>8. ASSUME NEW x \in Nat PROVE Owed(new.book, Reserved, x) = ReservedFor(new, x)
    <3>1. CASE x = rid
      BY <1>6, <1>9, <2>5, <3>1 DEF ReservedFor
    <3>2. CASE x # rid
      BY <1>1, <1>9, <2>3, <3>2 DEF BalancesAreRight, ReservedFor
    <3> QED BY <3>1, <3>2
  <2>9. ASSUME NEW x \in AllIds
        PROVE  /\ Owed(new.book, Unallocated, x) = Held(new, x, new.credit[x].disposition = "pending")
               /\ Owed(new.book, Credit, x) = Held(new, x, new.credit[x].disposition = "inference_credit")
               /\ Owed(new.book, TokenPending, x) = Held(new, x, new.credit[x].status = "TOKEN_PURCHASE_PENDING")
               /\ Owed(new.book, BurnPending, x) = IF x \in DOMAIN new.burn /\ new.burn[x] = "CREATED" THEN Share(x).burn ELSE 0
    <3>1. CASE x = id
      <4>1. /\ e.disposition = "inference_credit" /\ e.status # "TOKEN_PURCHASE_PENDING"
        BY <1>1, <1>2 DEF SharesAreWhole
      <4>2. /\ Owed(db.book, Unallocated, id) = 0 /\ Owed(db.book, TokenPending, id) = 0
            /\ Owed(db.book, BurnPending, id) = IF id \in DOMAIN db.burn /\ db.burn[id] = "CREATED" THEN Share(id).burn ELSE 0
        BY <1>1, <1>2, <4>1 DEF BalancesAreRight, Held
      <4> QED BY <1>5, <1>7, <1>8, <1>2, <2>2, <2>5, <3>1, <4>2 DEF Held
    <3>2. CASE x # id
      BY <1>1, <1>7, <1>8, <2>2, <2>3, <3>2 DEF BalancesAreRight, Held
    <3> QED BY <3>1, <3>2
  <2> QED BY <2>7, <2>8, <2>9 DEF BalancesAreRight
<1>15. LedgerIsRight(new)
  BY <1>10, <1>12, <1>13, <1>14 DEF LedgerIsRight, UsageMovesOwed
<1> QED
  <2>1. DOMAIN new.burn = DOMAIN new.credit
    BY <1>1, <1>7, <1>8 DEF Typed
  <2> QED BY <1>7, <1>9, <1>11, <1>15, <2>1, MoneyRowsAreSound

(***************************************************************************)
(* Several journals at once.                                                 *)
(***************************************************************************)
JournalsPosted(new, book, journals) ==
  /\ IsBook(new) /\ DOMAIN new = DOMAIN book \cup DOMAIN journals
  /\ \A account : accountBalance(new, account) = accountBalance(book, account) + accountBalance(journals, account)
LEMMA JournalsAdd ==
  ASSUME NEW book, IsBook(book), NEW journals, IsBook(journals), DOMAIN book \cap DOMAIN journals = {}
  PROVE  JournalsPosted(postJournals(book, journals), book, journals)
<1> DEFINE new == postJournals(book, journals)
<1>1. /\ DOMAIN new = DOMAIN book \cup DOMAIN journals
      /\ \A known \in DOMAIN book : new[known] = book[known]
      /\ \A known \in DOMAIN journals : new[known] = journals[known]
  BY DEF postJournals
<1> HIDE DEF new
<1>2. IsBook(new)
  <2>1. IsFiniteSet(DOMAIN book \cup DOMAIN journals)
    BY FS_Union DEF IsBook
  <2>2. IsFiniteSet(DOMAIN new)
    BY <1>1, <2>1
  <2> QED BY <1>1, <2>2 DEF IsBook
<1>3. ASSUME NEW account PROVE accountBalance(new, account) = accountBalance(book, account) + accountBalance(journals, account)
  <2> DEFINE f == Entries(new, account)
             one == Entries(book, account)
             two == Entries(journals, account)
  <2>1. \A known \in DOMAIN book : f[known] = one[known] /\ f[known] \in Int
    BY <1>1 DEF Entries, IsBook, Amount
  <2>2. \A known \in DOMAIN journals : f[known] = two[known] /\ f[known] \in Int
    BY <1>1 DEF Entries, IsBook, Amount
  <2>3. IsFiniteSet(DOMAIN book) /\ IsFiniteSet(DOMAIN journals)
    BY DEF IsBook
  <2>4. /\ accountBalance(new, account) = SumFunctionOnSet(f, DOMAIN new)
        /\ accountBalance(book, account) = SumFunctionOnSet(one, DOMAIN book)
        /\ accountBalance(journals, account) = SumFunctionOnSet(two, DOMAIN journals)
    BY BalanceIsSum
  <2> HIDE DEF f, one, two
  <2>5. SumFunctionOnSet(f, DOMAIN book \cup DOMAIN journals) = SumFunctionOnSet(f, DOMAIN book) + SumFunctionOnSet(f, DOMAIN journals)
    BY <2>1, <2>2, <2>3, SumOfUnion
  <2>6. SumFunctionOnSet(f, DOMAIN book) = SumFunctionOnSet(one, DOMAIN book)
    BY <2>1, <2>3, SumDependsOnValues
  <2>7. SumFunctionOnSet(f, DOMAIN journals) = SumFunctionOnSet(two, DOMAIN journals)
    BY <2>2, <2>3, SumDependsOnValues
  <2> QED BY <1>1, <2>4, <2>5, <2>6, <2>7
<1>4. JournalsPosted(new, book, journals)
  BY <1>1, <1>2, <1>3 DEF JournalsPosted
<1> QED BY <1>4 DEF new

\* An account that no journal touches, and one that a single journal touches.
LEMMA UntouchedBalance ==
  ASSUME NEW book, IsBook(book), NEW account, \A reference \in DOMAIN book : account \notin DOMAIN book[reference]
  PROVE  accountBalance(book, account) = 0
<1>1. \A reference \in DOMAIN book : Entries(book, account)[reference] = 0
  BY DEF Entries, Amount
<1> QED BY <1>1, BalanceIsSum, SumOfZeros DEF IsBook

LEMMA OnlyBalance ==
  ASSUME NEW book, IsBook(book), NEW account, NEW it \in DOMAIN book, account \in DOMAIN book[it],
         \A reference \in DOMAIN book : reference # it => account \notin DOMAIN book[reference]
  PROVE  accountBalance(book, account) = book[it][account]
<1> DEFINE f == Entries(book, account)
<1>1. /\ \A reference \in DOMAIN book : f[reference] \in Int
      /\ \A reference \in DOMAIN book \ {it} : f[reference] = 0
      /\ f[it] = book[it][account]
  BY DEF Entries, Amount, IsBook
<1>2. IsFiniteSet(DOMAIN book) /\ IsFiniteSet(DOMAIN book \ {it})
  BY FS_Subset DEF IsBook
<1>3. accountBalance(book, account) = SumFunctionOnSet(f, DOMAIN book)
  BY BalanceIsSum
<1> HIDE DEF f
<1>4. SumFunctionOnSet(f, DOMAIN book) = f[it] + SumFunctionOnSet(f, DOMAIN book \ {it})
  BY <1>1, <1>2, SumTakesAny
<1>5. SumFunctionOnSet(f, DOMAIN book \ {it}) = 0
  BY <1>1, <1>2, SumOfZeros
<1>6. f[it] \in Int
  BY <1>1
<1> QED BY <1>1, <1>3, <1>4, <1>5, <1>6

\* What the purchases of allocations do to the accounts of the market.
Dues == {"contributor", "burn"} \X AllIds
Liabilities == {Escrow, Unallocated, Credit, TokenPending, BurnPending, Reserved}
PaysAllocations(journals, due) ==
  /\ IsBook(journals) /\ DOMAIN journals = due \cup {Disposition(a) : a \in due}
  /\ \A a \in due : accountBalance(journals, Pending(a)) = CostOf(a)
  /\ \A name \in Liabilities : \A x : (\A a \in due : Pending(a) # <<name, x>>) => accountBalance(journals, <<name, x>>) = 0

LEMMA AllocationsArePaid ==
  ASSUME NEW due \in SUBSET Dues, IsFiniteSet(due)
  PROVE  PaysAllocations(AllocationJournals(due), due)
<1> DEFINE journals == AllocationJournals(due)
           after == {Disposition(a) : a \in due}
<1>1. \A a \in due : /\ a[1] \in {"contributor", "burn"} /\ a = <<a[1], a[2]>> /\ a[2] \in AllIds
  BY DEF Dues
<1>2. \A a \in due : CostOf(a) \in Int
  BY <1>1, SharesSplit DEF CostOf
<1>3. after \cap due = {} /\ \A a \in due : Disposition(a)[2] = a
  <2>1. \A a \in due : Disposition(a) \notin due
    BY <1>1 DEF Disposition
  <2> QED BY <2>1 DEF Disposition
<1>4. \A a, b \in due : a # b => Pending(a) # Pending(b)
  BY <1>1 DEF Pending, TokenPending, BurnPending
<1>5. \A a \in due : /\ Inventory(a) # Cash /\ Pending(a) # Inventory(a) /\ Pending(a) # Cash
                     /\ \A name \in Liabilities : \A x : <<name, x>> # Inventory(a) /\ <<name, x>> # Cash
  BY <1>1 DEF Inventory, Cash, Pending, TokenPending, BurnPending, Liabilities, Escrow, Unallocated, Credit, Reserved
<1>6. /\ DOMAIN journals = due \cup after
      /\ \A a \in due : journals[a] = Move(Inventory(a), Into(Cash, CostOf(a)))
      /\ \A a \in due : journals[Disposition(a)] = Move(Pending(a), Into(Inventory(a), CostOf(a)))
  BY <1>3 DEF AllocationJournals
<1> HIDE DEF journals
<1>7. \A a \in due : IsMoveIntoOne(journals[a], Inventory(a), Cash, CostOf(a))
  <2> TAKE a \in due
  <2>1. IsMoveIntoOne(Move(Inventory(a), Into(Cash, CostOf(a))), Inventory(a), Cash, CostOf(a))
    BY <1>2, <1>5, MovedIntoOne, Zenon
  <2> QED BY <1>6, <2>1
<1>8. \A a \in due : IsMoveIntoOne(journals[Disposition(a)], Pending(a), Inventory(a), CostOf(a))
  <2> TAKE a \in due
  <2>1. IsMoveIntoOne(Move(Pending(a), Into(Inventory(a), CostOf(a))), Pending(a), Inventory(a), CostOf(a))
    BY <1>2, <1>5, MovedIntoOne, Zenon
  <2> QED BY <1>6, <2>1
<1>9. IsBook(journals)
  <2>1. IsFiniteSet(due \cup after)
    <3> DEFINE f == [a \in due |-> Disposition(a)]
    <3>1. f \in Surjection(due, after)
      BY DEF Surjection
    <3>2. IsFiniteSet(after)
      BY <3>1, FS_Surjection, Zenon
    <3> QED BY <3>2, FS_Union
  <2>2. IsFiniteSet(DOMAIN journals)
    BY <1>6, <2>1
  <2>3. \A a \in due : \A account \in DOMAIN journals[a] : journals[a][account] \in Int
    BY <1>2, <1>7 DEF IsMoveIntoOne
  <2>4. \A a \in due : \A account \in DOMAIN journals[Disposition(a)] : journals[Disposition(a)][account] \in Int
    BY <1>2, <1>8 DEF IsMoveIntoOne
  <2> QED BY <1>6, <2>2, <2>3, <2>4 DEF IsBook
<1>10. /\ \A a \in due : DOMAIN journals[a] = {Inventory(a), Cash}
       /\ \A a \in due : DOMAIN journals[Disposition(a)] = {Pending(a), Inventory(a)} /\ journals[Disposition(a)][Pending(a)] = CostOf(a)
  BY <1>7, <1>8 DEF IsMoveIntoOne
<1>11. \A a \in due : Pending(a)[1] \in Liabilities /\ Pending(a) = <<Pending(a)[1], Pending(a)[2]>>
  BY <1>1 DEF Pending, Liabilities
<1>12. ASSUME NEW a \in due PROVE accountBalance(journals, Pending(a)) = CostOf(a)
  <2>1. Disposition(a) \in DOMAIN journals /\ Pending(a) \in DOMAIN journals[Disposition(a)]
    BY <1>6, <1>10
  <2>2. \A b \in due : Pending(a) # Inventory(b) /\ Pending(a) # Cash
    BY <1>5, <1>11
  <2>3. \A reference \in DOMAIN journals : reference # Disposition(a) => Pending(a) \notin DOMAIN journals[reference]
    BY <1>4, <1>6, <1>10, <2>2
  <2>4. accountBalance(journals, Pending(a)) = journals[Disposition(a)][Pending(a)]
    BY <1>9, <2>1, <2>3, OnlyBalance
  <2> QED BY <1>10, <2>4
<1>13. ASSUME NEW name \in Liabilities, NEW x, \A a \in due : Pending(a) # <<name, x>> PROVE accountBalance(journals, <<name, x>>) = 0
  <2>1. \A reference \in DOMAIN journals : <<name, x>> \notin DOMAIN journals[reference]
    BY <1>5, <1>6, <1>10, <1>13
  <2> QED BY <1>9, <2>1, UntouchedBalance
<1>14. PaysAllocations(journals, due)
  BY <1>6, <1>9, <1>12, <1>13 DEF PaysAllocations
<1> QED BY <1>14 DEF journals

\* The rows of allocations that are carried out, all at once.
Bought(new, db, due) ==
  /\ Keeps(new, db, {"book", "credit", "burn"})
  /\ new.book = postJournals(db.book, AllocationJournals(due))
  /\ DOMAIN new.credit = DOMAIN db.credit /\ DOMAIN new.burn = DOMAIN db.burn
  /\ \A id \in DOMAIN db.credit :
       IF db.credit[id].status = "TOKEN_PURCHASE_PENDING"
       THEN new.credit[id] = [db.credit[id] EXCEPT !.status = IF Share(id).contributor = 0 THEN "NO_ALLOCATION" ELSE "TOKEN_WITHDRAWN",
                                                   !.available = 0]
       ELSE new.credit[id] = db.credit[id]
  /\ \A id \in DOMAIN db.burn :
       new.burn[id] = IF db.burn[id] # "CREATED" THEN db.burn[id] ELSE IF Share(id).burn = 0 THEN "NO_ALLOCATION" ELSE "BURN_FINAL"

LEMMA AllocationsAreKnown ==
  ASSUME NEW db, Typed(db)
  PROVE  /\ Allocations(db) \in SUBSET Dues /\ IsFiniteSet(Allocations(db))
         /\ \A id : <<"contributor", id>> \in Allocations(db) <=> id \in DOMAIN db.credit /\ db.credit[id].status = "TOKEN_PURCHASE_PENDING"
         /\ \A id : <<"burn", id>> \in Allocations(db) <=> id \in DOMAIN db.burn /\ db.burn[id] = "CREATED"
<1>1. DOMAIN db.credit \subseteq AllIds /\ IsFiniteSet(DOMAIN db.credit) /\ DOMAIN db.burn = DOMAIN db.credit
  BY DEF Typed, IsTable
<1>2. IsFiniteSet({"contributor", "burn"})
  <2>1. IsFiniteSet({"burn"} \cup {"contributor"})
    BY FS_AddElement, FS_Singleton
  <2>2. {"burn"} \cup {"contributor"} = {"contributor", "burn"}
    OBVIOUS
  <2> QED BY <2>1, <2>2
<1>3. IsFiniteSet({"contributor", "burn"} \X DOMAIN db.credit)
  BY <1>1, <1>2, FS_Product
<1>4. Allocations(db) \subseteq {"contributor", "burn"} \X DOMAIN db.credit
  BY <1>1 DEF Allocations
<1>5. IsFiniteSet(Allocations(db))
  BY <1>3, <1>4, FS_Subset
<1>6. Allocations(db) \in SUBSET Dues
  BY <1>1, <1>4 DEF Dues
<1>7. \A id : <<"contributor", id>> \in Allocations(db) <=> id \in DOMAIN db.credit /\ db.credit[id].status = "TOKEN_PURCHASE_PENDING"
  BY DEF Allocations
<1>8. \A id : <<"burn", id>> \in Allocations(db) <=> id \in DOMAIN db.burn /\ db.burn[id] = "CREATED"
  BY DEF Allocations
<1> QED BY <1>5, <1>6, <1>7, <1>8

LEMMA AllocationsAreSound ==
  ASSUME NEW db, NEW kept, Sound(db, kept), NEW new, Bought(new, db, {a \in Allocations(db) : CostOf(a) > 0})
  PROVE  Sound(new, kept)
<1> DEFINE all == Allocations(db)
           due == {a \in all : CostOf(a) > 0}
           journals == AllocationJournals(due)
           waits(id) == db.credit[id].status = "TOKEN_PURCHASE_PENDING"
<1>1. /\ Typed(db) /\ DOMAIN db = Fields /\ IsTable(db.credit, DOMAIN db.licenses, CreditRecords)
      /\ IsTable(db.burn, DOMAIN db.credit, BurnStates) /\ DOMAIN db.burn = DOMAIN db.credit
      /\ IsBook(db.book) /\ JournalsAreOfRows(db) /\ BalancesAreRight(db) /\ SharesAreWhole(db)
  BY DEF Sound, Typed, LedgerIsRight
<1>2. /\ all \in SUBSET Dues /\ due \in SUBSET Dues /\ IsFiniteSet(due)
      /\ \A id : <<"contributor", id>> \in all <=> id \in DOMAIN db.credit /\ waits(id)
      /\ \A id : <<"burn", id>> \in all <=> id \in DOMAIN db.burn /\ db.burn[id] = "CREATED"
  BY <1>1, AllocationsAreKnown, FS_Subset
<1>3. /\ \A id : <<"contributor", id>> \in due <=> id \in DOMAIN db.credit /\ waits(id) /\ Share(id).contributor > 0
      /\ \A id : <<"burn", id>> \in due <=> id \in DOMAIN db.burn /\ db.burn[id] = "CREATED" /\ Share(id).burn > 0
  <2>1. \A id : CostOf(<<"contributor", id>>) = Share(id).contributor /\ CostOf(<<"burn", id>>) = Share(id).burn
    BY DEF CostOf
  <2> QED BY <1>2, <2>1
<1>4. /\ Keeps(new, db, {"book", "credit", "burn"}) /\ new.book = postJournals(db.book, journals)
      /\ DOMAIN new.credit = DOMAIN db.credit /\ DOMAIN new.burn = DOMAIN db.burn
      /\ \A id \in DOMAIN db.credit : ~waits(id) => new.credit[id] = db.credit[id]
      /\ \A id \in DOMAIN db.burn : db.burn[id] # "CREATED" => new.burn[id] = db.burn[id]
  BY DEF Bought
<1>5. \A id \in DOMAIN db.credit : waits(id) =>
        /\ new.credit[id] \in CreditRecords /\ new.credit[id].disposition = "token" /\ new.credit[id].available = 0
        /\ new.credit[id].status = IF Share(id).contributor = 0 THEN "NO_ALLOCATION" ELSE "TOKEN_WITHDRAWN"
        /\ db.credit[id].available = Share(id).contributor
  <2> TAKE id \in DOMAIN db.credit
  <2> SUFFICES ASSUME waits(id)
        PROVE  /\ new.credit[id] \in CreditRecords /\ new.credit[id].disposition = "token" /\ new.credit[id].available = 0
               /\ new.credit[id].status = IF Share(id).contributor = 0 THEN "NO_ALLOCATION" ELSE "TOKEN_WITHDRAWN"
               /\ db.credit[id].available = Share(id).contributor
    OBVIOUS
  <2> DEFINE status == IF Share(id).contributor = 0 THEN "NO_ALLOCATION" ELSE "TOKEN_WITHDRAWN"
             e == db.credit[id]
  <2>1. status \in {"NO_ALLOCATION", "TOKEN_WITHDRAWN"} /\ e \in CreditRecords /\ e.disposition \in {"pending", "inference_credit", "token"}
    BY <1>1 DEF IsTable, CreditRecords
  <2>2. new.credit[id] = [e EXCEPT !.status = status, !.available = 0]
    BY DEF Bought
  <2>3. e.disposition = "token" /\ e.available = Share(id).contributor
    BY <1>1 DEF SharesAreWhole
  <2> DEFINE record == [e EXCEPT !.status = status, !.available = 0]
  <2> HIDE DEF status, e
  <2>4. record.disposition = e.disposition /\ record.available = 0 /\ record.status = status /\ record \in CreditRecords
    BY <2>1 DEF CreditRecords
  <2>5. new.credit[id] = record
    BY <2>2
  <2> HIDE DEF record
  <2> QED BY <2>3, <2>4, <2>5 DEF status, e
<1>6. \A id \in DOMAIN db.burn : db.burn[id] = "CREATED" =>
        new.burn[id] = IF Share(id).burn = 0 THEN "NO_ALLOCATION" ELSE "BURN_FINAL"
  BY DEF Bought
<1>7. IsTable(new.credit, DOMAIN db.licenses, CreditRecords) /\ IsTable(new.burn, DOMAIN new.credit, BurnStates) /\ DOMAIN new.burn = DOMAIN new.credit
  BY <1>1, <1>4, <1>5, <1>6 DEF IsTable, BurnStates
<1>8. /\ new.mandates = db.mandates /\ new.licenses = db.licenses /\ new.funding = db.funding
      /\ new.reserved = db.reserved /\ DOMAIN new = Fields /\ Keeps(new, db, {"book", "credit", "burn", "reserved"})
  BY <1>4 DEF Keeps, Fields
<1>9. PaysAllocations(journals, due)
  BY <1>2, AllocationsArePaid, Zenon
<1> HIDE DEF journals, due, all
<1>10. \A a \in due : ~Carried(db, a) /\ a[1] \in {"contributor", "burn"} /\ a = <<a[1], a[2]>>
  <2> TAKE a \in due
  <2>1. a[1] \in {"contributor", "burn"} /\ a = <<a[1], a[2]>>
    BY <1>2 DEF Dues
  <2>2. CASE a[1] = "contributor"
    <3>1. a[2] \in DOMAIN db.credit /\ waits(a[2])
      BY <1>3, <2>1, <2>2
    <3> QED BY <2>1, <2>2, <3>1 DEF Carried
  <2>3. CASE a[1] = "burn"
    <3>1. db.burn[a[2]] = "CREATED"
      BY <1>3, <2>1, <2>3
    <3> QED BY <2>1, <2>3, <3>1 DEF Carried
  <2> QED BY <2>1, <2>2, <2>3
<1>11. JournalsPosted(new.book, db.book, journals)
  <2>1. \A a \in due : a \notin DOMAIN db.book /\ Disposition(a) \notin DOMAIN db.book
    <3> TAKE a \in due
    <3>1. Disposition(a) \notin DOMAIN db.book
      BY <1>1, <1>10 DEF JournalsAreOfRows
    <3>2. <<a[1], a[2]>> \notin DOMAIN db.book
      BY <1>1, <1>10 DEF JournalsAreOfRows
    <3> QED BY <1>10, <3>1, <3>2
  <2>2. DOMAIN db.book \cap DOMAIN journals = {} /\ IsBook(journals)
    BY <1>9, <2>1 DEF PaysAllocations
  <2>3. JournalsPosted(postJournals(db.book, journals), db.book, journals)
    BY <1>1, <2>2, JournalsAdd, Zenon
  <2> QED BY <1>4, <2>3
<1>12. \A a \in due : Carried(new, a)
  <2> TAKE a \in due
  <2>1. CASE a[1] = "contributor"
    <3>1. a[2] \in DOMAIN db.credit /\ waits(a[2]) /\ Share(a[2]).contributor > 0
      BY <1>3, <1>10, <2>1
    <3> QED BY <1>4, <1>5, <2>1, <3>1 DEF Carried
  <2>2. CASE a[1] = "burn"
    <3>1. a[2] \in DOMAIN db.burn /\ db.burn[a[2]] = "CREATED"
      BY <1>3, <1>10, <2>2
    <3> QED BY <1>4, <1>6, <2>2, <3>1 DEF Carried
  <2> QED BY <1>10, <2>1, <2>2
<1>13. \A a : Carried(db, a) => Carried(new, a)
  BY <1>4 DEF Carried
<1>14. JournalsAreOfRows(new)
  <2>1. DOMAIN new.book = DOMAIN db.book \cup due \cup {Disposition(a) : a \in due}
    BY <1>9, <1>11 DEF JournalsPosted, PaysAllocations
  <2>2. \A kind \in {"fund", "sale", "choose", "reserve", "usage"} : \A x : <<kind, x>> \in DOMAIN new.book => <<kind, x>> \in DOMAIN db.book
    BY <1>10, <2>1 DEF Disposition
  <2>3. \A id \in DOMAIN db.credit : db.credit[id].disposition # "pending" => new.credit[id].disposition # "pending"
    BY <1>4, <1>5
  <2>4. \A kind \in {"contributor", "burn"} : \A x : <<kind, x>> \in DOMAIN new.book => Carried(new, <<kind, x>>)
    <3> TAKE kind \in {"contributor", "burn"}
    <3> TAKE x
    <3>1. <<kind, x>> \in DOMAIN new.book => <<kind, x>> \in DOMAIN db.book \/ <<kind, x>> \in due
      BY <2>1 DEF Disposition
    <3> QED BY <1>1, <1>12, <1>13, <3>1 DEF JournalsAreOfRows
  <2>5. \A a : Disposition(a) \in DOMAIN new.book => Carried(new, a)
    <3> TAKE a
    <3>1. \A b \in due : Disposition(a) # b
      BY <1>10 DEF Disposition
    <3>2. \A b \in due : Disposition(a) = Disposition(b) => a = b
      BY DEF Disposition
    <3>3. Disposition(a) \in DOMAIN new.book => Disposition(a) \in DOMAIN db.book \/ a \in due
      BY <2>1, <3>1, <3>2
    <3> QED BY <1>1, <1>12, <1>13, <3>3 DEF JournalsAreOfRows
  <2> QED BY <1>1, <1>4, <1>8, <2>2, <2>3, <2>4, <2>5 DEF JournalsAreOfRows
<1>15. SharesAreWhole(new)
  <2>1. \A x \in DOMAIN new.credit : LET y == new.credit[x] IN
       /\ y.disposition = "pending" => y.status = "AVAILABLE" /\ y.available = Share(x).contributor
       /\ y.status = "TOKEN_PURCHASE_PENDING" => y.disposition = "token" /\ y.available = Share(x).contributor
       /\ y.disposition = "inference_credit" => y.status \in {"AVAILABLE", "INFERENCE_SPENT"}
    BY <1>1, <1>4, <1>5 DEF SharesAreWhole
  <2>2. \A rid \in DOMAIN new.reserved : LET r == new.reserved[rid] IN
       r.of \in DOMAIN new.credit /\ new.credit[r.of].disposition = "inference_credit"
    <3> TAKE rid \in DOMAIN new.reserved
    <3> DEFINE of == new.reserved[rid].of
    <3>1. of \in DOMAIN db.credit /\ db.credit[of].disposition = "inference_credit"
      BY <1>1, <1>8 DEF SharesAreWhole
    <3>2. ~waits(of)
      BY <1>1, <3>1 DEF SharesAreWhole
    <3> QED BY <1>4, <3>1, <3>2
  <2> QED BY <2>1, <2>2 DEF SharesAreWhole
<1>16. BalancesAreRight(new)
  <2>1. \A name \in Liabilities : \A x :
          (\A a \in due : Pending(a) # <<name, x>>) => Owed(new.book, name, x) = Owed(db.book, name, x)
    <3> TAKE name \in Liabilities
    <3> TAKE x
    <3> DEFINE was == accountBalance(db.book, <<name, x>>)
    <3>1. was \in Int /\ accountBalance(new.book, <<name, x>>) = was + accountBalance(journals, <<name, x>>)
      BY <1>1, <1>11, BalanceType DEF JournalsPosted
    <3>2. (\A a \in due : Pending(a) # <<name, x>>) => accountBalance(journals, <<name, x>>) = 0
      BY <1>9 DEF PaysAllocations
    <3> QED BY <3>1, <3>2 DEF Owed
  <2>2. \A a \in due : \A name, x : Pending(a) = <<name, x>> => Owed(new.book, name, x) = Owed(db.book, name, x) - CostOf(a)
    <3> TAKE a \in due
    <3> TAKE name, x
    <3> SUFFICES ASSUME Pending(a) = <<name, x>> PROVE Owed(new.book, name, x) = Owed(db.book, name, x) - CostOf(a)
      OBVIOUS
    <3> DEFINE was == accountBalance(db.book, <<name, x>>)
    <3>1. was \in Int /\ accountBalance(new.book, <<name, x>>) = was + accountBalance(journals, <<name, x>>)
      BY <1>1, <1>11, BalanceType DEF JournalsPosted
    <3>2. accountBalance(journals, <<name, x>>) = CostOf(a)
      BY <1>9 DEF PaysAllocations
    <3>3. CostOf(a) \in Int
      BY <1>2, SharesSplit DEF CostOf, Dues
    <3> HIDE DEF was
    <3>4. Owed(db.book, name, x) = 0 - was /\ Owed(new.book, name, x) = 0 - (was + CostOf(a))
      BY <3>1, <3>2 DEF Owed, was
    <3> QED BY <3>1, <3>3, <3>4
  <2>3. \A a \in due : Pending(a) = <<IF a[1] = "contributor" THEN TokenPending ELSE BurnPending, a[2]>>
    BY DEF Pending
  <2>known. /\ \A name \in {Escrow, Unallocated, Credit, Reserved} : name \in Liabilities /\ name # TokenPending /\ name # BurnPending
            /\ TokenPending \in Liabilities /\ BurnPending \in Liabilities /\ TokenPending # BurnPending
    BY DEF Liabilities, Escrow, Unallocated, Credit, Reserved, TokenPending, BurnPending
  <2>4. \A name \in {Escrow, Unallocated, Credit, Reserved} : \A x : Owed(new.book, name, x) = Owed(db.book, name, x)
    <3> TAKE name \in {Escrow, Unallocated, Credit, Reserved}
    <3> TAKE x
    <3>1. \A a \in due : Pending(a) # <<name, x>>
      BY <2>3, <2>known
    <3> QED BY <2>1, <2>known, <3>1, Zenon
  <2>5. ASSUME NEW x, <<"contributor", x>> \notin due PROVE Owed(new.book, TokenPending, x) = Owed(db.book, TokenPending, x)
    <3>1. \A a \in due : Pending(a) # <<TokenPending, x>>
      <4> TAKE a \in due
      <4>1. a = <<a[1], a[2]>> /\ a[1] \in {"contributor", "burn"} /\ Pending(a) = <<IF a[1] = "contributor" THEN TokenPending ELSE BurnPending, a[2]>>
        BY <1>10, <2>3
      <4>2. CASE a[1] = "contributor"
        BY <2>5, <4>1, <4>2
      <4>3. CASE a[1] # "contributor"
        BY <2>known, <4>1, <4>3
      <4> QED BY <4>2, <4>3
    <3> QED BY <2>1, <2>known, <3>1, Zenon
  <2>6. ASSUME NEW x, <<"burn", x>> \notin due PROVE Owed(new.book, BurnPending, x) = Owed(db.book, BurnPending, x)
    <3>1. \A a \in due : Pending(a) # <<BurnPending, x>>
      <4> TAKE a \in due
      <4>1. a = <<a[1], a[2]>> /\ a[1] \in {"contributor", "burn"} /\ Pending(a) = <<IF a[1] = "contributor" THEN TokenPending ELSE BurnPending, a[2]>>
        BY <1>10, <2>3
      <4>2. CASE a[1] = "burn"
        BY <2>6, <4>1, <4>2
      <4>3. CASE a[1] # "burn"
        BY <2>known, <4>1, <4>3
      <4> QED BY <4>2, <4>3
    <3> QED BY <2>1, <2>known, <3>1, Zenon
  <2>7. \A m \in Mandates : Owed(new.book, Escrow, m) = EscrowOf(new, m)
    <3>1. \A m \in Mandates : EscrowOf(new, m) = EscrowOf(db, m)
      BY <1>4, <1>8 DEF EscrowOf, Licensed
    <3> QED BY <1>1, <2>4, <3>1 DEF BalancesAreRight
  <2>8. \A rid \in Nat : Owed(new.book, Reserved, rid) = ReservedFor(new, rid)
    BY <1>1, <1>8, <2>4 DEF BalancesAreRight, ReservedFor
  <2>9. ASSUME NEW x \in AllIds
        PROVE  /\ Owed(new.book, Unallocated, x) = Held(new, x, new.credit[x].disposition = "pending")
               /\ Owed(new.book, Credit, x) = Held(new, x, new.credit[x].disposition = "inference_credit")
    <3>1. CASE x \in DOMAIN db.credit /\ waits(x)
      <4>1. db.credit[x].disposition = "token"
        BY <1>1, <3>1 DEF SharesAreWhole
      <4> QED BY <1>1, <1>4, <1>5, <2>4, <3>1, <4>1 DEF BalancesAreRight, Held
    <3>2. CASE ~(x \in DOMAIN db.credit /\ waits(x))
      BY <1>1, <1>4, <2>4, <3>2 DEF BalancesAreRight, Held
    <3> QED BY <3>1, <3>2
  <2>10. ASSUME NEW x \in AllIds PROVE Owed(new.book, TokenPending, x) = Held(new, x, new.credit[x].status = "TOKEN_PURCHASE_PENDING")
    <3>1. CASE x \in DOMAIN db.credit /\ waits(x)
      <4>1. Owed(db.book, TokenPending, x) = Share(x).contributor /\ Share(x).contributor \in Nat
        BY <1>1, <1>5, <3>1, SharesSplit DEF BalancesAreRight, Held
      <4>2. Held(new, x, new.credit[x].status = "TOKEN_PURCHASE_PENDING") = 0
        BY <1>5, <3>1 DEF Held
      <4>3. CASE Share(x).contributor = 0
        <5>1. <<"contributor", x>> \notin due
          BY <1>3, <4>3
        <5>2. Owed(new.book, TokenPending, x) = Owed(db.book, TokenPending, x)
          BY <2>5, <5>1
        <5> QED BY <4>1, <4>2, <4>3, <5>2
      <4>4. CASE Share(x).contributor > 0
        <5>1. <<"contributor", x>> \in due /\ Pending(<<"contributor", x>>) = <<TokenPending, x>> /\ CostOf(<<"contributor", x>>) = Share(x).contributor
          BY <1>3, <3>1, <4>4 DEF Pending, CostOf
        <5>2. Owed(new.book, TokenPending, x) = Share(x).contributor - Share(x).contributor
          BY <2>2, <4>1, <5>1
        <5> QED BY <4>1, <4>2, <5>2
      <4> QED BY <4>1, <4>3, <4>4
    <3>2. CASE ~(x \in DOMAIN db.credit /\ waits(x))
      BY <1>1, <1>3, <1>4, <2>5, <3>2 DEF BalancesAreRight, Held
    <3> QED BY <3>1, <3>2
  <2>11. ASSUME NEW x \in AllIds
         PROVE  Owed(new.book, BurnPending, x) = IF x \in DOMAIN new.burn /\ new.burn[x] = "CREATED" THEN Share(x).burn ELSE 0
    <3>1. CASE x \in DOMAIN db.burn /\ db.burn[x] = "CREATED"
      <4>1. Owed(db.book, BurnPending, x) = Share(x).burn /\ Share(x).burn \in Nat
        BY <1>1, <3>1, SharesSplit DEF BalancesAreRight
      <4>2. new.burn[x] # "CREATED"
        BY <1>6, <3>1
      <4>3. CASE Share(x).burn = 0
        <5>1. <<"burn", x>> \notin due
          BY <1>3, <4>3
        <5>2. Owed(new.book, BurnPending, x) = Owed(db.book, BurnPending, x)
          BY <2>6, <5>1
        <5> QED BY <4>1, <4>2, <4>3, <5>2
      <4>4. CASE Share(x).burn > 0
        <5>1. <<"burn", x>> \in due /\ Pending(<<"burn", x>>) = <<BurnPending, x>> /\ CostOf(<<"burn", x>>) = Share(x).burn
          BY <1>3, <3>1, <4>4 DEF Pending, CostOf
        <5>2. Owed(new.book, BurnPending, x) = Share(x).burn - Share(x).burn
          BY <2>2, <4>1, <5>1
        <5> QED BY <4>1, <4>2, <5>2
      <4> QED BY <4>1, <4>3, <4>4
    <3>2. CASE ~(x \in DOMAIN db.burn /\ db.burn[x] = "CREATED")
      <4>1. Owed(db.book, BurnPending, x) = 0
        BY <1>1, <3>2 DEF BalancesAreRight
      <4>2. ~(x \in DOMAIN new.burn /\ new.burn[x] = "CREATED")
        BY <1>4, <3>2
      <4>3. <<"burn", x>> \notin due
        BY <1>3, <3>2
      <4>4. Owed(new.book, BurnPending, x) = 0
        BY <2>6, <4>1, <4>3
      <4> QED BY <4>2, <4>4
    <3> QED BY <3>1, <3>2
  <2> QED BY <2>7, <2>8, <2>9, <2>10, <2>11 DEF BalancesAreRight
<1>17. LedgerIsRight(new)
  BY <1>11, <1>14, <1>15, <1>16 DEF LedgerIsRight, JournalsPosted
<1> QED
  <2>1. new.reserved \in Seq(ReservationRecords)
    BY <1>1, <1>8 DEF Typed
  <2> QED BY <1>7, <1>8, <1>17, <2>1, MoneyRowsAreSound

(***************************************************************************)
(* Jobs.                                                                   *)
(***************************************************************************)
\* What a step must keep: everything is sound, and no match is forgotten.
Good(db, kept) == Sound(db, kept) /\ MatchesAsked(db)
WantsNoMore(new, db) == \A m \in case.mandates : \A t : Wanted(new, m, t) => Wanted(db, m, t)
AsksStill(new, db) == \A m \in case.mandates : Asked(db, m) => Asked(new, m)

LEMMA QuietIsGood ==
  ASSUME NEW db, NEW new, NEW kept, MatchesAsked(db), Sound(new, kept), WantsNoMore(new, db), AsksStill(new, db)
  PROVE  Good(new, kept)
BY DEF Good, MatchesAsked, WantsNoMore, AsksStill

LEMMA FollowersAreQuiet ==
  ASSUME NEW db, NEW new, NEW m, Follows(new, db, m), CaseIsChosen
  PROVE  WantsNoMore(new, db) /\ AsksStill(new, db)
<1>1. /\ new.traces = db.traces /\ new.paused = db.paused /\ new.failed = db.failed /\ Range(db.outbox) \subseteq Range(new.outbox)
      /\ \A x \in Mandates : Open(new, x) => Open(db, x)
      /\ \A x, t : Matchable(new, x, t) => Matchable(db, x, t)
  BY DEF Follows, Stays, Matchable, Alive, Allows, EvidenceOf
<1>2. ASSUME NEW x, NEW t, Waits(new, x, t) PROVE Waits(db, x, t)
  <2>1. CASE x = m
    BY <1>2, <2>1 DEF Follows
  <2>2. CASE x # m
    <3>1. \A id : MandateOf(id) = x => (id \in DOMAIN new.candidates <=> id \in DOMAIN db.candidates)
      BY <2>2 DEF Follows
    <3>2. \A id \in DOMAIN db.candidates : MandateOf(id) = x => new.candidates[id] = db.candidates[id]
      BY <2>2 DEF Follows
    <3>3. Existing(new, x, t) = Existing(db, x, t)
      BY <3>1, <3>2 DEF Existing, CandidatesOf
    <3>4. \A id \in Existing(db, x, t) : new.candidates[id] = db.candidates[id]
      BY <3>2 DEF Existing, CandidatesOf
    <3>5. new.policies = db.policies
      BY DEF Follows, Stays
    <3> QED BY <1>2, <3>3, <3>4, <3>5 DEF Waits
  <2> QED BY <2>1, <2>2
<1>3. case.mandates \subseteq Mandates
  BY CaseAssumption DEF CaseIsChosen
<1>4. WantsNoMore(new, db)
  BY <1>1, <1>2, <1>3 DEF WantsNoMore, Wanted
<1>5. AsksStill(new, db)
  BY <1>1 DEF AsksStill, Asked
<1> QED BY <1>4, <1>5

\* Rows that matching does not read.
LEMMA OtherRowsAreQuiet ==
  ASSUME NEW db, NEW new, Keeps(new, db, {"funding", "licenses", "credit", "burn", "reserved", "outbox", "failed", "book", "sourceGone"}),
         db.failed \subseteq new.failed, Range(db.outbox) \subseteq Range(new.outbox)
  PROVE  WantsNoMore(new, db) /\ AsksStill(new, db)
<1>1. /\ new.traces = db.traces /\ new.deleted = db.deleted /\ new.linked = db.linked /\ new.revoked = db.revoked
      /\ new.policies = db.policies /\ new.mandates = db.mandates /\ new.candidates = db.candidates /\ new.paused = db.paused
  BY DEF Keeps, Fields
<1>2. WantsNoMore(new, db)
  BY <1>1 DEF WantsNoMore, Wanted, Open, Matchable, Alive, Allows, EvidenceOf, Waits, Existing, CandidatesOf
<1>3. AsksStill(new, db)
  BY DEF AsksStill, Asked
<1> QED BY <1>2, <1>3

\* A job done: what it leaves is sound, and also what the vault has lost when its rows are rolled back.
Performed(r, s, job) ==
  /\ Sound(r.db, r.vault) /\ ReleasesStay(s.db, r.vault)
  /\ WantsNoMore(r.db, s.db) /\ AsksStill(r.db, s.db)
  /\ r.ok /\ job.event = "MatchMandate" => \A t : ~Wanted(r.db, job.on, t)

LEMMA MatchMandatePerforms ==
  ASSUME CaseIsChosen, NEW s, IsRun(s), Sound(s.db, s.vault), NEW job, job.event = "MatchMandate", job.on \in Mandates
  PROVE  Performed(MatchMandate(s, job.on), s, job)
<1> DEFINE m == job.on
           r == MatchMandate(s, m)
<1>1. /\ Matches(r, s, m)
      /\ r.ok /\ "sales" \notin s.db.paused /\ Open(s.db, m) =>
           \A t \in Range(s.db.traces) : Matchable(s.db, m, t) => ~Waits(r.db, m, t)
  BY MatchMandateMatches
<1> HIDE DEF r, m
<1>2. Sound(r.db, r.vault) /\ Follows(r.db, s.db, m) /\ m \in Mandates
  BY <1>1 DEF Matches, m
<1>3. WantsNoMore(r.db, s.db) /\ AsksStill(r.db, s.db)
  BY <1>2, FollowersAreQuiet
<1>4. ReleasesStay(s.db, r.vault)
  BY <1>2 DEF Sound, ReleasesAreRight, ReleasesStay, Follows
<1>5. ASSUME r.ok, NEW t, Wanted(r.db, m, t) PROVE FALSE
  <2>1. /\ t \in Range(s.db.traces) /\ "sales" \notin s.db.paused /\ Open(s.db, m) /\ Matchable(s.db, m, t) /\ Waits(r.db, m, t)
    BY <1>2, <1>5 DEF Wanted, Follows, Stays, Matchable, Alive, Allows, EvidenceOf
  <2> QED BY <1>1, <1>5, <2>1
<1>6. Performed(r, s, job)
  BY <1>2, <1>3, <1>4, <1>5 DEF Performed, m
<1> QED BY <1>6 DEF r, m

LEMMA SettleLicensePerforms ==
  ASSUME NEW s, IsRun(s), Sound(s.db, s.vault), NEW job, job.event = "SettleLicense", job.on \in DOMAIN s.db.licenses
  PROVE  Performed(SettleLicense(s, job.on), s, job)
<1> DEFINE id == job.on
           r == SettleLicense(s, id)
<1>1. ReleasesStay(s.db, s.vault) /\ DOMAIN s.db = Fields
  BY DEF Sound, ReleasesAreRight, Typed
<1>2. CASE id \in DOMAIN s.db.credit
  <2>1. r = s
    BY <1>2 DEF SettleLicense
  <2>2. WantsNoMore(s.db, s.db) /\ AsksStill(s.db, s.db)
    BY DEF WantsNoMore, AsksStill
  <2> QED BY <1>1, <2>1, <2>2 DEF Performed
<1>3. CASE id \notin DOMAIN s.db.credit
  <2> DEFINE new == Settled(s.db, id)
  <2>1. r.db = new /\ r.vault = s.vault
    BY <1>3 DEF SettleLicense, IsRun
  <2>2. Sound(new, s.vault)
    BY <1>3, SettledIsSound
  <2>3. Keeps(new, s.db, {"credit", "burn", "book"})
    BY <1>1 DEF Settled, ChooseIn, Posted, Keeps, Fields
  <2> HIDE DEF new, r
  <2>4. WantsNoMore(new, s.db) /\ AsksStill(new, s.db)
    <3>1. Keeps(new, s.db, {"funding", "licenses", "credit", "burn", "reserved", "outbox", "failed", "book", "sourceGone"})
          /\ new.failed = s.db.failed /\ new.outbox = s.db.outbox
      BY <2>3 DEF Keeps, Fields
    <3> QED BY <3>1, OtherRowsAreQuiet
  <2>5. Performed(r, s, job)
    BY <1>1, <2>1, <2>2, <2>4 DEF Performed
  <2> QED BY <2>5 DEF r
<1> QED BY <1>2, <1>3

\* Candidates that are marked.
Marks(new, candidates, ids, status) ==
  /\ DOMAIN new = DOMAIN candidates
  /\ \A id \in DOMAIN candidates : IF id \in ids THEN new[id] = [candidates[id] EXCEPT !.status = status] ELSE new[id] = candidates[id]
LEMMA MarkedMarks == \A candidates, ids, status : Marks(Marked(candidates, ids, status), candidates, ids, status)
BY DEF Marked, Marks

Restates(new, candidates, ids, status) ==
  /\ IsTable(new, AllIds, CandidateRecords) /\ DOMAIN new = DOMAIN candidates
  /\ \A id \in DOMAIN candidates \cap ids : new[id].status = status
  /\ \A id \in DOMAIN candidates \ ids : new[id] = candidates[id]
LEMMA MarksTable ==
  ASSUME NEW candidates, IsTable(candidates, AllIds, CandidateRecords), NEW ids, NEW status \in {"SUPERSEDED", "EXPIRED", "DELETED"},
         NEW new, Marks(new, candidates, ids, status)
  PROVE  Restates(new, candidates, ids, status)
<1>1. ASSUME NEW id \in DOMAIN candidates, id \in ids PROVE new[id] \in CandidateRecords /\ new[id].status = status
  <2> DEFINE record == [candidates[id] EXCEPT !.status = status]
  <2>1. candidates[id] \in CandidateRecords
    BY DEF IsTable
  <2>2. record \in CandidateRecords /\ record.status = status
    BY <2>1 DEF CandidateRecords
  <2>3. new[id] = record
    BY <1>1 DEF Marks
  <2> QED BY <2>2, <2>3
<1>2. DOMAIN new = DOMAIN candidates /\ \A id \in DOMAIN candidates \ ids : new[id] = candidates[id]
  BY DEF Marks
<1>3. IsTable(new, AllIds, CandidateRecords)
  BY <1>1, <1>2 DEF IsTable
<1> QED BY <1>1, <1>2, <1>3 DEF Restates

LEMMA DeleteTraceObjectsPerforms ==
  ASSUME NEW s, IsRun(s), Sound(s.db, s.vault), NEW job, job.event = "DeleteTraceObjects", job.on \in s.db.deleted
  PROVE  Performed(DeleteTraceObjects(s, job.on), s, job)
<1> DEFINE t == job.on
           ids == Unsold(s.db, t)
           left == s.vault \ ({Source(t)} \cup {Release(id) : id \in ids})
           middle == [s.db EXCEPT !.candidates = Marked(@, ids, "DELETED")]
           new == [middle EXCEPT !.sourceGone = @ \cup {t}]
           r == DeleteTraceObjects(s, t)
<1>1. DOMAIN s = {"db", "vault", "sealed", "ok"} /\ DOMAIN s.db = Fields /\ t \in s.db.deleted
  BY DEF IsRun, Sound, Typed
<1>2. r.db = new /\ r.vault = left
  BY <1>1 DEF DeleteTraceObjects, Fields
<1>3. Keeps(middle, s.db, {"candidates"}) /\ middle.candidates = Marked(s.db.candidates, ids, "DELETED")
  BY <1>1 DEF Keeps, Fields
<1>4. Keeps(new, middle, {"sourceGone"})
  BY <1>1 DEF Keeps, Fields
<1>5. OneCandidate(s.db) /\ LicensedStay(s.db) /\ ReleasesStay(s.db, s.vault) /\ IsTable(s.db.candidates, AllIds, CandidateRecords)
      /\ IsTable(s.db.licenses, DOMAIN s.db.candidates, LicenseRecords)
  BY DEF Sound, ReleasesAreRight, Typed
<1>6. /\ IsTable(middle.candidates, AllIds, CandidateRecords) /\ DOMAIN middle.candidates = DOMAIN s.db.candidates
      /\ \A id \in DOMAIN s.db.candidates \cap ids : middle.candidates[id].status = "DELETED"
      /\ \A id \in DOMAIN s.db.candidates \ ids : middle.candidates[id] = s.db.candidates[id]
  <2>1. Marks(Marked(s.db.candidates, ids, "DELETED"), s.db.candidates, ids, "DELETED")
    BY MarkedMarks, Zenon
  <2> DEFINE c == middle.candidates
  <2>2. Marks(c, s.db.candidates, ids, "DELETED")
    BY <1>3, <2>1
  <2> DEFINE was == s.db.candidates
  <2>3. Marks(c, was, ids, "DELETED") /\ IsTable(was, AllIds, CandidateRecords) /\ "DELETED" \in {"SUPERSEDED", "EXPIRED", "DELETED"}
    BY <1>5, <2>2
  <2> HIDE DEF ids, middle, c, was
  <2>4. Restates(c, was, ids, "DELETED")
    BY <2>3, MarksTable, Zenon
  <2> QED BY <2>4 DEF Restates, c, was
<1>7. \A id \in ids : id \in DOMAIN s.db.candidates /\ TraceOf(id) = t /\ s.db.candidates[id].status # "LICENSED"
  BY DEF Unsold
<1>8. \A id \in DOMAIN s.db.licenses : id \in DOMAIN s.db.candidates /\ id \notin ids
  BY <1>5, <1>7 DEF LicensedStay, IsTable
<1> HIDE DEF ids, middle, new, r
<1>9. \A id : Release(id) # Source(t) /\ \A other : Release(id) = Release(other) => id = other
  BY DEF Release, Source
<1>10. middle.licenses = s.db.licenses /\ Keeps(middle, s.db, {"candidates", "licenses"})
  BY <1>3 DEF Keeps, Fields
<1>11. ReleasesAreRight(middle, left)
  <2>1. OneCandidate(middle)
    BY <1>5, <1>6 DEF OneCandidate, Current
  <2>2. LicensedStay(middle)
    BY <1>5, <1>6, <1>8, <1>10 DEF LicensedStay
  <2>3. ReleasesStay(middle, left)
    BY <1>5, <1>8, <1>9, <1>10 DEF ReleasesStay
  <2> QED BY <2>1, <2>2, <2>3 DEF ReleasesAreRight
<1>12. Sound(middle, left)
  <2>1. \A id \in DOMAIN middle.licenses : middle.licenses[id] \in LicenseRecords
    BY <1>5, <1>10 DEF IsTable
  <2> HIDE DEF left
  <2> QED BY <1>6, <1>10, <1>11, <2>1, CandidatesAreSound
<1>13. Sound(new, left)
  <2>1. /\ Keeps(new, middle, {"traces", "policies", "linked", "revoked", "failed", "paused", "sourceGone", "deleted"})
        /\ new.traces = middle.traces /\ new.policies = middle.policies /\ new.deleted = middle.deleted
    BY <1>4 DEF Keeps, Fields
  <2>2. new.traces \in Seq(case.traces) /\ new.policies \in [Owners -> OwnerPolicies]
    BY <1>12, <2>1 DEF Sound, Typed
  <2> HIDE DEF left
  <2> QED BY <1>12, <2>1, <2>2, PlainRowsAreSound
<1>14. ReleasesStay(s.db, left)
  BY <1>5, <1>8, <1>9 DEF ReleasesStay
<1>15. /\ new.traces = s.db.traces /\ new.deleted = s.db.deleted /\ new.linked = s.db.linked /\ new.revoked = s.db.revoked
       /\ new.policies = s.db.policies /\ new.mandates = s.db.mandates /\ new.paused = s.db.paused
       /\ new.failed = s.db.failed /\ new.outbox = s.db.outbox /\ new.candidates = middle.candidates
  BY <1>3, <1>4 DEF Keeps, Fields
<1>16. ASSUME NEW m, NEW x, Wanted(new, m, x) PROVE Wanted(s.db, m, x)
  <2>1. x \in Range(s.db.traces) /\ "sales" \notin s.db.paused /\ Open(s.db, m) /\ Matchable(s.db, m, x) /\ x # t
    BY <1>1, <1>15, <1>16 DEF Wanted, Open, Matchable, Alive, Allows, EvidenceOf
  <2>2. \A id \in CandidatesOf(s.db, m, x) : id \in DOMAIN s.db.candidates /\ id \notin ids
    BY <1>7, <2>1 DEF CandidatesOf
  <2>3. \A id \in CandidatesOf(s.db, m, x) : new.candidates[id] = s.db.candidates[id]
    BY <1>6, <1>15, <2>2
  <2>4. Existing(new, m, x) = Existing(s.db, m, x)
    BY <1>6, <1>15, <2>3 DEF Existing, CandidatesOf
  <2>5. Waits(s.db, m, x)
    BY <1>15, <1>16, <2>3, <2>4 DEF Wanted, Waits, Existing
  <2> QED BY <2>1, <2>5 DEF Wanted
<1>17. AsksStill(new, s.db)
  BY <1>15 DEF AsksStill, Asked
<1>18. Performed(r, s, job)
  BY <1>2, <1>13, <1>14, <1>16, <1>17 DEF Performed, WantsNoMore
<1> QED BY <1>18 DEF r

LEMMA ReleaseRemoved ==
  ASSUME NEW s, Sound(s.db, s.vault), NEW id, id \notin DOMAIN s.db.licenses \ past.licenses, NEW job, job.event # "MatchMandate",
         NEW r, r.db = s.db, r.vault = s.vault \ {Release(id)}
  PROVE  Performed(r, s, job)
<1>1. ReleasesStay(s.db, s.vault \ {Release(id)})
  BY DEF Sound, ReleasesAreRight, ReleasesStay, Release
<1>2. Sound(s.db, r.vault)
  BY <1>1 DEF Sound, ReleasesAreRight
<1> QED BY <1>1, <1>2 DEF Performed, WantsNoMore, AsksStill

LEMMA DeleteExpiredPerforms ==
  ASSUME NEW s, IsRun(s), Sound(s.db, s.vault), NEW job
  PROVE  /\ job.event = "DeleteExpiredCandidate" /\ job.on \in DOMAIN s.db.candidates => Performed(DeleteExpiredCandidate(s, job.on), s, job)
         /\ job.event = "DeleteExpiredRelease" /\ job.on \in past.licenses => Performed(DeleteExpiredRelease(s, job.on), s, job)
<1>1. ASSUME job.event = "DeleteExpiredCandidate", s.db.candidates[job.on].status = "LICENSED"
      PROVE  Performed(DeleteExpiredCandidate(s, job.on), s, job)
  <2> DEFINE r == DeleteExpiredCandidate(s, job.on)
  <2>1. r.db = s.db /\ r.vault = s.vault
    BY <1>1 DEF DeleteExpiredCandidate, IsRun
  <2> HIDE DEF r
  <2>2. Performed(r, s, job)
    BY <1>1, <2>1 DEF Performed, WantsNoMore, AsksStill, Sound, ReleasesAreRight
  <2> QED BY <2>2 DEF r
<1>2. ASSUME job.event = "DeleteExpiredCandidate", s.db.candidates[job.on].status # "LICENSED"
      PROVE  Performed(DeleteExpiredCandidate(s, job.on), s, job)
  <2> DEFINE r == DeleteExpiredCandidate(s, job.on)
  <2>1. r.db = s.db /\ r.vault = s.vault \ {Release(job.on)}
    BY <1>2 DEF DeleteExpiredCandidate, IsRun
  <2>2. job.on \notin DOMAIN s.db.licenses
    BY <1>2 DEF Sound, ReleasesAreRight, LicensedStay
  <2> HIDE DEF r
  <2>3. Performed(r, s, job)
    BY <1>2, <2>1, <2>2, ReleaseRemoved
  <2> QED BY <2>3 DEF r
<1>3. ASSUME job.event = "DeleteExpiredRelease", job.on \in past.licenses
      PROVE  Performed(DeleteExpiredRelease(s, job.on), s, job)
  <2> DEFINE r == DeleteExpiredRelease(s, job.on)
  <2>1. r.db = s.db /\ r.vault = s.vault \ {Release(job.on)}
    BY DEF DeleteExpiredRelease, IsRun
  <2> HIDE DEF r
  <2>2. Performed(r, s, job)
    BY <1>3, <2>1, ReleaseRemoved
  <2> QED BY <2>2 DEF r
<1> QED BY <1>1, <1>2, <1>3

LEMMA JobsPerform ==
  ASSUME CaseIsChosen, NEW s, IsRun(s), Sound(s.db, s.vault), NEW job \in JobRecords, JobIsSound(s.db, job)
  PROVE  Performed(Perform(s, job), s, job)
<1>1. job.event \in JobEvents
  BY DEF JobRecords
<1>2. CASE job.event = "MatchMandate"
  <2>1. Perform(s, job) = MatchMandate(s, job.on) /\ job.on \in Mandates
    BY <1>2 DEF Perform, JobIsSound
  <2> QED BY <1>2, <2>1, MatchMandatePerforms
<1>3. CASE job.event = "SettleLicense"
  <2>1. Perform(s, job) = SettleLicense(s, job.on) /\ job.on \in DOMAIN s.db.licenses
    BY <1>3 DEF Perform, JobIsSound
  <2> QED BY <1>3, <2>1, SettleLicensePerforms
<1>4. CASE job.event = "DeleteTraceObjects"
  <2>1. Perform(s, job) = DeleteTraceObjects(s, job.on) /\ job.on \in s.db.deleted
    BY <1>4 DEF Perform, JobIsSound
  <2> QED BY <1>4, <2>1, DeleteTraceObjectsPerforms
<1>5. CASE job.event = "DeleteExpiredCandidate"
  <2>1. Perform(s, job) = DeleteExpiredCandidate(s, job.on) /\ job.on \in DOMAIN s.db.candidates
    BY <1>5 DEF Perform, JobIsSound
  <2> QED BY <1>5, <2>1, DeleteExpiredPerforms
<1>6. CASE job.event = "DeleteExpiredRelease"
  <2>1. Perform(s, job) = DeleteExpiredRelease(s, job.on) /\ job.on \in past.licenses
    BY <1>6 DEF Perform, JobIsSound
  <2> QED BY <1>6, <2>1, DeleteExpiredPerforms
<1> QED BY <1>1, <1>2, <1>3, <1>4, <1>5, <1>6 DEF JobEvents

(***************************************************************************)
(* The steps of the worker.                                                  *)
(***************************************************************************)
LEMMA GoodIsKept ==
  ASSUME CaseIsChosen, UNCHANGED <<case, past>>, Good(tables', vault')
  PROVE  MarketInv'
<1>1. CaseIsChosen'
  BY DEF CaseIsChosen
<1>2. Sound(tables, vault)'
  <2>1. Typed(tables)'
    BY DEF Good, Sound, Typed
  <2>2. JobsAreSound(tables)'
    BY DEF Good, Sound, JobsAreSound, JobIsSound
  <2>3. ReleasesAreRight(tables, vault)'
    BY DEF Good, Sound, ReleasesAreRight, ReleasesStay
  <2>4. WithinTerms(tables)' /\ LedgerIsRight(tables)'
    BY DEF Good, Sound
  <2> QED BY <2>1, <2>2, <2>3, <2>4 DEF Sound
<1>3. MatchesAsked(tables)'
  BY DEF Good, MatchesAsked, Wanted, Open, Matchable, Alive
<1> QED BY <1>1, <1>2, <1>3 DEF MarketInv

\* The rows a job works on: those there are, without the job.
Taken(i) == [Begin EXCEPT !.db.outbox = RemoveAt(@, i)]
LEMMA JobIsTaken ==
  ASSUME MarketInv, NEW i \in DOMAIN tables.outbox
  PROVE  /\ IsRun(Taken(i)) /\ Sound(Taken(i).db, Taken(i).vault) /\ Taken(i).vault = vault
         /\ Keeps(Taken(i).db, tables, {"outbox"})
         /\ Range(tables.outbox) \subseteq Range(Taken(i).db.outbox) \cup {tables.outbox[i]}
         /\ tables.outbox[i] \in JobRecords /\ JobIsSound(Taken(i).db, tables.outbox[i])
<1> DEFINE s == Taken(i)
           rows == [tables EXCEPT !.outbox = RemoveAt(@, i)]
<1>1. Sound(tables, vault) /\ DOMAIN tables = Fields /\ tables.outbox \in Seq(JobRecords) /\ JobsAreSound(tables)
  BY DEF MarketInv, Sound, Typed
<1>2. s.db = rows /\ s.vault = vault
  BY DEF Taken, Begin
<1>3. IsRun(s) /\ s.db = rows /\ s.vault = vault
  BY <1>2 DEF IsRun, Taken, Begin
<1>4. Keeps(rows, tables, {"outbox"}) /\ rows.outbox = RemoveAt(tables.outbox, i)
  BY <1>1 DEF Keeps, Fields
<1> HIDE DEF rows, s
<1>5. /\ rows.outbox \in Seq(JobRecords) /\ Range(rows.outbox) \subseteq Range(tables.outbox)
      /\ Range(tables.outbox) \subseteq Range(rows.outbox) \cup {tables.outbox[i]}
  BY <1>1, <1>4, OneLess
<1>6. tables.outbox[i] \in JobRecords /\ tables.outbox[i] \in Range(tables.outbox)
  BY <1>1, ElementOfSeq, LenProperties DEF Range
<1>7. /\ rows.traces = tables.traces /\ rows.deleted = tables.deleted /\ rows.policies = tables.policies /\ rows.mandates = tables.mandates
      /\ rows.funding = tables.funding /\ rows.candidates = tables.candidates /\ rows.licenses = tables.licenses /\ rows.credit = tables.credit
      /\ rows.burn = tables.burn /\ rows.reserved = tables.reserved /\ rows.book = tables.book /\ DOMAIN rows = Fields
  BY <1>4 DEF Keeps, Fields
<1>8. Typed(rows)
  BY <1>1, <1>5, <1>7 DEF Sound, Typed
<1>9. JobIsSound(rows, tables.outbox[i]) /\ JobsAreSound(rows)
  BY <1>1, <1>5, <1>6, <1>7 DEF JobsAreSound, JobIsSound
<1>10. ReleasesAreRight(rows, vault)
  BY <1>1, <1>7 DEF Sound, ReleasesAreRight, OneCandidate, Current, LicensedStay, ReleasesStay
<1>11. WithinTerms(rows) /\ LedgerIsRight(rows)
  BY <1>1, <1>7, TermsKept, LedgerKept DEF Sound
<1>12. Sound(rows, vault)
  BY <1>8, <1>9, <1>10, <1>11 DEF Sound
<1> QED BY <1>3, <1>4, <1>5, <1>6, <1>9, <1>12 DEF s

LEMMA RunJobIsGood == ASSUME MarketInv, NEW i \in DOMAIN tables.outbox, RunJob(i) PROVE MarketInv'
<1> DEFINE s == Taken(i)
           job == tables.outbox[i]
           done == Perform(s, job)
<1>1. done.ok /\ tables' = done.db /\ vault' = done.vault /\ UNCHANGED <<case, past>>
  BY DEF RunJob, Taken
<1>2. /\ IsRun(s) /\ Sound(s.db, s.vault) /\ Keeps(s.db, tables, {"outbox"})
      /\ Range(tables.outbox) \subseteq Range(s.db.outbox) \cup {job}
      /\ job \in JobRecords /\ JobIsSound(s.db, job)
  BY JobIsTaken
<1>3. CaseIsChosen /\ MatchesAsked(tables)
  BY DEF MarketInv
<1> HIDE DEF s, job, done
<1>4. Performed(done, s, job)
  BY <1>2, <1>3, JobsPerform DEF done
<1>5. \A m, t : Wanted(s.db, m, t) => Wanted(tables, m, t)
  <2>1. /\ s.db.traces = tables.traces /\ s.db.deleted = tables.deleted /\ s.db.linked = tables.linked /\ s.db.revoked = tables.revoked
        /\ s.db.policies = tables.policies /\ s.db.mandates = tables.mandates /\ s.db.candidates = tables.candidates
        /\ s.db.paused = tables.paused
    BY <1>2 DEF Keeps, Fields
  <2> QED BY <2>1 DEF Wanted, Open, Matchable, Alive, Allows, EvidenceOf, Waits, Existing, CandidatesOf
<1>6. \A m : Asked(tables, m) => Asked(s.db, m) \/ (job.event = "MatchMandate" /\ job.on = m)
  <2>1. s.db.failed = tables.failed
    BY <1>2 DEF Keeps, Fields
  <2> QED BY <1>2, <2>1 DEF Asked
<1>7. ASSUME NEW m \in case.mandates, NEW t, Wanted(done.db, m, t) PROVE Asked(done.db, m)
  <2>1. Wanted(tables, m, t) /\ ~(job.event = "MatchMandate" /\ job.on = m)
    BY <1>1, <1>4, <1>5, <1>7 DEF Performed, WantsNoMore
  <2>2. Asked(s.db, m)
    BY <1>3, <1>6, <2>1 DEF MatchesAsked
  <2> QED BY <1>4, <2>2 DEF Performed, AsksStill
<1>8. Good(tables', vault')
  BY <1>1, <1>4, <1>7 DEF Performed, Good, MatchesAsked
<1> QED BY <1>1, <1>3, <1>8, GoodIsKept

\* A job that failed: it is tried again, or it is given up.
Retries(new, i) ==
  LET job == tables.outbox[i] IN
  /\ Keeps(new, tables, {"outbox", "failed"})
  /\ \/ new.outbox = [tables.outbox EXCEPT ![i] = [job EXCEPT !.attempts = @ + 1]] /\ new.failed = tables.failed
     \/ new.outbox = RemoveAt(tables.outbox, i) /\ new.failed = tables.failed \cup {<<job.event, job.on>>}
LEMMA RetriedIsGood ==
  ASSUME MarketInv, NEW i \in DOMAIN tables.outbox, NEW new, Retries(new, i), NEW kept, ReleasesStay(tables, kept)
  PROVE  Good(new, kept)
<1> DEFINE job == tables.outbox[i]
           again == [job EXCEPT !.attempts = @ + 1]
<1>1. Sound(tables, vault) /\ Typed(tables) /\ tables.outbox \in Seq(JobRecords) /\ JobsAreSound(tables) /\ MatchesAsked(tables)
  BY DEF MarketInv, Sound, Typed
<1>2. job \in JobRecords /\ job \in Range(tables.outbox)
  BY <1>1, ElementOfSeq, LenProperties DEF Range
<1>3. again \in JobRecords /\ again.event = job.event /\ again.on = job.on
  <2>1. job.attempts \in Nat /\ job.attempts + 1 \in Nat
    BY <1>2 DEF JobRecords
  <2> QED BY <1>2, <2>1 DEF JobRecords
<1> HIDE DEF job, again
<1>4. /\ new.outbox \in Seq(JobRecords) /\ \A x \in Range(new.outbox) : x \in Range(tables.outbox) \/ x = again
      /\ \A x \in Range(tables.outbox) : x \in Range(new.outbox) \/ (x = job /\ (again \in Range(new.outbox) \/ <<job.event, job.on>> \in new.failed))
      /\ tables.failed \subseteq new.failed
  <2>1. CASE new.outbox = [tables.outbox EXCEPT ![i] = again] /\ new.failed = tables.failed
    <3>1. /\ new.outbox \in Seq(JobRecords) /\ DOMAIN new.outbox = DOMAIN tables.outbox /\ new.outbox[i] = again
          /\ \A j \in DOMAIN tables.outbox : j # i => new.outbox[j] = tables.outbox[j]
      BY <1>1, <1>3, <2>1, ExceptSeq, LenProperties
    <3> QED BY <2>1, <3>1 DEF Range, job
  <2>2. CASE new.outbox = RemoveAt(tables.outbox, i) /\ new.failed = tables.failed \cup {<<job.event, job.on>>}
    <3>1. /\ new.outbox \in Seq(JobRecords) /\ Range(new.outbox) \subseteq Range(tables.outbox)
          /\ Range(tables.outbox) \subseteq Range(new.outbox) \cup {job}
      BY <1>1, <2>2, OneLess DEF job
    <3> QED BY <2>2, <3>1
  <2> QED BY <2>1, <2>2 DEF Retries, job, again
<1>5. /\ new.traces = tables.traces /\ new.deleted = tables.deleted /\ new.policies = tables.policies /\ new.mandates = tables.mandates
      /\ new.funding = tables.funding /\ new.candidates = tables.candidates /\ new.licenses = tables.licenses /\ new.credit = tables.credit
      /\ new.burn = tables.burn /\ new.reserved = tables.reserved /\ new.book = tables.book /\ DOMAIN new = Fields
      /\ new.linked = tables.linked /\ new.revoked = tables.revoked /\ new.paused = tables.paused
  BY DEF Retries, Keeps, Fields
<1>6. Typed(new)
  BY <1>1, <1>4, <1>5 DEF Typed
<1>7. JobsAreSound(new)
  <2>1. \A x \in Range(tables.outbox) : JobIsSound(new, x)
    BY <1>1, <1>5 DEF JobsAreSound, JobIsSound
  <2>2. JobIsSound(new, again)
    BY <1>2, <1>3, <2>1 DEF JobIsSound
  <2> QED BY <1>4, <2>1, <2>2 DEF JobsAreSound
<1>8. ReleasesAreRight(new, kept)
  BY <1>1, <1>5 DEF Sound, ReleasesAreRight, OneCandidate, Current, LicensedStay, ReleasesStay
<1>9. WithinTerms(new) /\ LedgerIsRight(new)
  BY <1>1, <1>5, TermsKept, LedgerKept DEF Sound
<1>10. Sound(new, kept)
  BY <1>6, <1>7, <1>8, <1>9 DEF Sound
<1>11. WantsNoMore(new, tables)
  BY <1>5 DEF WantsNoMore, Wanted, Open, Matchable, Alive, Allows, EvidenceOf, Waits, Existing, CandidatesOf
<1>12. AsksStill(new, tables)
  <2> SUFFICES ASSUME NEW m, Asked(tables, m) PROVE Asked(new, m)
    BY DEF AsksStill
  <2>1. CASE <<"MatchMandate", m>> \in tables.failed
    BY <1>4, <2>1 DEF Asked
  <2>2. CASE \E x \in Range(tables.outbox) : x.event = "MatchMandate" /\ x.on = m
    <3>1. PICK x \in Range(tables.outbox) : x.event = "MatchMandate" /\ x.on = m
      BY <2>2
    <3>2. CASE x \in Range(new.outbox)
      BY <3>1, <3>2 DEF Asked
    <3>3. CASE x = job /\ again \in Range(new.outbox)
      BY <1>3, <3>1, <3>3 DEF Asked
    <3>4. CASE x = job /\ <<job.event, job.on>> \in new.failed
      BY <3>1, <3>4 DEF Asked
    <3> QED BY <1>4, <3>2, <3>3, <3>4
  <2> QED BY <2>1, <2>2 DEF Asked
<1> QED BY <1>1, <1>10, <1>11, <1>12, QuietIsGood

LEMMA FailJobIsGood == ASSUME MarketInv, NEW i \in DOMAIN tables.outbox, FailJob(i) PROVE MarketInv'
<1> DEFINE s == Taken(i)
           job == tables.outbox[i]
           done == Perform(s, job)
           more == job.attempts + 1
<1>1. /\ vault \cap done.vault \subseteq vault' /\ UNCHANGED <<case, past>>
      /\ tables' = [tables EXCEPT !.outbox = IF more < MAX_ATTEMPTS THEN [@ EXCEPT ![i].attempts = more] ELSE RemoveAt(@, i),
                                  !.failed = IF more < MAX_ATTEMPTS THEN @ ELSE @ \cup {<<job.event, job.on>>}]
  BY DEF FailJob, Taken
<1>2. /\ IsRun(s) /\ Sound(s.db, s.vault) /\ Keeps(s.db, tables, {"outbox"})
      /\ job \in JobRecords /\ JobIsSound(s.db, job)
  BY JobIsTaken
<1>3. CaseIsChosen /\ ReleasesStay(tables, vault) /\ DOMAIN tables = Fields
  BY DEF MarketInv, Sound, ReleasesAreRight, Typed
<1>4. ReleasesStay(s.db, done.vault)
  <2>1. Performed(Perform(s, job), s, job)
    <3> HIDE DEF s, job
    <3> QED BY <1>2, <1>3, JobsPerform
  <2> QED BY <2>1 DEF Performed
<1>5. Retries(tables', i)
  <2>1. CASE more < MAX_ATTEMPTS
    <3>1. /\ tables' = [tables EXCEPT !.outbox = [@ EXCEPT ![i].attempts = more], !.failed = @]
      BY <1>1, <2>1
    <3> QED BY <1>3, <3>1 DEF Retries, Keeps, Fields
  <2>2. CASE ~(more < MAX_ATTEMPTS)
    <3>1. /\ tables' = [tables EXCEPT !.outbox = RemoveAt(@, i), !.failed = @ \cup {<<job.event, job.on>>}]
      BY <1>1, <2>2
    <3> QED BY <1>3, <3>1 DEF Retries, Keeps, Fields
  <2> QED BY <2>1, <2>2
<1> HIDE DEF done
<1>6. ReleasesStay(tables, vault')
  <2>1. s.db.licenses = tables.licenses
    BY <1>2 DEF Keeps, Fields
  <2> QED BY <1>1, <1>3, <1>4, <2>1 DEF ReleasesStay
<1>7. Good(tables', vault')
  BY <1>5, <1>6, RetriedIsGood
<1> QED BY <1>1, <1>3, <1>7, GoodIsKept

(***************************************************************************)
(* The steps of contributors.                                                *)
(***************************************************************************)
LEMMA MatchingIsGood ==
  ASSUME CaseIsChosen, NEW db, NEW kept, Sound(db, kept)
  PROVE  Good(EnqueueMatching(db), kept)
<1> DEFINE new == EnqueueMatching(db)
<1>1. DOMAIN db = Fields /\ db.outbox \in Seq(JobRecords) /\ case.mandates \subseteq Mandates
  BY CaseAssumption DEF Sound, Typed, CaseIsChosen
<1>2. PICK S \in SUBSET case.mandates :
        /\ Queues(new, db, JobsFor("MatchMandate", S))
        /\ \A m \in case.mandates : Open(db, m) => m \in S \/ Queued(db, "MatchMandate", m)
  BY <1>1, MatchingQueues
<1> HIDE DEF new
<1>3. Sound(new, kept)
  <2>1. \A job \in JobsFor("MatchMandate", S) : JobIsSound(db, job)
    BY <1>1 DEF JobsFor, Job, JobIsSound
  <2> QED BY <1>2, <2>1, QueueKeepsSound
<1>4. ASSUME NEW m \in case.mandates, NEW t, Wanted(new, m, t) PROVE Asked(new, m)
  <2>1. Open(db, m) /\ Range(new.outbox) = Range(db.outbox) \cup JobsFor("MatchMandate", S)
    BY <1>2, <1>4 DEF Wanted, Open, Queues, Keeps, Fields
  <2>2. CASE m \in S
    <3>1. Job("MatchMandate", m) \in Range(new.outbox)
      BY <2>1, <2>2 DEF JobsFor
    <3> QED BY <3>1 DEF Asked, Job
  <2>3. CASE Queued(db, "MatchMandate", m)
    <3>1. PICK i \in 1..Len(db.outbox) : db.outbox[i].event = "MatchMandate" /\ db.outbox[i].on = m
      BY <2>3 DEF Queued
    <3>2. db.outbox[i] \in Range(new.outbox)
      BY <1>1, <2>1, <3>1, LenProperties DEF Range
    <3> QED BY <3>1, <3>2 DEF Asked
  <2> QED BY <1>2, <2>1, <2>2, <2>3
<1>5. Good(new, kept)
  BY <1>3, <1>4 DEF Good, MatchesAsked
<1> QED BY <1>5 DEF new

LEMMA ImportTraceIsGood == ASSUME MarketInv, NEW t \in case.traces, ImportTrace(t) PROVE MarketInv'
<1> DEFINE rows == [tables EXCEPT !.traces = Append(@, t)]
           more == vault \cup {Source(t)}
<1>1. CaseIsChosen /\ Sound(tables, vault) /\ DOMAIN tables = Fields /\ tables.traces \in Seq(case.traces) /\ tables.policies \in [Owners -> OwnerPolicies]
  BY DEF MarketInv, Sound, Typed
<1>2. tables' = EnqueueMatching(rows) /\ vault' = more /\ UNCHANGED <<case, past>>
  BY DEF ImportTrace
<1>3. /\ Keeps(rows, tables, {"traces", "policies", "linked", "revoked", "failed", "paused", "sourceGone", "deleted"})
      /\ rows.traces \in Seq(case.traces) /\ rows.policies = tables.policies /\ rows.deleted = tables.deleted
  <2>1. Append(tables.traces, t) \in Seq(case.traces)
    BY <1>1, OneMore
  <2> QED BY <1>1, <2>1 DEF Keeps, Fields
<1> HIDE DEF rows
<1>4. Sound(rows, more)
  BY <1>1, <1>3, PlainRowsAreSound
<1>5. Good(EnqueueMatching(rows), more)
  BY <1>1, <1>4, MatchingIsGood
<1> QED BY <1>1, <1>2, <1>5, GoodIsKept

LEMMA PlainWriteIsSound ==
  ASSUME MarketInv, NEW rows, Keeps(rows, tables, {"linked", "revoked", "paused", "deleted"}), tables.deleted \subseteq rows.deleted
  PROVE  Sound(rows, vault)
<1>1. Sound(tables, vault) /\ Typed(tables)
  BY DEF MarketInv, Sound
<1>2. rows.traces = tables.traces /\ rows.policies = tables.policies
      /\ Keeps(rows, tables, {"traces", "policies", "linked", "revoked", "failed", "paused", "sourceGone", "deleted"})
  BY DEF Keeps, Fields
<1>3. rows.traces \in Seq(case.traces) /\ rows.policies \in [Owners -> OwnerPolicies]
  BY <1>1, <1>2 DEF Typed
<1> QED BY <1>1, <1>2, <1>3, PlainRowsAreSound

LEMMA LinkEvidenceIsGood == ASSUME MarketInv, NEW t \in case.traces, LinkEvidence(t) PROVE MarketInv'
<1> DEFINE rows == [tables EXCEPT !.linked = @ \cup {t}]
<1>1. CaseIsChosen /\ DOMAIN tables = Fields
  BY DEF MarketInv, Sound, Typed
<1>2. tables' = EnqueueMatching(rows) /\ UNCHANGED <<case, vault, past>>
  BY DEF LinkEvidence, Write
<1>3. Keeps(rows, tables, {"linked", "revoked", "paused", "deleted"}) /\ rows.deleted = tables.deleted
  BY <1>1 DEF Keeps, Fields
<1> HIDE DEF rows
<1>4. Sound(rows, vault)
  BY <1>3, PlainWriteIsSound
<1>5. Good(EnqueueMatching(rows), vault)
  BY <1>1, <1>4, MatchingIsGood
<1> QED BY <1>1, <1>2, <1>5, GoodIsKept

LEMMA RevokeReceiptIsGood == ASSUME MarketInv, NEW t \in case.traces, RevokeReceipt(t) PROVE MarketInv'
<1> DEFINE rows == [tables EXCEPT !.revoked = @ \cup {t}]
<1>1. CaseIsChosen /\ DOMAIN tables = Fields /\ MatchesAsked(tables)
  BY DEF MarketInv, Sound, Typed
<1>2. tables' = rows /\ UNCHANGED <<case, vault, past>>
  BY DEF RevokeReceipt, Write
<1>3. Keeps(rows, tables, {"linked", "revoked", "paused", "deleted"}) /\ Keeps(rows, tables, {"revoked"}) /\ rows.deleted = tables.deleted
      /\ rows.revoked = tables.revoked \cup {t}
  BY <1>1 DEF Keeps, Fields
<1> HIDE DEF rows
<1>4. Sound(rows, vault)
  BY <1>3, PlainWriteIsSound
<1>5. /\ rows.traces = tables.traces /\ rows.linked = tables.linked /\ rows.failed = tables.failed /\ rows.outbox = tables.outbox
      /\ rows.policies = tables.policies /\ rows.mandates = tables.mandates /\ rows.candidates = tables.candidates /\ rows.paused = tables.paused
  BY <1>3 DEF Keeps, Fields
<1>6. WantsNoMore(rows, tables)
  BY <1>3, <1>5 DEF WantsNoMore, Wanted, Open, Matchable, Alive, Allows, EvidenceOf, Waits, Existing, CandidatesOf
<1>7. AsksStill(rows, tables)
  BY <1>5 DEF AsksStill, Asked
<1>8. Good(rows, vault)
  BY <1>1, <1>4, <1>6, <1>7, QuietIsGood
<1> QED BY <1>1, <1>2, <1>8, GoodIsKept

LEMMA DeleteTraceIsGood == ASSUME MarketInv, NEW t \in case.traces, DeleteTrace(t) PROVE MarketInv'
<1> DEFINE rows == [tables EXCEPT !.deleted = @ \cup {t}]
           new == Enqueue(rows, "DeleteTraceObjects", t)
<1>1. CaseIsChosen /\ DOMAIN tables = Fields /\ MatchesAsked(tables) /\ t \in Names
  BY CaseAssumption DEF MarketInv, Sound, Typed, CaseIsChosen, Names
<1>2. tables' = new /\ UNCHANGED <<case, vault, past>>
  BY DEF DeleteTrace, Write
<1>3. Keeps(rows, tables, {"linked", "revoked", "paused", "deleted"}) /\ Keeps(rows, tables, {"deleted"}) /\ rows.deleted = tables.deleted \cup {t}
  BY <1>1 DEF Keeps, Fields
<1> HIDE DEF rows
<1>4. Sound(rows, vault)
  BY <1>3, PlainWriteIsSound
<1>5. Queues(new, rows, {Job("DeleteTraceObjects", t)})
  <2>1. DOMAIN rows = Fields /\ rows.outbox \in Seq(JobRecords)
    BY <1>4 DEF Sound, Typed
  <2> QED BY <1>1, <2>1, EnqueueQueues DEF JobEvents
<1> HIDE DEF new
<1>6. Sound(new, vault)
  <2>1. JobIsSound(rows, Job("DeleteTraceObjects", t))
    BY <1>3 DEF JobIsSound, Job
  <2> QED BY <1>4, <1>5, <2>1, QueueKeepsSound
<1>7. /\ new.traces = tables.traces /\ new.linked = tables.linked /\ new.failed = tables.failed /\ new.revoked = tables.revoked
      /\ new.policies = tables.policies /\ new.mandates = tables.mandates /\ new.candidates = tables.candidates /\ new.paused = tables.paused
      /\ new.deleted = tables.deleted \cup {t} /\ Range(tables.outbox) \subseteq Range(new.outbox)
  BY <1>3, <1>5 DEF Keeps, Fields, Queues
<1>8. WantsNoMore(new, tables)
  BY <1>7 DEF WantsNoMore, Wanted, Open, Matchable, Alive, Allows, EvidenceOf, Waits, Existing, CandidatesOf
<1>9. AsksStill(new, tables)
  BY <1>7 DEF AsksStill, Asked
<1>10. Good(new, vault)
  BY <1>1, <1>6, <1>8, <1>9, QuietIsGood
<1> QED BY <1>1, <1>2, <1>10, GoodIsKept

LEMMA ContributorIsGood == ASSUME MarketInv, Contributor PROVE MarketInv'
<1>1. PICK t \in case.traces : \/ ImportTrace(t)
                               \/ May("evidence") /\ (LinkEvidence(t) \/ RevokeReceipt(t))
                               \/ May("delete") /\ DeleteTrace(t)
  BY DEF Contributor
<1> QED BY <1>1, ImportTraceIsGood, LinkEvidenceIsGood, RevokeReceiptIsGood, DeleteTraceIsGood

LEMMA PolicyExpiresIsGood == ASSUME MarketInv, NEW o \in Owners, PolicyExpires(o) PROVE MarketInv'
<1> DEFINE record == [tables.policies[o] EXCEPT !.allows = {}]
           rows == [tables EXCEPT !.policies[o].allows = {}]
<1>1. /\ CaseIsChosen /\ Sound(tables, vault) /\ DOMAIN tables = Fields /\ MatchesAsked(tables)
      /\ tables.traces \in Seq(case.traces) /\ tables.policies \in [Owners -> OwnerPolicies]
  BY DEF MarketInv, Sound, Typed
<1>2. tables' = rows /\ UNCHANGED <<case, vault, past>>
  <2>1. Write(rows)
    BY DEF PolicyExpires
  <2> HIDE DEF rows
  <2> QED BY <2>1 DEF Write
<1>3. record \in OwnerPolicies /\ record.allows = {} /\ record.version = tables.policies[o].version
  BY <1>1 DEF OwnerPolicies
<1>4. /\ Keeps(rows, tables, {"traces", "policies", "linked", "revoked", "failed", "paused", "sourceGone", "deleted"})
      /\ Keeps(rows, tables, {"policies"}) /\ rows.policies = [tables.policies EXCEPT ![o] = record]
  BY <1>1 DEF Keeps, Fields
<1> HIDE DEF record, rows
<1>5. /\ rows.traces = tables.traces /\ rows.linked = tables.linked /\ rows.failed = tables.failed /\ rows.outbox = tables.outbox
      /\ rows.revoked = tables.revoked /\ rows.deleted = tables.deleted
      /\ rows.mandates = tables.mandates /\ rows.candidates = tables.candidates /\ rows.paused = tables.paused
  BY <1>4 DEF Keeps, Fields
<1>6. rows.policies \in [Owners -> OwnerPolicies]
  BY <1>1, <1>3, <1>4
<1>7. Sound(rows, vault)
  BY <1>1, <1>4, <1>5, <1>6, PlainRowsAreSound
<1>8. \A x \in Owners : rows.policies[x].version = tables.policies[x].version /\ rows.policies[x].allows \subseteq tables.policies[x].allows
  BY <1>1, <1>3, <1>4
<1>9. WantsNoMore(rows, tables)
  <2> SUFFICES ASSUME NEW m \in case.mandates, NEW t, Wanted(rows, m, t) PROVE Wanted(tables, m, t)
    BY DEF WantsNoMore
  <2>1. t \in case.traces
    BY <1>1, <1>5 DEF Wanted, Range
  <2>2. OwnerOf[t] \in Owners
    BY <1>1, <2>1, CaseAssumption DEF CaseIsChosen, Owners
  <2>3. Allows(rows, m, t) => Allows(tables, m, t)
    BY <1>8, <2>2 DEF Allows
  <2>4. Waits(rows, m, t) => Waits(tables, m, t)
    BY <1>5, <1>8, <2>2 DEF Waits, Existing, CandidatesOf
  <2> QED BY <1>5, <2>3, <2>4 DEF Wanted, Open, Matchable, Alive, EvidenceOf
<1>10. AsksStill(rows, tables)
  BY <1>5 DEF AsksStill, Asked
<1>11. Good(rows, vault)
  BY <1>1, <1>7, <1>9, <1>10, QuietIsGood
<1> QED BY <1>1, <1>2, <1>11, GoodIsKept

LEMMA CreatePolicyIsGood ==
  ASSUME MarketInv, \E o \in {OwnerOf[t] : t \in case.traces}, allows \in {{}, case.mandates}, standing \in BOOLEAN :
                      CreatePolicy(o, allows, standing)
  PROVE  MarketInv'
<1>1. PICK o \in {OwnerOf[t] : t \in case.traces}, allows \in {{}, case.mandates}, standing \in BOOLEAN : CreatePolicy(o, allows, standing)
  OBVIOUS
<1> DEFINE record == [version |-> tables.policies[o].version + 1, allows |-> allows, standing |-> standing]
           rows == [tables EXCEPT !.policies[o] = record]
<1>2. /\ CaseIsChosen /\ Sound(tables, vault) /\ DOMAIN tables = Fields
      /\ tables.traces \in Seq(case.traces) /\ tables.policies \in [Owners -> OwnerPolicies]
      /\ o \in Owners /\ allows \in SUBSET Mandates
  BY <1>1, CaseAssumption DEF MarketInv, Sound, Typed, CaseIsChosen, Owners
<1>3. tables' = EnqueueMatching(rows) /\ UNCHANGED <<case, vault, past>>
  BY <1>1 DEF CreatePolicy, Write
<1>4. record \in OwnerPolicies
  <2>1. tables.policies[o].version \in Nat
    BY <1>2 DEF OwnerPolicies
  <2>2. tables.policies[o].version + 1 \in Nat
    BY <2>1
  <2> QED BY <1>1, <1>2, <2>2 DEF OwnerPolicies
<1> HIDE DEF record
<1>5. /\ Keeps(rows, tables, {"traces", "policies", "linked", "revoked", "failed", "paused", "sourceGone", "deleted"})
      /\ rows.traces = tables.traces /\ rows.policies = [tables.policies EXCEPT ![o] = record] /\ rows.deleted = tables.deleted
  BY <1>2 DEF Keeps, Fields
<1> HIDE DEF rows
<1>6. rows.policies \in [Owners -> OwnerPolicies]
  BY <1>2, <1>4, <1>5
<1>7. Sound(rows, vault)
  BY <1>2, <1>5, <1>6, PlainRowsAreSound
<1>8. Good(EnqueueMatching(rows), vault)
  BY <1>2, <1>7, MatchingIsGood
<1> QED BY <1>2, <1>3, <1>8, GoodIsKept

LEMMA ConsentIsGood == ASSUME MarketInv, Consent PROVE MarketInv'
<1>1. {OwnerOf[t] : t \in case.traces} \subseteq Owners
  BY CaseAssumption DEF MarketInv, CaseIsChosen, Owners
<1>2. PICK o \in {OwnerOf[t] : t \in case.traces} :
        (\E allows \in {{}, case.mandates}, standing \in BOOLEAN : CreatePolicy(o, allows, standing)) \/ PolicyExpires(o)
  BY Zenon DEF Consent
<1>3. CASE \E allows \in {{}, case.mandates}, standing \in BOOLEAN : CreatePolicy(o, allows, standing)
  BY <1>3, CreatePolicyIsGood
<1>4. CASE PolicyExpires(o)
  BY <1>1, <1>4, PolicyExpiresIsGood
<1> QED BY <1>2, <1>3, <1>4

(***************************************************************************)
(* The steps of buyers.                                                      *)
(***************************************************************************)
\* A mandate gets a status.
GetsStatus(new, db, m, status) ==
  /\ Keeps(new, db, {"mandates"}) /\ DOMAIN new.mandates = Mandates /\ new.mandates[m].status = status
  /\ \A x \in Mandates : x # m => new.mandates[x] = db.mandates[x]
LEMMA StatusWritten ==
  ASSUME MarketInv, NEW m \in Mandates, NEW status \in {"draft", "pending_funding", "active", "paused"}
  PROVE  LET new == [tables EXCEPT !.mandates[m].status = status] IN Sound(new, vault) /\ GetsStatus(new, tables, m, status)
<1> DEFINE row == tables.mandates[m]
           record == [row EXCEPT !.status = status]
           new == [tables EXCEPT !.mandates[m].status = status]
<1>1. Sound(tables, vault) /\ DOMAIN tables = Fields /\ tables.mandates \in [Mandates -> MandateRecords] /\ row \in MandateRecords
  BY DEF MarketInv, Sound, Typed
<1>2. Keeps(new, tables, {"mandates"}) /\ new.mandates = [tables.mandates EXCEPT ![m] = record]
  BY <1>1 DEF Keeps, Fields
<1>3. record \in MandateRecords /\ record.status = status /\ record.units = row.units /\ record.spent = row.spent /\ record.funded = row.funded
  <2> HIDE DEF row
  <2>1. record.status = status /\ record.units = row.units /\ record.spent = row.spent /\ record.funded = row.funded
    BY <1>1 DEF MandateRecords
  <2>2. record \in MandateRecords
    BY <1>1 DEF MandateRecords
  <2> QED BY <2>1, <2>2
<1> HIDE DEF record, new
<1>4. /\ new.mandates \in [Mandates -> MandateRecords] /\ new.mandates[m] = record
      /\ \A x \in Mandates : x # m => new.mandates[x] = tables.mandates[x]
  BY <1>1, <1>2, <1>3
<1>5. Sound(new, vault)
  BY <1>1, <1>2, <1>3, <1>4, StatusIsSound
<1>6. GetsStatus(new, tables, m, status)
  BY <1>2, <1>3, <1>4 DEF GetsStatus
<1> QED BY <1>5, <1>6 DEF new

\* A mandate that does not become active asks for no more matches.
LEMMA StatusIsQuiet ==
  ASSUME MarketInv, NEW m \in Mandates, NEW status, status # "active", NEW new, GetsStatus(new, tables, m, status)
  PROVE  WantsNoMore(new, tables) /\ AsksStill(new, tables)
<1>1. /\ new.traces = tables.traces /\ new.linked = tables.linked /\ new.failed = tables.failed /\ new.revoked = tables.revoked
      /\ new.policies = tables.policies /\ new.candidates = tables.candidates /\ new.paused = tables.paused
      /\ new.deleted = tables.deleted /\ new.outbox = tables.outbox
  BY DEF GetsStatus, Keeps, Fields
<1>2. \A x \in Mandates : Open(new, x) => Open(tables, x)
  BY DEF GetsStatus, Open
<1>3. case.mandates \subseteq Mandates
  BY CaseAssumption DEF MarketInv, CaseIsChosen
<1>4. WantsNoMore(new, tables)
  BY <1>1, <1>2, <1>3 DEF WantsNoMore, Wanted, Matchable, Alive, Allows, EvidenceOf, Waits, Existing, CandidatesOf
<1>5. AsksStill(new, tables)
  BY <1>1 DEF AsksStill, Asked
<1> QED BY <1>4, <1>5

LEMMA StatusIsGood ==
  ASSUME MarketInv, NEW m \in Mandates, NEW status \in {"draft", "pending_funding", "paused"},
         Write([tables EXCEPT !.mandates[m].status = status])
  PROVE  MarketInv'
<1> DEFINE new == [tables EXCEPT !.mandates[m].status = status]
<1>1. Sound(new, vault) /\ GetsStatus(new, tables, m, status)
  BY StatusWritten
<1>2. tables' = new /\ UNCHANGED <<case, vault, past>>
  BY DEF Write
<1> HIDE DEF new
<1>3. WantsNoMore(new, tables) /\ AsksStill(new, tables)
  BY <1>1, StatusIsQuiet
<1>4. Good(new, vault)
  BY <1>1, <1>3, QuietIsGood DEF MarketInv
<1> QED BY <1>2, <1>4, GoodIsKept DEF MarketInv

LEMMA ActivateIsGood == ASSUME MarketInv, NEW m \in case.mandates, ActivateMandate(m) PROVE MarketInv'
<1> DEFINE rows == [tables EXCEPT !.mandates[m].status = "active"]
           new == Enqueue(rows, "MatchMandate", m)
<1>1. tables' = new /\ UNCHANGED <<case, vault, past>>
  BY DEF ActivateMandate, Write
<1>2. case.mandates \subseteq Mandates /\ m \in Mandates /\ MatchesAsked(tables)
  BY CaseAssumption DEF MarketInv, CaseIsChosen
<1>3. Sound(rows, vault) /\ GetsStatus(rows, tables, m, "active")
  BY <1>2, StatusWritten
<1> HIDE DEF rows
<1>4. Queues(new, rows, {Job("MatchMandate", m)})
  <2>1. DOMAIN rows = Fields /\ rows.outbox \in Seq(JobRecords) /\ m \in Names
    BY <1>2, <1>3 DEF Sound, Typed, Names
  <2> QED BY <2>1, EnqueueQueues DEF JobEvents
<1> HIDE DEF new
<1>5. Sound(new, vault)
  <2>1. JobIsSound(rows, Job("MatchMandate", m))
    BY <1>2 DEF JobIsSound, Job
  <2> QED BY <1>3, <1>4, <2>1, QueueKeepsSound
<1>6. /\ new.traces = tables.traces /\ new.linked = tables.linked /\ new.failed = tables.failed /\ new.revoked = tables.revoked
      /\ new.policies = tables.policies /\ new.candidates = tables.candidates /\ new.paused = tables.paused
      /\ new.deleted = tables.deleted /\ Range(new.outbox) = Range(tables.outbox) \cup {Job("MatchMandate", m)}
      /\ \A x \in Mandates : x # m => new.mandates[x] = tables.mandates[x]
  BY <1>3, <1>4 DEF GetsStatus, Keeps, Fields, Queues
<1>7. ASSUME NEW x \in case.mandates, NEW t, Wanted(new, x, t) PROVE Asked(new, x)
  <2>1. CASE x = m
    <3>1. Job("MatchMandate", m) \in Range(new.outbox)
      BY <1>6
    <3> QED BY <2>1, <3>1 DEF Asked, Job
  <2>2. CASE x # m
    <3>1. Wanted(tables, x, t)
      BY <1>2, <1>6, <1>7, <2>2 DEF Wanted, Open, Matchable, Alive, Allows, EvidenceOf, Waits, Existing, CandidatesOf
    <3>2. Asked(tables, x)
      BY <1>2, <3>1 DEF MatchesAsked
    <3> QED BY <1>6, <3>2 DEF Asked
  <2> QED BY <2>1, <2>2
<1>8. Good(new, vault)
  BY <1>5, <1>7 DEF Good, MatchesAsked
<1> QED BY <1>1, <1>8, GoodIsKept DEF MarketInv

LEMMA ConfirmIsGood ==
  ASSUME MarketInv, NEW m \in case.mandates, NEW transfer \in Transfers(m), ConfirmFunding(m, transfer)
  PROVE  MarketInv'
<1> DEFINE amount == transfer[3]
           new == RecordFunding(tables, m, transfer, amount)
<1>1. tables' = new /\ UNCHANGED <<case, vault, past>>
  BY DEF ConfirmFunding, Write
<1>2. /\ m \in Mandates /\ MatchesAsked(tables) /\ Sound(tables, vault) /\ CaseIsChosen /\ DOMAIN tables = Fields
      /\ tables.mandates \in [Mandates -> MandateRecords]
  BY CaseAssumption DEF MarketInv, CaseIsChosen, Sound, Typed
<1>3. CASE transfer \in tables.funding
  <2>1. tables' = tables
    BY <1>1, <1>3 DEF RecordFunding
  <2>2. Good(tables', vault')
    BY <1>1, <1>2, <2>1 DEF Good
  <2> QED BY <1>1, <1>2, <2>2, GoodIsKept
<1>4. CASE transfer \notin tables.funding
  <2>1. amount \in Nat
    <3>1. PriceOf[m] \in Nat /\ BudgetOf[m] \in Nat /\ BudgetOf[m] >= PriceOf[m] /\ BudgetOf[m] - PriceOf[m] \in Nat
      BY <1>2, MandateMarketAssumption
    <3>2. amount \in {BudgetOf[m], PriceOf[m], BudgetOf[m] - PriceOf[m]}
      BY DEF Transfers
    <3> QED BY <3>1, <3>2
  <2>2. tables.mandates[m].funded + amount <= BudgetOf[m]
    BY <1>4 DEF ConfirmFunding
  <2> HIDE DEF amount
  <2>3. Sound(new, vault)
    BY <1>2, <1>4, <2>1, <2>2, FundingIsSound
  <2>4. Keeps(new, tables, {"mandates", "funding", "book"}) /\ new.mandates = [tables.mandates EXCEPT ![m] = FundedMore(@, amount)]
    BY <1>2, <1>4 DEF RecordFunding, Keeps, Fields
  <2> HIDE DEF new
  <2>5. /\ new.traces = tables.traces /\ new.linked = tables.linked /\ new.failed = tables.failed /\ new.revoked = tables.revoked
        /\ new.policies = tables.policies /\ new.candidates = tables.candidates /\ new.paused = tables.paused
        /\ new.deleted = tables.deleted /\ new.outbox = tables.outbox
    BY <2>4 DEF Keeps, Fields
  <2>6. new.mandates[m].status = "funded" /\ \A x \in Mandates : x # m => new.mandates[x] = tables.mandates[x]
    <3>1. FundedMore(tables.mandates[m], amount).status = "funded"
      BY <1>2 DEF FundedMore, MandateRecords
    <3> QED BY <1>2, <2>4, <3>1
  <2>7. \A x \in Mandates : Open(new, x) => Open(tables, x)
    BY <2>6 DEF Open
  <2>8. WantsNoMore(new, tables)
    <3>1. case.mandates \subseteq Mandates
      BY CaseAssumption DEF MarketInv, CaseIsChosen
    <3> QED BY <2>5, <2>7, <3>1 DEF WantsNoMore, Wanted, Matchable, Alive, Allows, EvidenceOf, Waits, Existing, CandidatesOf
  <2>9. AsksStill(new, tables)
    BY <2>5 DEF AsksStill, Asked
  <2>10. Good(new, vault)
    BY <1>2, <2>3, <2>8, <2>9, QuietIsGood
  <2> QED BY <1>1, <1>2, <2>10, GoodIsKept
<1> QED BY <1>3, <1>4

LEMMA BuyerIsGood == ASSUME MarketInv, Buyer PROVE MarketInv'
<1>1. PICK m \in case.mandates : \/ CreateMandate(m) \/ FundMandate(m) \/ ActivateMandate(m)
                                 \/ May("pause") /\ PauseMandate(m)
                                 \/ \E transfer \in Transfers(m) : ConfirmFunding(m, transfer)
  BY DEF Buyer
<1>2. m \in Mandates
  BY CaseAssumption DEF MarketInv, CaseIsChosen
<1>3. CASE CreateMandate(m)
  <2>1. Write([tables EXCEPT !.mandates[m].status = "draft"])
    BY <1>3 DEF CreateMandate
  <2> QED BY <1>2, <2>1, StatusIsGood
<1>4. CASE FundMandate(m)
  <2>1. Write([tables EXCEPT !.mandates[m].status = "pending_funding"])
    BY <1>4 DEF FundMandate
  <2> QED BY <1>2, <2>1, StatusIsGood
<1>5. CASE PauseMandate(m)
  <2>1. Write([tables EXCEPT !.mandates[m].status = "paused"])
    BY <1>5 DEF PauseMandate
  <2> QED BY <1>2, <2>1, StatusIsGood
<1> QED BY <1>1, <1>3, <1>4, <1>5, ActivateIsGood, ConfirmIsGood

(***************************************************************************)
(* The steps of sales and of the money in them.                               *)
(***************************************************************************)
\* A step on rows that matching does not read.
LEMMA MoneyStepIsGood ==
  ASSUME MarketInv, NEW new, Sound(new, vault), Keeps(new, tables, {"licenses", "credit", "burn", "reserved", "book"}), Write(new)
  PROVE  MarketInv'
<1>1. tables' = new /\ UNCHANGED <<case, vault, past>>
  BY DEF Write
<1>2. new.failed = tables.failed /\ new.outbox = tables.outbox
      /\ Keeps(new, tables, {"funding", "licenses", "credit", "burn", "reserved", "outbox", "failed", "book", "sourceGone"})
  BY DEF Keeps, Fields
<1>3. WantsNoMore(new, tables) /\ AsksStill(new, tables)
  BY <1>2, OtherRowsAreQuiet
<1>4. Good(new, vault)
  BY <1>3, QuietIsGood DEF MarketInv
<1> QED BY <1>1, <1>4, GoodIsKept DEF MarketInv

LEMMA AuthorizeIsGood ==
  ASSUME MarketInv, NEW id, NEW payout \in {"inference_credit", "token"}, Authorize(id, payout)
  PROVE  MarketInv'
<1> DEFINE after == Sold(tables, id, payout)
<1>1. id \in DOMAIN tables.candidates /\ Sellable(tables, vault, id) /\ tables' = after /\ UNCHANGED <<case, vault, past>>
  BY DEF Authorize, Write
<1>2. CaseIsChosen /\ Sound(tables, vault) /\ Typed(tables) /\ MatchesAsked(tables)
  BY DEF MarketInv, Sound
<1>3. Sound(after, vault) /\ \E new : Sells(new, tables, id) /\ Queues(after, new, {Job("SettleLicense", id)})
  BY <1>1, <1>2, SoldIsSound
<1> HIDE DEF after
<1>4. PICK new : Sells(new, tables, id) /\ Queues(after, new, {Job("SettleLicense", id)})
  BY <1>3
<1>5. Follows(after, tables, MandateOf(id))
  BY <1>1, <1>2, <1>4, SoldFollows
<1>6. WantsNoMore(after, tables) /\ AsksStill(after, tables)
  BY <1>2, <1>5, FollowersAreQuiet
<1>7. Good(after, vault)
  BY <1>2, <1>3, <1>6, QuietIsGood
<1> QED BY <1>1, <1>2, <1>7, GoodIsKept

LEMMA DeliverIsGood == ASSUME MarketInv, NEW id, Deliver(id) PROVE MarketInv'
<1> DEFINE license == tables.licenses[id]
           record == [license EXCEPT !.delivery = "DELIVERED"]
           new == [tables EXCEPT !.licenses[id].delivery = "DELIVERED"]
<1>1. id \in DOMAIN tables.licenses /\ Write(new)
  BY DEF Deliver
<1>2. /\ Sound(tables, vault) /\ DOMAIN tables = Fields /\ IsTable(tables.licenses, DOMAIN tables.candidates, LicenseRecords)
      /\ IsTable(tables.candidates, AllIds, CandidateRecords) /\ ReleasesAreRight(tables, vault)
  BY DEF MarketInv, Sound, Typed
<1>3. record \in LicenseRecords
  <2>1. license \in LicenseRecords
    BY <1>1, <1>2 DEF IsTable
  <2> QED BY <2>1 DEF LicenseRecords
<1>4. Keeps(new, tables, {"candidates", "licenses"}) /\ Keeps(new, tables, {"licenses", "credit", "burn", "reserved", "book"})
      /\ new.licenses = [tables.licenses EXCEPT ![id] = record] /\ new.candidates = tables.candidates
  BY <1>2 DEF Keeps, Fields
<1> HIDE DEF record, new
<1>5. DOMAIN new.licenses = DOMAIN tables.licenses /\ \A x \in DOMAIN new.licenses : new.licenses[x] \in LicenseRecords
  BY <1>2, <1>3, <1>4 DEF IsTable
<1>6. ReleasesAreRight(new, vault)
  BY <1>2, <1>4, <1>5 DEF ReleasesAreRight, OneCandidate, Current, LicensedStay, ReleasesStay
<1>7. Sound(new, vault)
  BY <1>2, <1>4, <1>5, <1>6, CandidatesAreSound
<1> QED BY <1>1, <1>4, <1>7, MoneyStepIsGood

LEMMA SaleIsGood == ASSUME MarketInv, Sale PROVE MarketInv'
BY AuthorizeIsGood, DeliverIsGood DEF Sale

LEMMA ChooseIsGood ==
  ASSUME MarketInv, NEW id, NEW disposition \in {"inference_credit", "token"}, Choose(id, disposition)
  PROVE  MarketInv'
<1> DEFINE new == ChooseIn(tables, id, disposition)
<1>1. id \in DOMAIN tables.credit /\ tables.credit[id].disposition = "pending" /\ Write(new)
  BY DEF Choose
<1>2. Sound(tables, vault) /\ DOMAIN tables = Fields
  BY DEF MarketInv, Sound, Typed
<1>3. Sound(new, vault)
  BY <1>1, <1>2, ChoiceIsSound
<1>4. Keeps(new, tables, {"licenses", "credit", "burn", "reserved", "book"})
  BY <1>2 DEF ChooseIn, Keeps, Fields
<1> QED BY <1>1, <1>3, <1>4, MoneyStepIsGood

LEMMA ReserveIsGood ==
  ASSUME MarketInv, NEW id, NEW amount \in Nat, ReserveInference(id, amount)
  PROVE  MarketInv'
<1> DEFINE rid == Len(tables.reserved) + 1
           new == [tables EXCEPT
                     !.book = reserveJournal(@, rid, id, amount),
                     !.credit[id].available = @ - amount,
                     !.reserved = Append(@, [of |-> id, amount |-> amount, status |-> "RESERVED"])]
<1>1. /\ id \in DOMAIN tables.credit /\ tables.credit[id].disposition = "inference_credit" /\ tables.credit[id].status = "AVAILABLE"
      /\ amount <= tables.credit[id].available /\ Write(new)
  BY DEF ReserveInference
<1>2. Sound(tables, vault) /\ DOMAIN tables = Fields
  BY DEF MarketInv, Sound, Typed
<1>3. Sound(new, vault)
  BY <1>1, <1>2, ReservationIsSound
<1>4. Keeps(new, tables, {"licenses", "credit", "burn", "reserved", "book"})
  BY <1>2 DEF Keeps, Fields
<1> QED BY <1>1, <1>3, <1>4, MoneyStepIsGood

LEMMA SettleIsGood ==
  ASSUME MarketInv, NEW rid \in DOMAIN tables.reserved, NEW actual \in Nat, SettleInference(rid, actual)
  PROVE  MarketInv'
<1> DEFINE r == tables.reserved[rid]
           id == r.of
           e == tables.credit[id]
           left == e.available + r.amount - actual
           entitlement == [e EXCEPT !.available = left, !.status = IF left > 0 THEN "AVAILABLE" ELSE "INFERENCE_SPENT"]
           reservation == [r EXCEPT !.status = IF actual = 0 THEN "RELEASED" ELSE "SPENT"]
           new == [tables EXCEPT
                     !.book = usageJournal(@, rid, r.of, r.amount, actual, Cash),
                     !.credit[r.of] = [@ EXCEPT !.available = left, !.status = IF left > 0 THEN "AVAILABLE" ELSE "INFERENCE_SPENT"],
                     !.reserved[rid].status = IF actual = 0 THEN "RELEASED" ELSE "SPENT"]
<1>1. r.status = "RESERVED" /\ actual <= r.amount /\ Write(new)
  BY DEF SettleInference
<1>2. /\ Sound(tables, vault) /\ DOMAIN tables = Fields /\ IsTable(tables.credit, DOMAIN tables.licenses, CreditRecords)
      /\ tables.reserved \in Seq(ReservationRecords) /\ SharesAreWhole(tables)
  BY DEF MarketInv, Sound, Typed, LedgerIsRight
<1>3. r \in ReservationRecords /\ id \in DOMAIN tables.credit /\ e \in CreditRecords
  <2>1. r \in ReservationRecords
    BY <1>2, ElementOfSeq, LenProperties
  <2>2. id \in DOMAIN tables.credit
    BY <1>2 DEF SharesAreWhole
  <2> QED BY <1>2, <2>1, <2>2 DEF IsTable
<1>4. /\ entitlement.disposition = e.disposition /\ entitlement.status \in {"AVAILABLE", "INFERENCE_SPENT"} /\ entitlement.available = left
      /\ DOMAIN entitlement = {"disposition", "status", "available"}
      /\ entitlement = [disposition |-> entitlement.disposition, status |-> entitlement.status, available |-> entitlement.available]
  <2> DEFINE status == IF left > 0 THEN "AVAILABLE" ELSE "INFERENCE_SPENT"
  <2>1. status \in {"AVAILABLE", "INFERENCE_SPENT"} /\ entitlement = [e EXCEPT !.available = left, !.status = status]
    OBVIOUS
  <2> HIDE DEF e, left, status, entitlement
  <2>2. DOMAIN e = {"disposition", "status", "available"}
    BY <1>3 DEF CreditRecords
  <2>3. /\ entitlement.disposition = e.disposition /\ entitlement.status = status /\ entitlement.available = left
        /\ DOMAIN entitlement = {"disposition", "status", "available"}
    BY <2>1, <2>2
  <2>4. entitlement = [disposition |-> entitlement.disposition, status |-> entitlement.status, available |-> entitlement.available]
    BY <2>1, <2>3
  <2> QED BY <2>1, <2>3, <2>4
<1>5. /\ reservation = [of |-> id, amount |-> r.amount, status |-> reservation.status] /\ reservation.status \in {"RELEASED", "SPENT"}
  <2> HIDE DEF r
  <2> QED BY <1>3 DEF ReservationRecords, id
<1>6. /\ Keeps(new, tables, {"book", "credit", "reserved"}) /\ Keeps(new, tables, {"licenses", "credit", "burn", "reserved", "book"})
      /\ new.book = usageJournal(tables.book, rid, id, r.amount, actual, Cash)
      /\ new.credit = [tables.credit EXCEPT ![id] = entitlement]
      /\ new.reserved = [tables.reserved EXCEPT ![rid] = reservation]
  BY <1>2 DEF Keeps, Fields
<1> DEFINE amount == r.amount
<1>7. IsReserved(tables, rid, id, amount)
  BY <1>1 DEF IsReserved
<1> HIDE DEF new, entitlement, reservation
<1>8. SettlesReserved(new, tables, rid, id, amount, actual, entitlement, reservation)
  BY <1>4, <1>5, <1>6 DEF SettlesReserved
<1>9. actual <= amount
  BY <1>1
<1> HIDE DEF amount, r, id
<1>10. Sound(new, vault)
  BY <1>2, <1>7, <1>8, <1>9, SettlementIsSound
<1> QED BY <1>1, <1>6, <1>10, MoneyStepIsGood DEF new, r

LEMMA CompleteIsGood == ASSUME MarketInv, CompleteAllocations PROVE MarketInv'
<1> DEFINE all == Allocations(tables)
           due == {a \in all : CostOf(a) > 0}
           new == [tables EXCEPT
             !.book = postJournals(@, AllocationJournals(due)),
             !.credit = [id \in DOMAIN @ |->
                IF <<"contributor", id>> \notin all THEN @[id]
                ELSE [@[id] EXCEPT !.status = IF Share(id).contributor = 0 THEN "NO_ALLOCATION" ELSE "TOKEN_WITHDRAWN", !.available = 0]],
             !.burn = [id \in DOMAIN @ |->
                IF @[id] # "CREATED" THEN @[id] ELSE IF Share(id).burn = 0 THEN "NO_ALLOCATION" ELSE "BURN_FINAL"]]
<1>1. Write(new)
  BY DEF CompleteAllocations
<1>2. Sound(tables, vault) /\ DOMAIN tables = Fields /\ Typed(tables)
  BY SMTT(30) DEF MarketInv, Sound, Typed
<1>3. /\ Keeps(new, tables, {"book", "credit", "burn"}) /\ Keeps(new, tables, {"licenses", "credit", "burn", "reserved", "book"})
      /\ new.book = postJournals(tables.book, AllocationJournals(due))
      /\ DOMAIN new.credit = DOMAIN tables.credit /\ DOMAIN new.burn = DOMAIN tables.burn
  <2> HIDE DEF all, due
  <2> QED BY <1>2 DEF Keeps, Fields
<1>4. \A id : <<"contributor", id>> \in all <=> id \in DOMAIN tables.credit /\ tables.credit[id].status = "TOKEN_PURCHASE_PENDING"
  BY <1>2, AllocationsAreKnown
<1>5. \A id \in DOMAIN tables.credit :
       IF tables.credit[id].status = "TOKEN_PURCHASE_PENDING"
       THEN new.credit[id] = [tables.credit[id] EXCEPT !.status = IF Share(id).contributor = 0 THEN "NO_ALLOCATION" ELSE "TOKEN_WITHDRAWN",
                                                       !.available = 0]
       ELSE new.credit[id] = tables.credit[id]
  <2> HIDE DEF all, due
  <2> QED BY <1>2, <1>4 DEF Fields
<1>6. \A id \in DOMAIN tables.burn :
       new.burn[id] = IF tables.burn[id] # "CREATED" THEN tables.burn[id] ELSE IF Share(id).burn = 0 THEN "NO_ALLOCATION" ELSE "BURN_FINAL"
  <2> HIDE DEF all, due
  <2> QED BY <1>2 DEF Fields
<1> HIDE DEF new
<1>7. Bought(new, tables, due)
  BY <1>3, <1>5, <1>6, Zenon DEF Bought
<1>8. Sound(new, vault)
  BY <1>2, <1>7, AllocationsAreSound
<1> QED BY <1>1, <1>3, <1>8, MoneyStepIsGood

LEMMA MoneyIsGood == ASSUME MarketInv, Money PROVE MarketInv'
<1>1. CASE \E id \in CaseIds : \/ \E disposition \in {"inference_credit", "token"} : Choose(id, disposition)
                               \/ \E amount \in 1..Share(id).contributor : ReserveInference(id, amount)
  <2>1. PICK id \in CaseIds : \/ \E disposition \in {"inference_credit", "token"} : Choose(id, disposition)
                              \/ \E amount \in 1..Share(id).contributor : ReserveInference(id, amount)
    BY <1>1
  <2>2. ASSUME NEW amount \in 1..Share(id).contributor, ReserveInference(id, amount) PROVE MarketInv'
    <3>1. amount \in Nat
      OBVIOUS
    <3> QED BY <2>2, <3>1, ReserveIsGood
  <2> QED BY <2>1, <2>2, ChooseIsGood
<1>2. CASE \E rid \in DOMAIN tables.reserved : \E actual \in 0..tables.reserved[rid].amount : SettleInference(rid, actual)
  <2>1. PICK rid \in DOMAIN tables.reserved : \E actual \in 0..tables.reserved[rid].amount : SettleInference(rid, actual)
    BY <1>2
  <2>2. PICK actual \in 0..tables.reserved[rid].amount : SettleInference(rid, actual)
    BY <2>1
  <2>3. actual \in Nat
    BY <2>2
  <2> QED BY <2>2, <2>3, SettleIsGood
<1> QED BY <1>1, <1>2, CompleteIsGood DEF Money

LEMMA WorkerIsGood == ASSUME MarketInv, Worker PROVE MarketInv'
BY RunJobIsGood, FailJobIsGood DEF Worker

(***************************************************************************)
(* The steps of operators, and of time.                                       *)
(***************************************************************************)
LEMMA ControlsAreGood == ASSUME MarketInv, NEW paused, UpdateControls(paused) PROVE MarketInv'
<1> DEFINE next == [tables EXCEPT !.paused = paused]
<1>1. CaseIsChosen /\ DOMAIN tables = Fields /\ MatchesAsked(tables)
  BY DEF MarketInv, Sound, Typed
<1>2. /\ "sales" \in tables.paused \ paused => Write(EnqueueMatching(next))
      /\ "sales" \notin tables.paused \ paused => Write(next)
  BY DEF UpdateControls
<1>3. Keeps(next, tables, {"linked", "revoked", "paused", "deleted"}) /\ Keeps(next, tables, {"paused"}) /\ next.deleted = tables.deleted
      /\ next.paused = paused
  BY <1>1 DEF Keeps, Fields
<1> HIDE DEF next
<1>4. Sound(next, vault)
  BY <1>3, PlainWriteIsSound
<1>5. CASE "sales" \in tables.paused \ paused
  <2>1. Good(EnqueueMatching(next), vault)
    BY <1>1, <1>4, MatchingIsGood
  <2> QED BY <1>1, <1>2, <1>5, <2>1, GoodIsKept DEF Write
<1>6. CASE "sales" \notin tables.paused \ paused
  <2>1. /\ next.traces = tables.traces /\ next.linked = tables.linked /\ next.failed = tables.failed /\ next.outbox = tables.outbox
        /\ next.policies = tables.policies /\ next.mandates = tables.mandates /\ next.candidates = tables.candidates
        /\ next.revoked = tables.revoked /\ next.deleted = tables.deleted
    BY <1>3 DEF Keeps, Fields
  <2>2. "sales" \notin next.paused => "sales" \notin tables.paused
    BY <1>3, <1>6
  <2>3. WantsNoMore(next, tables)
    BY <2>1, <2>2 DEF WantsNoMore, Wanted, Open, Matchable, Alive, Allows, EvidenceOf, Waits, Existing, CandidatesOf
  <2>4. AsksStill(next, tables)
    BY <2>1 DEF AsksStill, Asked
  <2>5. Good(next, vault)
    BY <1>1, <1>4, <2>3, <2>4, QuietIsGood
  <2> QED BY <1>1, <1>2, <1>6, <2>5, GoodIsKept DEF Write
<1> QED BY <1>5, <1>6

\* The rows of a sweep, before its jobs are queued.
Sweeps(rows, over, lapsed) ==
  /\ Keeps(rows, tables, {"deleted", "candidates", "licenses"})
  /\ rows.deleted = tables.deleted \cup over
  /\ Restates(rows.candidates, tables.candidates, lapsed, "EXPIRED")
  /\ DOMAIN rows.licenses = DOMAIN tables.licenses /\ \A id \in DOMAIN rows.licenses : rows.licenses[id] \in LicenseRecords

LEMMA SweptIsSound ==
  ASSUME MarketInv, NEW rows, NEW over, NEW lapsed, Sweeps(rows, over, lapsed),
         \A id \in lapsed : tables.candidates[id].status = "USER_AUTH_PENDING"
  PROVE  Sound(rows, vault)
<1> DEFINE middle == [tables EXCEPT !.deleted = @ \cup over]
<1>1. /\ DOMAIN tables = Fields /\ ReleasesAreRight(tables, vault) /\ IsTable(tables.licenses, DOMAIN tables.candidates, LicenseRecords)
  BY DEF MarketInv, Sound, Typed
<1>2. Keeps(middle, tables, {"linked", "revoked", "paused", "deleted"}) /\ Keeps(middle, tables, {"deleted"})
      /\ middle.deleted = tables.deleted \cup over
  BY <1>1 DEF Keeps, Fields
<1> HIDE DEF middle
<1>3. Sound(middle, vault)
  BY <1>2, PlainWriteIsSound
<1>4. Keeps(rows, middle, {"candidates", "licenses"}) /\ middle.candidates = tables.candidates /\ middle.licenses = tables.licenses
  BY <1>2 DEF Sweeps, Keeps, Fields
<1>5. /\ IsTable(rows.candidates, AllIds, CandidateRecords) /\ DOMAIN rows.candidates = DOMAIN tables.candidates
      /\ \A id \in DOMAIN tables.candidates \cap lapsed : rows.candidates[id].status = "EXPIRED"
      /\ \A id \in DOMAIN tables.candidates \ lapsed : rows.candidates[id] = tables.candidates[id]
      /\ DOMAIN rows.licenses = DOMAIN tables.licenses /\ \A id \in DOMAIN rows.licenses : rows.licenses[id] \in LicenseRecords
  BY DEF Sweeps, Restates
<1>6. OneCandidate(rows)
  <2>1. \A id \in DOMAIN tables.candidates : Current(rows, id) => Current(tables, id)
    BY <1>5 DEF Current
  <2> QED BY <1>1, <1>5, <2>1 DEF ReleasesAreRight, OneCandidate
<1>7. LicensedStay(rows) /\ ReleasesStay(rows, vault)
  <2>1. \A id \in DOMAIN tables.licenses : id \in DOMAIN tables.candidates \ lapsed
    BY <1>1 DEF ReleasesAreRight, LicensedStay, IsTable
  <2> QED BY <1>1, <1>5, <2>1 DEF ReleasesAreRight, LicensedStay, ReleasesStay
<1>8. Sound(rows, vault)
  BY <1>3, <1>4, <1>5, <1>6, <1>7, CandidatesAreSound DEF ReleasesAreRight
<1> QED BY <1>8

\* Jobs for each of a set are queued.
LEMMA EachIsSound ==
  ASSUME NEW db, NEW kept, Sound(db, kept), NEW event \in JobEvents, NEW S \in SUBSET Names, IsFiniteSet(S),
         \A on \in S : JobIsSound(db, Job(event, on))
  PROVE  /\ Sound(EnqueueEach(db, event, S), kept) /\ Keeps(EnqueueEach(db, event, S), db, {"outbox"})
         /\ Range(db.outbox) \subseteq Range(EnqueueEach(db, event, S).outbox)
<1>1. DOMAIN db = Fields /\ db.outbox \in Seq(JobRecords)
  BY DEF Sound, Typed
<1>2. Queues(EnqueueEach(db, event, S), db, JobsFor(event, S))
  BY <1>1, EnqueueEachQueues
<1>3. \A job \in JobsFor(event, S) : JobIsSound(db, job)
  BY DEF JobsFor
<1> QED BY <1>2, <1>3, QueueKeepsSound DEF Queues

LEMMA SweepIsGood == ASSUME MarketInv, SweepRetention PROVE MarketInv'
<1> DEFINE over == (Range(tables.traces) \cap past.traces) \ tables.deleted
           lapsed == {id \in DOMAIN tables.candidates :
                        tables.candidates[id].status = "USER_AUTH_PENDING" /\ MandateOf(id) \in past.mandates}
           expired == {id \in DOMAIN tables.licenses \cap past.licenses : tables.licenses[id].delivery # "EXPIRED"}
           marked == Marked(tables.candidates, lapsed, "EXPIRED")
           ended == [id \in DOMAIN tables.licenses |->
                       IF id \in expired THEN [tables.licenses[id] EXCEPT !.delivery = "EXPIRED"] ELSE tables.licenses[id]]
           rows == [tables EXCEPT !.deleted = @ \cup over, !.candidates = Marked(@, lapsed, "EXPIRED"),
                      !.licenses = [id \in DOMAIN @ |-> IF id \in expired THEN [@[id] EXCEPT !.delivery = "EXPIRED"] ELSE @[id]]]
           one == EnqueueEach(rows, "DeleteTraceObjects", over)
           two == EnqueueEach(one, "DeleteExpiredCandidate", lapsed)
           new == EnqueueEach(two, "DeleteExpiredRelease", expired)
<1>1. tables' = new /\ UNCHANGED <<case, vault, past>>
  BY DEF SweepRetention, Write
<1>2. /\ CaseIsChosen /\ DOMAIN tables = Fields /\ MatchesAsked(tables) /\ tables.traces \in Seq(case.traces)
      /\ IsTable(tables.candidates, AllIds, CandidateRecords) /\ IsTable(tables.licenses, DOMAIN tables.candidates, LicenseRecords)
      /\ case.traces \subseteq Traces /\ IsFiniteSet(case.traces) /\ case.mandates \subseteq Mandates
  BY CaseAssumption DEF MarketInv, Sound, Typed, CaseIsChosen
<1>3. over \in SUBSET Names /\ IsFiniteSet(over)
  <2>1. over \subseteq case.traces
    BY <1>2, ElementOfSeq, LenProperties DEF Range
  <2> QED BY <1>2, <2>1, FS_Subset DEF Names
<1>4. lapsed \in SUBSET Names /\ IsFiniteSet(lapsed)
  BY <1>2, FS_Subset DEF Names, IsTable
<1>5. expired \in SUBSET Names /\ IsFiniteSet(expired)
  BY <1>2, FS_Subset DEF Names, IsTable
<1>6. /\ \A id \in lapsed : tables.candidates[id].status = "USER_AUTH_PENDING" /\ MandateOf(id) \in past.mandates /\ id \in DOMAIN tables.candidates
      /\ expired \subseteq past.licenses
  OBVIOUS
<1> HIDE DEF over, lapsed, expired
<1>7. Restates(marked, tables.candidates, lapsed, "EXPIRED")
  <2>1. Marks(marked, tables.candidates, lapsed, "EXPIRED")
    BY MarkedMarks
  <2> HIDE DEF marked
  <2> QED BY <1>2, <2>1, MarksTable
<1>8. DOMAIN ended = DOMAIN tables.licenses /\ \A id \in DOMAIN ended : ended[id] \in LicenseRecords
  <2>1. ASSUME NEW id \in DOMAIN tables.licenses PROVE ended[id] \in LicenseRecords
    <3> DEFINE record == [tables.licenses[id] EXCEPT !.delivery = "EXPIRED"]
    <3>1. tables.licenses[id] \in LicenseRecords
      BY <1>2 DEF IsTable
    <3>2. record \in LicenseRecords
      BY <3>1 DEF LicenseRecords
    <3>3. ended[id] = record \/ ended[id] = tables.licenses[id]
      OBVIOUS
    <3> QED BY <3>1, <3>2, <3>3
  <2> QED BY <2>1
<1>9. Keeps(rows, tables, {"deleted", "candidates", "licenses"})
      /\ rows.deleted = tables.deleted \cup over /\ rows.candidates = marked /\ rows.licenses = ended
  BY <1>2 DEF Keeps, Fields
<1> HIDE DEF rows, marked, ended
<1>10. Sweeps(rows, over, lapsed)
  BY <1>7, <1>8, <1>9 DEF Sweeps
<1>11. Sound(rows, vault)
  BY <1>6, <1>10, SweptIsSound
<1>12. DOMAIN rows.candidates = DOMAIN tables.candidates
  BY <1>7, <1>9 DEF Restates
<1>13. Sound(one, vault) /\ Keeps(one, rows, {"outbox"}) /\ Range(rows.outbox) \subseteq Range(one.outbox)
  <2>1. \A on \in over : JobIsSound(rows, Job("DeleteTraceObjects", on))
    BY <1>9 DEF JobIsSound, Job
  <2> QED BY <1>3, <1>11, <2>1, EachIsSound DEF JobEvents
<1> HIDE DEF one
<1>14. Sound(two, vault) /\ Keeps(two, one, {"outbox"}) /\ Range(one.outbox) \subseteq Range(two.outbox)
  <2>1. \A on \in lapsed : JobIsSound(one, Job("DeleteExpiredCandidate", on))
    BY <1>6, <1>12, <1>13 DEF JobIsSound, Job, Keeps, Fields
  <2> QED BY <1>4, <1>13, <2>1, EachIsSound DEF JobEvents
<1> HIDE DEF two
<1>15. Sound(new, vault) /\ Keeps(new, two, {"outbox"}) /\ Range(two.outbox) \subseteq Range(new.outbox)
  <2>1. \A on \in expired : JobIsSound(two, Job("DeleteExpiredRelease", on))
    BY <1>6 DEF JobIsSound, Job
  <2> QED BY <1>5, <1>14, <2>1, EachIsSound DEF JobEvents
<1> HIDE DEF new
<1>16. Keeps(new, tables, {"deleted", "candidates", "licenses", "outbox"})
       /\ Range(tables.outbox) \subseteq Range(new.outbox)
       /\ new.candidates = marked /\ new.deleted = tables.deleted \cup over
  <2>1. Keeps(new, rows, {"outbox"}) /\ Range(rows.outbox) \subseteq Range(new.outbox)
    BY <1>13, <1>14, <1>15 DEF Keeps
  <2> QED BY <1>9, <2>1 DEF Keeps, Fields
<1>17. /\ new.traces = tables.traces /\ new.linked = tables.linked /\ new.failed = tables.failed /\ new.revoked = tables.revoked
       /\ new.policies = tables.policies /\ new.mandates = tables.mandates /\ new.paused = tables.paused
  BY <1>16 DEF Keeps, Fields
<1>18. WantsNoMore(new, tables)
  <2> SUFFICES ASSUME NEW m \in case.mandates, NEW t, Wanted(new, m, t) PROVE Wanted(tables, m, t)
    BY DEF WantsNoMore
  <2>1. m \notin past.mandates
    BY DEF Wanted, Open
  <2>2. \A id \in DOMAIN tables.candidates : MandateOf(id) = m => marked[id] = tables.candidates[id]
    BY <1>6, <1>7, <2>1 DEF Restates
  <2>3. DOMAIN marked = DOMAIN tables.candidates
    BY <1>7 DEF Restates
  <2>4. Existing(new, m, t) = Existing(tables, m, t)
    BY <1>16, <2>2, <2>3 DEF Existing, CandidatesOf
  <2>5. \A id \in Existing(tables, m, t) : new.candidates[id] = tables.candidates[id]
    BY <1>16, <2>2 DEF Existing, CandidatesOf
  <2>6. Waits(tables, m, t)
    BY <1>17, <2>4, <2>5 DEF Wanted, Waits
  <2> QED BY <1>16, <1>17, <2>6 DEF Wanted, Open, Matchable, Alive, Allows, EvidenceOf
<1>19. AsksStill(new, tables)
  BY <1>16, <1>17 DEF AsksStill, Asked
<1>20. Good(new, vault)
  BY <1>2, <1>15, <1>18, <1>19, QuietIsGood
<1> QED BY <1>1, <1>2, <1>20, GoodIsKept

LEMMA OperatorIsGood == ASSUME MarketInv, Operator PROVE MarketInv'
BY ControlsAreGood, SweepIsGood DEF Operator

\* Time only closes offers, and releases end with their licenses.
LEMMA TimeIsGood == ASSUME MarketInv, Time PROVE MarketInv'
<1>1. /\ CaseIsChosen /\ Sound(tables, vault) /\ MatchesAsked(tables) /\ case.mandates \subseteq Mandates /\ case.traces \subseteq Traces
      /\ DOMAIN tables.licenses \subseteq AllIds
  BY CaseAssumption DEF MarketInv, CaseIsChosen, Sound, Typed, IsTable
<1>2. /\ UNCHANGED <<case, tables, vault>>
      /\ past' \in [mandates : SUBSET Mandates, traces : SUBSET Traces, licenses : SUBSET AllIds]
      /\ past.mandates \subseteq past'.mandates /\ past.traces \subseteq past'.traces /\ past.licenses \subseteq past'.licenses
  <2>1. CASE \E m \in case.mandates : LapseMandate(m)
    BY <1>1, <2>1 DEF CaseIsChosen, LapseMandate
  <2>2. CASE \E t \in case.traces : LapseTrace(t)
    BY <1>1, <2>2 DEF CaseIsChosen, LapseTrace
  <2>3. CASE \E id \in CaseIds : LapseLicense(id)
    BY <1>1, <2>3 DEF CaseIsChosen, LapseLicense
  <2> QED BY <2>1, <2>2, <2>3 DEF Time
<1>3. CaseIsChosen'
  BY <1>1, <1>2 DEF CaseIsChosen
<1>4. JobsAreSound(tables)'
  BY <1>1, <1>2 DEF Sound, JobsAreSound, JobIsSound
<1>5. ReleasesAreRight(tables, vault)'
  BY <1>1, <1>2 DEF Sound, ReleasesAreRight, OneCandidate, LicensedStay, ReleasesStay, Current
<1>6. Typed(tables)' /\ WithinTerms(tables)' /\ LedgerIsRight(tables)'
  BY <1>1, <1>2 DEF Sound, Typed
<1>7. MatchesAsked(tables)'
  BY <1>1, <1>2 DEF MatchesAsked, Asked, Wanted, Open, Matchable, Alive, Allows, EvidenceOf, Waits, Existing, CandidatesOf
<1> QED BY <1>3, <1>4, <1>5, <1>6, <1>7 DEF MarketInv, Sound

(***************************************************************************)
(* The invariant.                                                            *)
(***************************************************************************)
LEMMA MarketStarts == ASSUME MarketInit PROVE MarketInv
<1>1. /\ case \in Cases /\ tables = Empty /\ vault = {}
      /\ past = [mandates |-> {}, traces |-> {}, licenses |-> {}]
  BY DEF MarketInit
<1>2. DOMAIN <<>> = {} /\ <<>> \in Seq(case.traces) /\ <<>> \in Seq(ReservationRecords) /\ <<>> \in Seq(JobRecords) /\ Range(<<>>) = {}
  BY DEF Range
<1>3. /\ DOMAIN Empty = Fields /\ Empty.traces = <<>> /\ Empty.deleted = {} /\ Empty.policies = [o \in Owners |-> NoPolicy]
      /\ Empty.mandates = [m \in Mandates |-> NoMandate] /\ Empty.candidates = <<>> /\ Empty.licenses = <<>>
      /\ Empty.credit = <<>> /\ Empty.burn = <<>> /\ Empty.reserved = <<>> /\ Empty.outbox = <<>> /\ Empty.book = <<>>
  BY DEF Empty, Fields, NoBook
<1>4. CaseIsChosen
  BY <1>1 DEF CaseIsChosen
<1>5. IsFiniteSet({})
  BY FS_EmptySet
<1>6. Typed(Empty)
  <2>1. NoPolicy \in OwnerPolicies
    BY DEF NoPolicy, OwnerPolicies
  <2>2. NoMandate \in MandateRecords
    BY DEF NoMandate, MandateRecords
  <2>3. \A names, records : IsTable(<<>>, names, records)
    BY <1>2, <1>5 DEF IsTable
  <2> QED BY <1>2, <1>3, <2>1, <2>2, <2>3 DEF Typed
<1>7. JobsAreSound(Empty)
  BY <1>2, <1>3 DEF JobsAreSound
<1>8. ReleasesAreRight(Empty, {})
  BY <1>2, <1>3 DEF ReleasesAreRight, OneCandidate, LicensedStay, ReleasesStay
<1>9. \A m : Licensed(Empty, m) = {}
  BY <1>2, <1>3 DEF Licensed
<1>10. \A m \in Mandates : Empty.mandates[m].units = 0 /\ Empty.mandates[m].spent = 0 /\ Empty.mandates[m].funded = 0
  BY <1>3 DEF NoMandate
<1>11. \A m \in Mandates : PriceOf[m] \in Nat /\ UnitsOf[m] \in Nat /\ BudgetOf[m] \in Nat
  BY MandateMarketAssumption
<1>12. Cardinality({}) = 0
  BY FS_EmptySet
<1>13. WithinTerms(Empty)
  <2>1. \A m \in Mandates : 0 * PriceOf[m] = 0 /\ 0 <= UnitsOf[m] /\ 0 <= BudgetOf[m]
    BY <1>11
  <2>2. ASSUME NEW m \in Mandates
        PROVE  /\ Empty.mandates[m].units = Cardinality(Licensed(Empty, m)) /\ Empty.mandates[m].units <= UnitsOf[m]
               /\ Empty.mandates[m].spent = Empty.mandates[m].units * PriceOf[m]
               /\ Empty.mandates[m].spent <= Empty.mandates[m].funded /\ Empty.mandates[m].funded <= BudgetOf[m]
    <3>1. Cardinality(Licensed(Empty, m)) = 0
      BY <1>9, <1>12
    <3> QED BY <1>10, <2>1, <3>1
  <2>3. \A id, other \in DOMAIN Empty.licenses : TraceOf(id) = TraceOf(other) /\ MandateOf(id) \in Exclusive => id = other
    BY <1>2, <1>3
  <2> QED BY <2>2, <2>3, Zenon DEF WithinTerms
<1>14. LedgerIsRight(Empty)
  <2>1. IsBook(<<>>)
    BY <1>2, <1>5 DEF IsBook
  <2>2. \A name, owner : Owed(<<>>, name, owner) = 0
    BY <1>2, <2>1, UntouchedBalance DEF Owed
  <2>3. \A m \in Mandates : EscrowOf(Empty, m) = 0
    <3> TAKE m \in Mandates
    <3>1. Cardinality(Licensed(Empty, m) \ DOMAIN Empty.credit) = 0
      <4>1. Licensed(Empty, m) \ DOMAIN Empty.credit = {}
        BY <1>9
      <4> QED BY <1>12, <4>1
    <3>2. 0 - 0 + 0 * PriceOf[m] = 0
      BY <1>11
    <3> QED BY <1>10, <3>1, <3>2 DEF EscrowOf
  <2>4. BalancesAreRight(Empty)
    BY <1>2, <1>3, <2>2, <2>3 DEF BalancesAreRight, Held, ReservedFor
  <2>5. JournalsAreOfRows(Empty) /\ SharesAreWhole(Empty)
    BY <1>2, <1>3 DEF JournalsAreOfRows, SharesAreWhole
  <2> QED BY <1>3, <2>1, <2>4, <2>5 DEF LedgerIsRight
<1>15. MatchesAsked(Empty)
  BY <1>2, <1>3 DEF MatchesAsked, Wanted
<1> QED BY <1>1, <1>4, <1>6, <1>7, <1>8, <1>13, <1>14, <1>15 DEF MarketInv, Sound

LEMMA MarketKeepsInv == ASSUME MarketInv, [MarketNext]_marketVars PROVE MarketInv'
<1>1. CASE UNCHANGED marketVars
  BY <1>1 DEF marketVars, MarketInv, CaseIsChosen, Sound, Typed, JobsAreSound, JobIsSound, ReleasesAreRight, ReleasesStay,
     MatchesAsked, Wanted, Open, Matchable, Alive
<1>2. CASE MarketNext
  BY <1>2, ContributorIsGood, ConsentIsGood, BuyerIsGood, SaleIsGood, MoneyIsGood, WorkerIsGood, OperatorIsGood, TimeIsGood DEF MarketNext
<1> QED BY <1>1, <1>2

LEMMA MarketIsSound == MarketSpec => []MarketInv
BY MarketStarts, MarketKeepsInv, PTL DEF MarketSpec

\* What was sold can be fetched until its license expires, whatever happens to the trace, the mandate
\* and the policy it came from, and whichever jobs fail half way (finalizeCandidate, DELETE_TRACE_OBJECTS,
\* EXPIRED_RELEASE and the rollback of the worker).
THEOREM SoldReleasesAreAlwaysKept == MarketSpec => []LicensedReleasesAreKept
<1>1. MarketInv => LicensedReleasesAreKept
  BY DEF MarketInv, Sound, ReleasesAreRight, ReleasesStay, LicensedReleasesAreKept
<1> QED BY <1>1, MarketIsSound, PTL

\* The rows of mandates, licenses, shares and reservations and the balances of the ledger agree, and
\* no mandate sells beyond its units, what was paid in, or an exclusive license (recordFunding,
\* finalizeCandidate, settleLicense, chooseIn, reserveInferenceIn, completeDevelopmentAllocations).
THEOREM SalesAlwaysMatchTheLedger == MarketSpec => []SalesMatchTheLedger
<1>1. ASSUME MarketInv PROVE LedgerMatchesTables
  <2>1. /\ Typed(tables) /\ SharesAreWhole(tables) /\ BalancesAreRight(tables) /\ case.mandates \subseteq Mandates
    BY <1>1, CaseAssumption DEF MarketInv, CaseIsChosen, Sound, LedgerIsRight
  <2>2. \A m \in case.mandates :
          Owed(tables.book, Escrow, m)
            = tables.mandates[m].funded - tables.mandates[m].spent + Cardinality(Unsettled(m)) * PriceOf[m]
    <3>1. \A m : Unsettled(m) = Licensed(tables, m) \ DOMAIN tables.credit
      BY DEF Unsettled, LicensesOf, Licensed
    <3> QED BY <2>1, <3>1 DEF BalancesAreRight, EscrowOf
  <2>3. ASSUME NEW id \in DOMAIN tables.credit
        PROVE  LET e == tables.credit[id]
                   In(name, condition) == Owed(tables.book, name, id) = IF condition THEN e.available ELSE 0
               IN /\ In(Unallocated, e.disposition = "pending")
                  /\ In(Credit, e.disposition = "inference_credit")
                  /\ In(TokenPending, e.status = "TOKEN_PURCHASE_PENDING")
                  /\ Owed(tables.book, BurnPending, id) = IF tables.burn[id] = "CREATED" THEN Share(id).burn ELSE 0
    <3>1. id \in AllIds /\ id \in DOMAIN tables.burn
      BY <2>1 DEF Typed, IsTable
    <3> QED BY <2>1, <3>1 DEF BalancesAreRight, Held
  <2>4. \A rid \in DOMAIN tables.reserved :
          Owed(tables.book, Reserved, rid)
            = IF tables.reserved[rid].status = "RESERVED" THEN tables.reserved[rid].amount ELSE 0
    <3>1. \A rid \in DOMAIN tables.reserved : rid \in Nat
      BY <2>1, LenProperties DEF Typed
    <3> QED BY <2>1, <3>1 DEF BalancesAreRight, ReservedFor
  <2> QED BY <2>2, <2>3, <2>4, Zenon DEF LedgerMatchesTables
<1>2. ASSUME MarketInv PROVE SalesStayWithinTerms
  <2>1. WithinTerms(tables) /\ case.mandates \subseteq Mandates
    BY <1>2, CaseAssumption DEF MarketInv, CaseIsChosen, Sound
  <2>2. \A m : LicensesOf(m) = Licensed(tables, m)
    BY DEF LicensesOf, Licensed
  <2> QED BY <2>1, <2>2 DEF WithinTerms, SalesStayWithinTerms
<1>3. MarketInv => SalesMatchTheLedger
  BY <1>1, <1>2 DEF SalesMatchTheLedger
<1> QED BY <1>3, MarketIsSound, PTL

\* While sales are open, a trace that could be offered to an open mandate has a current candidate, or
\* a matching job is queued, or that job was given up (enqueueMatching and its callers).
THEOREM MatchesAreAlwaysQueued == MarketSpec => []MatchesAreQueued
<1>1. ASSUME MarketInv, NEW m \in case.mandates, NEW t \in Range(tables.traces),
             "sales" \notin tables.paused, Open(tables, m), Matchable(tables, m, t), Waits(tables, m, t)
      PROVE  Queued(tables, "MatchMandate", m) \/ <<"MatchMandate", m>> \in tables.failed
  <2>1. Wanted(tables, m, t)
    BY <1>1 DEF Wanted
  <2>2. Asked(tables, m) /\ tables.outbox \in Seq(JobRecords)
    BY <1>1, <2>1 DEF MarketInv, MatchesAsked, Sound, Typed
  <2>3. CASE \E job \in Range(tables.outbox) : job.event = "MatchMandate" /\ job.on = m
    <3>1. PICK i \in DOMAIN tables.outbox : tables.outbox[i].event = "MatchMandate" /\ tables.outbox[i].on = m
      BY <2>3 DEF Range
    <3> QED BY <2>2, <3>1, LenProperties DEF Queued
  <2> QED BY <2>2, <2>3 DEF Asked
<1>2. MarketInv => MatchesAreQueued
  BY <1>1 DEF MatchesAreQueued, Matchable, Waits
<1> QED BY <1>2, MarketIsSound, PTL

(***************************************************************************)
(* Connections: a code and a policy serve one connection, and nothing is shown *)
(* for sale whose consent was stopped.                                       *)
(***************************************************************************)
PolicyRecords == [status : {"none", "prepared", "active", "revoked"}, window : BOOLEAN, lapsed : BOOLEAN,
                  device : Requests \cup {NoDevice}]
DeviceRecords == [made : BOOLEAN, policy : Policies \cup {NoGrant}, revoked : BOOLEAN, lapsed : BOOLEAN]
CodeRecords == [status : {"none", "pending", "approving", "approved", "delivered", "denied", "cancelled", "purged"},
                device : Requests \cup {NoDevice}, lapsed : BOOLEAN, given : Nat]
RecordingRecords == [state : {"none", "begun", "recording", "dropped", "completed"},
                     via : Requests \cup {RELAY, NoDevice}, policy : Policies \cup {NoGrant},
                     ready : BOOLEAN, version : Nat, offer : {"none", "LISTED", "INELIGIBLE"}]
ListingRecords == [made : BOOLEAN, signed : BOOLEAN, active : BOOLEAN, unlisted : BOOLEAN, version : Nat]
CallPlaces == {"claim", "activate", "issue", "finish", "rollback", "over"}
PassRecords == [pc : {"off", "idle", "look", "list", "sign", "activate", "mark", "give up"},
                queue : SUBSET Recordings, version : Nat]
ConnectionsTypeOK ==
  /\ policies \in [Policies -> PolicyRecords]
  /\ devices \in [Requests -> DeviceRecords]
  /\ codes \in [Codes -> CodeRecords]
  /\ relay \in [active : BOOLEAN, policy : Policies \cup {NoGrant}]
  /\ recordings \in [Recordings -> RecordingRecords]
  /\ listings \in [Recordings -> ListingRecords]
  /\ calls \in [Requests -> CallPlaces]
  /\ passes \in [Passes -> PassRecords]

\* A request has its device at the end only; a code is at stake for the request that claimed it.
CallsAreInOrder ==
  \A r \in Requests :
    /\ calls[r] \in {"claim", "activate", "issue", "rollback"} => ~devices[r].made
    /\ calls[r] \in {"claim", "finish", "rollback"} => Approving(r)
    /\ calls[r] = "activate" => PolicyOf(r) # NoGrant
    /\ calls[r] = "finish" => devices[r].made
Uses(r, c) ==
  /\ Approving(r) /\ CodeOf(r) = c
  /\ calls[r] \in {"activate", "issue", "finish", "rollback"} \/ devices[r].made
\* A code belongs to the request that claimed it, until that one has given it back or for ever; while
\* the code can be claimed or refused nobody has it; and its credential is there until it is given.
CodesServeOne ==
  \A c \in Codes :
    /\ \A r, s \in Requests : Uses(r, c) /\ Uses(s, c) => r = s
    /\ codes[c].status \in {"none", "pending", "denied"} => \A r \in Requests : ~Uses(r, c)
    /\ codes[c].given <= 1
    /\ codes[c].status \notin {"delivered", "cancelled", "purged"} => codes[c].given = 0
\* A policy and its device name each other, and what is recorded under a policy is from that device, or
\* from the relay as long as the policy has no device.
PoliciesServeOne ==
  \A p \in Policies :
    /\ relay.policy = p => policies[p].device = NoDevice
    /\ \A d \in Requests : devices[d].policy = p <=> policies[p].device = d
    /\ \A t \in Recordings : recordings[t].policy = p =>
         \/ recordings[t].via = RELAY /\ policies[p].device = NoDevice
         \/ recordings[t].via \in Requests /\ policies[p].device = recordings[t].via
\* Only completed recordings of a device are listed, and a pass that signs has a listing.
ListingsAreOfDevices ==
  /\ \A t \in Recordings :
       /\ recordings[t].ready => recordings[t].state = "completed"
       /\ listings[t].made => recordings[t].state = "completed" /\ recordings[t].via # RELAY
       /\ listings[t].active => listings[t].made
  /\ \A w \in Passes :
       /\ passes[w].pc \notin {"off", "idle"} => passes[w].queue # {}
       /\ passes[w].pc \in {"sign", "activate", "mark"} => listings[Mine(w)].made
UnmadeHaveNoPolicy == \A d \in Requests : devices[d].policy # NoGrant => devices[d].made
ConnectionsInv ==
  /\ ConnectionsTypeOK /\ CallsAreInOrder /\ CodesServeOne /\ PoliciesServeOne /\ UnmadeHaveNoPolicy
  /\ ListingsAreOfDevices /\ StoppedConsentSellsNothing

(***************************************************************************)
(* The recording a pass is at, and what may change without disturbing the     *)
(* invariant.                                                               *)
(***************************************************************************)
\* A set of numbers that is not empty has a least one.
LEMMA LeastExists ==
  ASSUME NEW S \in SUBSET Nat, S # {}
  PROVE  Min(S) \in S
<1> DEFINE R == OpToRel(<, Nat)
<1>1. IsWellFoundedOn(R, Nat)
  BY NatLessThanWellFounded
<1>2. \A x, y \in Nat : <<y, x>> \in R <=> y < x
  BY DEF OpToRel
<1>3. PICK x \in S : \A y \in S : ~ (<<y, x>> \in R)
  <2> HIDE DEF R
  <2> QED BY <1>1, WFMin
<1>4. \A y \in S : ~ (y < x)
  <2> HIDE DEF R
  <2> QED BY <1>2, <1>3
<1>5. \A y \in S : x =< y
  BY <1>4
<1> QED BY <1>5 DEF Min

\* The first of the recordings a pass holds is one of them.
LEMMA MineIsQueued ==
  ASSUME NEW w \in Passes, passes[w].queue \in SUBSET Recordings, passes[w].queue # {}
  PROVE  Mine(w) \in passes[w].queue /\ Mine(w) \in Recordings
<1>1. passes[w].queue \in SUBSET Nat
  BY ConnectionsAssumption DEF ConnectionsAssumption
<1> QED BY <1>1, LeastExists DEF Mine

\* Browsers and pairing codes: a step of theirs that makes no device leaves what is recorded and listed.
LEMMA CodeSide ==
  ASSUME ConnectionsInv, UNCHANGED <<policies, devices, recordings, listings, passes, relay>>,
         codes' \in [Codes -> CodeRecords],
         calls' \in [Requests -> CallPlaces],
         CallsAreInOrder', CodesServeOne'
  PROVE  ConnectionsInv'
<1>1. ConnectionsTypeOK'
  BY DEF ConnectionsInv, ConnectionsTypeOK
<1>2. PoliciesServeOne' /\ UnmadeHaveNoPolicy'
  BY DEF ConnectionsInv, PoliciesServeOne, UnmadeHaveNoPolicy
<1>3. ListingsAreOfDevices'
  BY DEF ConnectionsInv, ListingsAreOfDevices, Mine
<1>4. StoppedConsentSellsNothing'
  BY DEF ConnectionsInv, StoppedConsentSellsNothing
<1> QED BY <1>1, <1>2, <1>3, <1>4 DEF ConnectionsInv

\* Recorders and workers: what they do leaves who has which code.
LEMMA RecordingSide ==
  ASSUME ConnectionsInv, UNCHANGED <<policies, devices, codes, relay, calls>>,
         recordings' \in [Recordings -> RecordingRecords],
         listings' \in [Recordings -> ListingRecords],
         passes' \in [Passes -> PassRecords],
         PoliciesServeOne', ListingsAreOfDevices', StoppedConsentSellsNothing'
  PROVE  ConnectionsInv'
<1>1. ConnectionsTypeOK'
  BY DEF ConnectionsInv, ConnectionsTypeOK
<1>2. CallsAreInOrder' /\ CodesServeOne' /\ UnmadeHaveNoPolicy'
  BY DEF ConnectionsInv, CallsAreInOrder, CodesServeOne, Uses, UnmadeHaveNoPolicy
<1> QED BY <1>1, <1>2 DEF ConnectionsInv

\* Policies that are prepared, signed, withdrawn or past their time keep their device.
LEMMA PolicySide ==
  ASSUME ConnectionsInv, UNCHANGED <<codes, relay, recordings, passes>>,
         policies' \in [Policies -> PolicyRecords],
         devices' \in [Requests -> DeviceRecords],
         listings' \in [Recordings -> ListingRecords],
         calls' \in [Requests -> CallPlaces],
         \A p \in Policies : policies'[p].device = policies[p].device,
         \A d \in Requests : devices'[d].made = devices[d].made /\ devices'[d].policy = devices[d].policy,
         \A t \in Recordings : listings'[t].made = listings[t].made /\ (listings'[t].active => listings[t].active),
         CallsAreInOrder', CodesServeOne', StoppedConsentSellsNothing'
  PROVE  ConnectionsInv'
<1>1. ConnectionsTypeOK'
  BY DEF ConnectionsInv, ConnectionsTypeOK
<1>2. PoliciesServeOne' /\ UnmadeHaveNoPolicy'
  <2>1. UnmadeHaveNoPolicy'
    BY DEF ConnectionsInv, UnmadeHaveNoPolicy
  <2>2. \A p \in Policies, d \in Requests : devices'[d].policy = p <=> policies'[p].device = d
    BY DEF ConnectionsInv, PoliciesServeOne
  <2>3. \A p \in Policies : relay'.policy = p => policies'[p].device = NoDevice
    BY DEF ConnectionsInv, PoliciesServeOne
  <2>4. \A p \in Policies, t \in Recordings : recordings'[t].policy = p =>
           \/ recordings'[t].via = RELAY /\ policies'[p].device = NoDevice
           \/ recordings'[t].via \in Requests /\ policies'[p].device = recordings'[t].via
    BY DEF ConnectionsInv, PoliciesServeOne
  <2> QED BY <2>1, <2>2, <2>3, <2>4 DEF PoliciesServeOne
<1>3. ListingsAreOfDevices'
  <2>1. ASSUME NEW w \in Passes, passes[w].pc \in {"sign", "activate", "mark"} PROVE Mine(w) \in Recordings
    BY <2>1, MineIsQueued DEF ConnectionsInv, ConnectionsTypeOK, ListingsAreOfDevices, PassRecords
  <2> QED BY <2>1 DEF ConnectionsInv, ListingsAreOfDevices, Mine
<1> QED BY <1>1, <1>2, <1>3 DEF ConnectionsInv

(***************************************************************************)
(* Init, and the steps of the helper, of browsers, of the contributor and of   *)
(* time.                                                                    *)
(***************************************************************************)
LEMMA InvInit == ConnectionsInit => ConnectionsInv
<1> SUFFICES ASSUME ConnectionsInit PROVE ConnectionsInv
  OBVIOUS
<1> USE DEF ConnectionsInit
<1>1. ConnectionsTypeOK
  BY DEF ConnectionsTypeOK, Fresh, NoRecording, NoListing, Asleep, FirstStep, PolicyRecords, DeviceRecords, CodeRecords, RecordingRecords, ListingRecords,
     CallPlaces, PassRecords
<1>2. CallsAreInOrder /\ UnmadeHaveNoPolicy
  BY ConnectionsAssumption DEF ConnectionsAssumption, CallsAreInOrder, UnmadeHaveNoPolicy, FirstStep, Approving, PolicyOf
<1>3. CodesServeOne
  BY ConnectionsAssumption DEF ConnectionsAssumption, CodesServeOne, Uses, FirstStep, Approving, CodeOf
<1>4. PoliciesServeOne
  BY ConnectionsAssumption DEF ConnectionsAssumption, PoliciesServeOne, Fresh, NoRecording
<1>5. ListingsAreOfDevices /\ StoppedConsentSellsNothing
  BY DEF ListingsAreOfDevices, StoppedConsentSellsNothing, NoRecording, NoListing, Asleep
<1> QED BY <1>1, <1>2, <1>3, <1>4, <1>5 DEF ConnectionsInv

LEMMA CodeSteps ==
  ASSUME ConnectionsInv, NEW c \in Codes, CreateCode(c) \/ Token(c) \/ Deny(c) \/ Cancel(c) \/ LapseCode(c)
  PROVE  ConnectionsInv'
<1> USE DEF CreateCode, Token, Deny, Cancel, LapseCode, SetCode, Deliverable, browserVars
<1>1. UNCHANGED <<policies, devices, recordings, listings, passes, relay, calls>>
  OBVIOUS
<1>2. codes \in [Codes -> CodeRecords] /\ calls \in [Requests -> CallPlaces]
  BY DEF ConnectionsInv, ConnectionsTypeOK
<1>3. codes' \in [Codes -> CodeRecords]
  <2>1. CASE CreateCode(c)
    BY <1>2, <2>1 DEF CodeRecords
  <2>2. CASE Token(c)
    BY <1>2, <2>2 DEF CodeRecords
  <2>3. CASE Deny(c) \/ Cancel(c)
    BY <1>2, <2>3 DEF CodeRecords
  <2>4. CASE LapseCode(c)
    <3>1. [codes[c] EXCEPT !.lapsed = TRUE] \in CodeRecords
      BY <1>2 DEF CodeRecords
    <3> QED BY <1>2, <2>4, <3>1
  <2> QED BY <2>1, <2>2, <2>3, <2>4
<1>4. CallsAreInOrder'
  BY <1>1 DEF ConnectionsInv, CallsAreInOrder
<1>5. CodesServeOne'
  <2> SUFFICES ASSUME NEW x \in Codes
               PROVE /\ \A r, s \in Requests : Uses(r, x)' /\ Uses(s, x)' => r = s
                     /\ codes'[x].status \in {"none", "pending", "denied"} => \A r \in Requests : ~Uses(r, x)'
                     /\ codes'[x].given <= 1
                     /\ codes'[x].status \notin {"delivered", "cancelled", "purged"} => codes'[x].given = 0
    BY DEF CodesServeOne
  <2>1. \A r \in Requests : Uses(r, x)' <=> Uses(r, x)
    BY <1>1 DEF Uses, Approving, CodeOf
  <2>2. codes'[x].status \in {"none", "pending", "denied"} => codes[x].status \in {"none", "pending", "denied"}
    BY <1>2 DEF CodeRecords
  <2>3. /\ codes'[x].given <= 1
        /\ codes'[x].status \notin {"delivered", "cancelled", "purged"} => codes'[x].given = 0
    BY <1>2 DEF ConnectionsInv, CodesServeOne, CodeRecords
  <2> QED BY <2>1, <2>2, <2>3 DEF ConnectionsInv, CodesServeOne
<1> QED BY <1>1, <1>2, <1>3, <1>4, <1>5, CodeSide

LEMMA RequestSteps ==
  ASSUME ConnectionsInv, NEW r \in Requests, Claim(r) \/ CallFails(r) \/ CallCrashes(r) \/ Finish(r) \/ Rollback(r)
  PROVE  ConnectionsInv'
<1> USE DEF Claim, CallFails, CallCrashes, Finish, Rollback, Go, Refused
<1>1. UNCHANGED <<policies, devices, recordings, listings, passes, relay>>
  OBVIOUS
<1>2. /\ codes \in [Codes -> CodeRecords]
      /\ calls \in [Requests -> CallPlaces]
      /\ calls[r] \in {"claim", "finish", "rollback"} => Approving(r) /\ CodeOf(r) \in Codes
  BY ConnectionsAssumption DEF ConnectionsAssumption, ConnectionsInv, ConnectionsTypeOK, CallsAreInOrder, Approving, CodeOf
<1>3. codes' \in [Codes -> CodeRecords] /\ calls' \in [Requests -> CallPlaces]
  <2>1. calls' \in [Requests -> CallPlaces]
    BY <1>2 DEF CallPlaces
  <2>2. codes' \in [Codes -> CodeRecords]
    BY <1>2 DEF CodeRecords
  <2> QED BY <2>1, <2>2
<1>4. CallsAreInOrder'
  BY <1>1, <1>2 DEF ConnectionsInv, CallsAreInOrder, Approving, PolicyOf
<1>5. CodesServeOne'
  <2> SUFFICES ASSUME NEW x \in Codes
               PROVE /\ \A q, s \in Requests : Uses(q, x)' /\ Uses(s, x)' => q = s
                     /\ codes'[x].status \in {"none", "pending", "denied"} => \A q \in Requests : ~Uses(q, x)'
                     /\ codes'[x].given <= 1
                     /\ codes'[x].status \notin {"delivered", "cancelled", "purged"} => codes'[x].given = 0
    BY DEF CodesServeOne
  <2>1. CASE Claim(r) /\ Claimable(CodeOf(r))
    <3>1. \A q \in Requests \ {r} : Uses(q, x)' <=> Uses(q, x)
      BY <1>1, <1>2, <2>1 DEF Uses, Approving, CodeOf
    <3>2. Uses(r, x)' => x = CodeOf(r)
      BY DEF Uses, CodeOf
    <3>3. \A q \in Requests : ~Uses(q, CodeOf(r))
      BY <1>2, <2>1 DEF ConnectionsInv, CodesServeOne, Claimable
    <3>4. /\ codes'[CodeOf(r)].status = "approving"
          /\ \A y \in Codes : codes'[y].given = codes[y].given /\ (y # CodeOf(r) => codes'[y] = codes[y])
      BY <1>2, <2>1 DEF CodeRecords
    <3> QED BY <1>2, <2>1, <3>1, <3>2, <3>3, <3>4 DEF ConnectionsInv, CodesServeOne, Claimable
  <2>2. CASE ~(Claim(r) /\ Claimable(CodeOf(r))) /\ ~Rollback(r)
    <3>1. \A q \in Requests : Uses(q, x)' => Uses(q, x)
      BY <1>1, <1>2, <2>2 DEF Uses, Approving, CodeOf
    <3>2. \/ codes' = codes
          \/ codes[CodeOf(r)].status = "approving" /\ CodeOf(r) \in Codes
             /\ codes' = [codes EXCEPT ![CodeOf(r)].status = "approved", ![CodeOf(r)].device = r]
      BY <1>2, <2>2
    <3>3. codes'[x].given = codes[x].given
      BY <1>2, <3>2 DEF CodeRecords
    <3>4. codes'[x].status = codes[x].status \/ (codes[x].status = "approving" /\ codes'[x].status = "approved")
      BY <1>2, <3>2 DEF CodeRecords
    <3> QED BY <3>1, <3>3, <3>4 DEF ConnectionsInv, CodesServeOne
  <2>3. CASE Rollback(r)
    <3>1. ~Uses(r, x)'
      BY <1>1, <1>2, <2>3 DEF ConnectionsInv, CallsAreInOrder, Uses
    <3>2. \A q \in Requests : Uses(q, x)' => Uses(q, x)
      BY <1>1, <1>2, <2>3 DEF Uses, Approving, CodeOf
    <3>3. Uses(r, CodeOf(r))
      BY <1>2, <2>3 DEF Uses
    <3>4. \/ codes' = codes
          \/ codes[CodeOf(r)].status = "approving" /\ codes' = [codes EXCEPT ![CodeOf(r)].status = "pending"]
      BY <1>2, <2>3
    <3>5. codes'[x].given = codes[x].given
      BY <1>2, <3>4 DEF CodeRecords
    <3>6. \/ codes'[x].status = codes[x].status
          \/ x = CodeOf(r) /\ codes[x].status = "approving" /\ codes'[x].status = "pending"
      BY <1>2, <3>4 DEF CodeRecords
    <3> QED BY <3>1, <3>2, <3>3, <3>5, <3>6 DEF ConnectionsInv, CodesServeOne
  <2> QED BY <2>1, <2>2, <2>3
<1> QED BY <1>1, <1>3, <1>4, <1>5, CodeSide

\* A device is asked for when there is none; it becomes the only one of its code and of its policy.
LEMMA DeviceSteps ==
  ASSUME ConnectionsInv, NEW r \in Requests, CreateDevice(r)
  PROVE  ConnectionsInv'
<1>1. /\ codes' = codes /\ relay' = relay /\ recordings' = recordings /\ listings' = listings /\ passes' = passes
      /\ calls[r] = "issue" /\ Calls[r].does # "connect"
  BY DEF CreateDevice
<1>2. /\ policies \in [Policies -> PolicyRecords] /\ devices \in [Requests -> DeviceRecords]
      /\ calls \in [Requests -> CallPlaces] /\ PolicyOf(r) \in Policies \cup {NoGrant}
      /\ recordings \in [Recordings -> RecordingRecords] /\ NoGrant \notin Policies /\ NoDevice \notin Requests
  BY ConnectionsAssumption DEF ConnectionsAssumption, ConnectionsInv, ConnectionsTypeOK, PolicyOf
<1> DEFINE made == Cardinality({d \in Requests : Connected(d)}) < MAX_DEVICES /\ (PolicyOf(r) = NoGrant \/ Bindable(PolicyOf(r)))
<1>3. CASE ~made
  <2>1. /\ UNCHANGED <<policies, devices>> /\ calls' = [calls EXCEPT ![r] = IF Approving(r) THEN "rollback" ELSE "over"]
    BY <1>3 DEF CreateDevice, Refused, Go
  <2>2. calls' \in [Requests -> CallPlaces]
    BY <1>2, <2>1 DEF CallPlaces
  <2>3. CallsAreInOrder'
    BY <1>1, <1>2, <2>1 DEF ConnectionsInv, CallsAreInOrder, Approving, PolicyOf
  <2>4. \A q \in Requests, c \in Codes : Uses(q, c)' => Uses(q, c)
    BY <1>1, <1>2, <2>1 DEF Uses, Approving, CodeOf
  <2>5. CodesServeOne'
    BY <1>1, <2>4 DEF ConnectionsInv, CodesServeOne
  <2> QED BY <1>1, <2>1, <2>2, <2>3, <2>5, CodeSide DEF ConnectionsInv, ConnectionsTypeOK
<1>4. CASE made
  <2>1. /\ devices' = [devices EXCEPT ![r].made = TRUE, ![r].policy = PolicyOf(r)]
        /\ policies' = [p \in Policies |-> IF p = PolicyOf(r) THEN [policies[p] EXCEPT !.device = r] ELSE policies[p]]
        /\ calls' = [calls EXCEPT ![r] = IF Approving(r) THEN "finish" ELSE "over"]
    BY <1>4 DEF CreateDevice, Go
  <2>2. /\ devices'[r].made /\ devices'[r].policy = PolicyOf(r) /\ devices'[r].revoked = devices[r].revoked
        /\ \A d \in Requests \ {r} : devices'[d] = devices[d]
    BY <1>2, <2>1 DEF DeviceRecords
  <2>3. \A p \in Policies : /\ p = PolicyOf(r) => policies'[p].device = r /\ policies'[p].status = policies[p].status
                            /\ p # PolicyOf(r) => policies'[p] = policies[p]
    BY <1>2, <2>1 DEF PolicyRecords
  <2>4. /\ ~devices[r].made /\ devices[r].policy = NoGrant
    BY <1>1, <1>2 DEF ConnectionsInv, CallsAreInOrder, UnmadeHaveNoPolicy, DeviceRecords
  <2>5. PolicyOf(r) \in Policies => /\ policies[PolicyOf(r)].device = NoDevice /\ relay.policy # PolicyOf(r)
                                    /\ \A t \in Recordings : recordings[t].policy # PolicyOf(r)
    BY <1>2, <1>4 DEF Bindable, Recorded
  <2>6. ConnectionsTypeOK'
    <3>1. devices' \in [Requests -> DeviceRecords]
      <4>1. [devices[r] EXCEPT !.made = TRUE, !.policy = PolicyOf(r)] \in DeviceRecords
        BY <1>2 DEF DeviceRecords
      <4>2. devices' = [devices EXCEPT ![r] = [devices[r] EXCEPT !.made = TRUE, !.policy = PolicyOf(r)]]
        BY <2>1
      <4> QED BY <1>2, <4>1, <4>2
    <3>2. policies' \in [Policies -> PolicyRecords]
      BY <1>2, <2>1 DEF PolicyRecords
    <3>3. calls' \in [Requests -> CallPlaces]
      BY <1>2, <2>1 DEF CallPlaces
    <3> QED BY <1>1, <3>1, <3>2, <3>3 DEF ConnectionsInv, ConnectionsTypeOK
  <2>7. CallsAreInOrder' /\ UnmadeHaveNoPolicy'
    BY <1>1, <1>2, <2>1, <2>2 DEF ConnectionsInv, CallsAreInOrder, UnmadeHaveNoPolicy, Approving, PolicyOf
  <2>8. CodesServeOne'
    <3>1. \A q \in Requests, c \in Codes : Uses(q, c)' <=> Uses(q, c)
      BY <1>1, <1>2, <2>1, <2>2 DEF Uses, Approving, CodeOf
    <3> QED BY <1>1, <3>1 DEF ConnectionsInv, CodesServeOne
  <2>9. PoliciesServeOne'
    <3> SUFFICES ASSUME NEW p \in Policies
                 PROVE /\ relay'.policy = p => policies'[p].device = NoDevice
                       /\ \A d \in Requests : devices'[d].policy = p <=> policies'[p].device = d
                       /\ \A t \in Recordings : recordings'[t].policy = p =>
                            \/ recordings'[t].via = RELAY /\ policies'[p].device = NoDevice
                            \/ recordings'[t].via \in Requests /\ policies'[p].device = recordings'[t].via
      BY DEF PoliciesServeOne
    <3>1. CASE p = PolicyOf(r)
      <4>1. \A d \in Requests : devices[d].policy # p
        BY <1>2, <2>5, <3>1 DEF ConnectionsInv, PoliciesServeOne
      <4> QED BY <1>1, <2>2, <2>3, <2>5, <3>1, <4>1
    <3>2. CASE p # PolicyOf(r)
      <4>1. \A d \in Requests : devices'[d].policy = p <=> devices[d].policy = p
        BY <1>2, <2>2, <2>4, <3>2
      <4> QED BY <1>1, <2>3, <3>2, <4>1 DEF ConnectionsInv, PoliciesServeOne
    <3> QED BY <3>1, <3>2
  <2>10. ListingsAreOfDevices'
    BY <1>1 DEF ConnectionsInv, ListingsAreOfDevices, Mine
  <2>11. StoppedConsentSellsNothing'
    <3> SUFFICES ASSUME NEW t \in Recordings, listings'[t].active
                 PROVE /\ recordings'[t].policy # NoGrant /\ policies'[recordings'[t].policy].status = "active"
                       /\ policies'[recordings'[t].policy].device = recordings'[t].via
                       /\ ~devices'[recordings'[t].via].revoked /\ ~listings'[t].unlisted
      BY DEF StoppedConsentSellsNothing
    <3>1. /\ recordings[t].policy # NoGrant /\ policies[recordings[t].policy].status = "active"
          /\ policies[recordings[t].policy].device = recordings[t].via
          /\ ~devices[recordings[t].via].revoked /\ ~listings[t].unlisted
      BY <1>1 DEF ConnectionsInv, StoppedConsentSellsNothing
    <3>2. recordings[t].policy \in Policies /\ recordings[t].policy # PolicyOf(r) /\ recordings[t].via # RELAY
      BY <1>1, <1>2, <2>5, <3>1 DEF ConnectionsInv, ListingsAreOfDevices, RecordingRecords
    <3>3. recordings[t].via \in Requests
      BY <3>2 DEF ConnectionsInv, PoliciesServeOne
    <3> QED BY <1>1, <2>2, <2>3, <3>1, <3>2, <3>3
  <2> QED BY <2>6, <2>7, <2>8, <2>9, <2>10, <2>11 DEF ConnectionsInv
<1> QED BY <1>3, <1>4

\* The relay takes a policy no device has.
LEMMA RelaySteps ==
  ASSUME ConnectionsInv, DisconnectRelay \/ \E r \in Requests : ConnectRelay(r)
  PROVE  ConnectionsInv'
<1>1. UNCHANGED <<policies, devices, codes, recordings, listings, passes>>
  BY DEF DisconnectRelay, ConnectRelay
<1>2. /\ calls \in [Requests -> CallPlaces] /\ relay \in [active : BOOLEAN, policy : Policies \cup {NoGrant}]
      /\ \A r \in Requests : PolicyOf(r) \in Policies \cup {NoGrant}
      /\ NoGrant \notin Policies
  BY ConnectionsAssumption DEF ConnectionsAssumption, ConnectionsInv, ConnectionsTypeOK, PolicyOf
<1>3. calls' = calls \/ \E r \in Requests : calls[r] = "issue" /\ ~Approving(r) /\ calls' = [calls EXCEPT ![r] = "over"]
  BY DEF DisconnectRelay, ConnectRelay, Go, Approving
<1>4. relay'.policy = relay.policy \/ relay'.policy = NoGrant \/ policies[relay'.policy].device = NoDevice
  BY <1>2 DEF DisconnectRelay, ConnectRelay
<1>5. relay' \in [active : BOOLEAN, policy : Policies \cup {NoGrant}]
  <2>1. CASE DisconnectRelay
    BY <1>2, <2>1 DEF DisconnectRelay
  <2>2. CASE \E r \in Requests : ConnectRelay(r)
    <3>1. PICK r \in Requests : relay' = relay \/ relay' = [active |-> TRUE, policy |-> PolicyOf(r)]
      BY <2>2 DEF ConnectRelay
    <3>2. PolicyOf(r) \in Policies \cup {NoGrant}
      BY <1>2
    <3>3. [active |-> TRUE, policy |-> PolicyOf(r)] \in [active : BOOLEAN, policy : Policies \cup {NoGrant}]
      BY <3>2
    <3> QED BY <1>2, <3>1, <3>3
  <2> QED BY <2>1, <2>2
<1>6. calls' \in [Requests -> CallPlaces]
  BY <1>2, <1>3 DEF CallPlaces
<1>7. ConnectionsTypeOK'
  BY <1>1, <1>5, <1>6 DEF ConnectionsInv, ConnectionsTypeOK
<1>8. CallsAreInOrder' /\ UnmadeHaveNoPolicy'
  BY <1>1, <1>2, <1>3 DEF ConnectionsInv, CallsAreInOrder, UnmadeHaveNoPolicy, Approving, PolicyOf
<1>9. CodesServeOne'
  <2>1. \A q \in Requests, c \in Codes : Uses(q, c)' => Uses(q, c)
    BY <1>1, <1>2, <1>3 DEF Uses, Approving, CodeOf
  <2> QED BY <1>1, <2>1 DEF ConnectionsInv, CodesServeOne
<1>10. PoliciesServeOne'
  BY <1>1, <1>2, <1>4 DEF ConnectionsInv, PoliciesServeOne
<1>11. ListingsAreOfDevices' /\ StoppedConsentSellsNothing'
  BY <1>1 DEF ConnectionsInv, ListingsAreOfDevices, StoppedConsentSellsNothing, Mine
<1> QED BY <1>7, <1>8, <1>9, <1>10, <1>11 DEF ConnectionsInv

\* A policy is prepared, signed, or past a time; what was active stays so.
LEMMA PolicySteps ==
  ASSUME ConnectionsInv, (\E p \in Policies : Prepare(p) \/ LapsePolicy(p) \/ CloseWindow(p)) \/ \E r \in Requests : ActivateStream(r)
  PROVE  ConnectionsInv'
<1>1. UNCHANGED <<codes, relay, recordings, passes, devices, listings>>
  BY DEF Prepare, LapsePolicy, CloseWindow, ActivateStream, browserVars
<1>2. /\ policies \in [Policies -> PolicyRecords] /\ devices \in [Requests -> DeviceRecords]
      /\ calls \in [Requests -> CallPlaces] /\ listings \in [Recordings -> ListingRecords]
      /\ recordings \in [Recordings -> RecordingRecords] /\ NoGrant \notin Policies
      /\ \A r \in Requests : PolicyOf(r) \in Policies \cup {NoGrant}
  BY ConnectionsAssumption DEF ConnectionsAssumption, ConnectionsInv, ConnectionsTypeOK, PolicyOf
<1>3. /\ policies' \in [Policies -> PolicyRecords]
      /\ \A p \in Policies : /\ policies'[p].device = policies[p].device
                             /\ policies[p].status = "active" => policies'[p].status = "active"
  <2>1. CASE \E p \in Policies : Prepare(p) \/ LapsePolicy(p) \/ CloseWindow(p)
    <3>1. PICK p \in Policies : Prepare(p) \/ LapsePolicy(p) \/ CloseWindow(p)
      BY <2>1
    <3>2. \/ policies[p].status = "none" /\ policies' = [policies EXCEPT ![p].status = "prepared", ![p].window = TRUE]
          \/ policies' = [policies EXCEPT ![p].lapsed = TRUE, ![p].window = FALSE]
          \/ policies' = [policies EXCEPT ![p].window = FALSE]
      BY <3>1 DEF Prepare, LapsePolicy, CloseWindow
    <3>3. policies' \in [Policies -> PolicyRecords]
      <4>1. policies[p] \in PolicyRecords
        BY <1>2
      <4>2. [policies[p] EXCEPT !.status = "prepared", !.window = TRUE] \in PolicyRecords
        BY <4>1 DEF PolicyRecords
      <4>3. [policies[p] EXCEPT !.lapsed = TRUE, !.window = FALSE] \in PolicyRecords
        BY <4>1 DEF PolicyRecords
      <4>4. [policies[p] EXCEPT !.window = FALSE] \in PolicyRecords
        BY <4>1 DEF PolicyRecords
      <4> QED BY <1>2, <3>2, <4>2, <4>3, <4>4
    <3>4. \A q \in Policies : policies'[q].device = policies[q].device
      BY <1>2, <3>2 DEF PolicyRecords
    <3>5. \A q \in Policies : policies[q].status = "active" => policies'[q].status = "active"
      BY <1>2, <3>2 DEF PolicyRecords
    <3> QED BY <3>3, <3>4, <3>5
  <2>2. CASE \E r \in Requests : ActivateStream(r)
    <3>1. PICK r \in Requests : ActivateStream(r)
      BY <2>2
    <3>2. policies' = policies \/ policies' = [policies EXCEPT ![PolicyOf(r)].status = "active"]
      BY <3>1 DEF ActivateStream
    <3> QED BY <1>2, <3>2 DEF PolicyRecords
  <2> QED BY <2>1, <2>2
<1>4. \/ calls' = calls
      \/ \E r \in Requests : calls[r] = "activate" /\ (\/ calls' = [calls EXCEPT ![r] = "issue"]
                                                       \/ calls' = [calls EXCEPT ![r] = IF Approving(r) THEN "rollback" ELSE "over"])
  BY DEF Prepare, LapsePolicy, CloseWindow, ActivateStream, browserVars, Go, Refused
<1>5. calls' \in [Requests -> CallPlaces]
  BY <1>2, <1>4 DEF CallPlaces
<1>6. CallsAreInOrder'
  BY <1>1, <1>2, <1>4 DEF ConnectionsInv, CallsAreInOrder, Approving, PolicyOf
<1>7. CodesServeOne'
  <2>1. \A q \in Requests, c \in Codes : Uses(q, c)' => Uses(q, c)
    BY <1>1, <1>2, <1>4 DEF Uses, Approving, CodeOf
  <2> QED BY <1>1, <2>1 DEF ConnectionsInv, CodesServeOne
<1>8. StoppedConsentSellsNothing'
  <2>1. \A t \in Recordings : recordings[t].policy \in Policies \cup {NoGrant}
    BY <1>2 DEF RecordingRecords
  <2> QED BY <1>1, <1>3, <2>1 DEF ConnectionsInv, StoppedConsentSellsNothing
<1> QED BY <1>1, <1>2, <1>3, <1>5, <1>6, <1>7, <1>8, PolicySide

\* Withdrawing a policy, or a device with its policy, hides what was recorded under it.
LEMMA WithdrawalSteps ==
  ASSUME ConnectionsInv, (\E p \in Policies : RevokeStream(p)) \/ \E d \in Requests : RevokeDevice(d) \/ LapseDevice(d)
  PROVE  ConnectionsInv'
<1>1. UNCHANGED <<codes, relay, recordings, passes, calls>>
  BY DEF RevokeStream, RevokeDevice, LapseDevice, browserVars
<1>2. /\ policies \in [Policies -> PolicyRecords] /\ devices \in [Requests -> DeviceRecords]
      /\ calls \in [Requests -> CallPlaces] /\ listings \in [Recordings -> ListingRecords]
      /\ recordings \in [Recordings -> RecordingRecords] /\ NoGrant \notin Policies
  BY ConnectionsAssumption DEF ConnectionsAssumption, ConnectionsInv, ConnectionsTypeOK
<1>3. /\ devices' \in [Requests -> DeviceRecords]
      /\ \A d \in Requests : /\ devices'[d].made = devices[d].made /\ devices'[d].policy = devices[d].policy
                             /\ ~RevokeDevice(d) => devices'[d].revoked = devices[d].revoked
  <2>1. \/ devices' = devices
        \/ \E d \in Requests : devices' = [devices EXCEPT ![d].lapsed = TRUE]
        \/ \E d \in Requests : RevokeDevice(d) /\ devices' = [devices EXCEPT ![d].revoked = TRUE]
    BY DEF RevokeStream, RevokeDevice, LapseDevice
  <2>2. devices' \in [Requests -> DeviceRecords]
    <3>1. \A d \in Requests : [devices[d] EXCEPT !.lapsed = TRUE] \in DeviceRecords /\ [devices[d] EXCEPT !.revoked = TRUE] \in DeviceRecords
      BY <1>2, ZenonT(40) DEF DeviceRecords
    <3> QED BY <1>2, <2>1, <3>1
  <2>3. \A d \in Requests : devices'[d].made = devices[d].made /\ devices'[d].policy = devices[d].policy
    BY <1>2, <2>1 DEF DeviceRecords
  <2>4. \A d \in Requests : ~RevokeDevice(d) => devices'[d].revoked = devices[d].revoked
    BY <1>2, <2>1 DEF DeviceRecords
  <2> QED BY <2>2, <2>3, <2>4
<1>4. (policies' = policies /\ listings' = listings) \/ \E p \in Policies : Withdraw(p)
  BY <1>2 DEF RevokeStream, RevokeDevice, LapseDevice, DeviceRecords
<1>5. ASSUME NEW p \in Policies, Withdraw(p)
      PROVE  /\ policies' \in [Policies -> PolicyRecords] /\ listings' \in [Recordings -> ListingRecords]
             /\ \A q \in Policies : policies'[q].device = policies[q].device /\ (q # p => policies'[q].status = policies[q].status)
             /\ \A t \in Recordings : /\ listings'[t].made = listings[t].made /\ listings'[t].unlisted = listings[t].unlisted
                                      /\ listings'[t].active <=> listings[t].active /\ recordings[t].policy # p
  <2>1. policies' \in [Policies -> PolicyRecords] /\ listings' \in [Recordings -> ListingRecords]
    BY <1>2, <1>5, ZenonT(40) DEF Withdraw, PolicyRecords, ListingRecords
  <2>2. \A q \in Policies : policies'[q].device = policies[q].device /\ (q # p => policies'[q].status = policies[q].status)
    BY <1>2, <1>5 DEF Withdraw, PolicyRecords
  <2>3. \A t \in Recordings : /\ listings'[t].made = listings[t].made /\ listings'[t].unlisted = listings[t].unlisted
                              /\ listings'[t].active <=> listings[t].active /\ recordings[t].policy # p
    BY <1>2, <1>5 DEF Withdraw, ListingRecords
  <2> QED BY <2>1, <2>2, <2>3
<1>6. /\ policies' \in [Policies -> PolicyRecords] /\ listings' \in [Recordings -> ListingRecords]
      /\ \A q \in Policies : policies'[q].device = policies[q].device
      /\ \A t \in Recordings : /\ listings'[t].made = listings[t].made /\ listings'[t].unlisted = listings[t].unlisted
                               /\ listings'[t].active => listings[t].active
  BY <1>2, <1>4, <1>5
<1>7. CallsAreInOrder' /\ CodesServeOne'
  BY <1>1, <1>3 DEF ConnectionsInv, CallsAreInOrder, CodesServeOne, Uses
<1>8. StoppedConsentSellsNothing'
  <2> SUFFICES ASSUME NEW t \in Recordings, listings'[t].active
               PROVE /\ recordings'[t].policy # NoGrant /\ policies'[recordings'[t].policy].status = "active"
                     /\ policies'[recordings'[t].policy].device = recordings'[t].via
                     /\ ~devices'[recordings'[t].via].revoked /\ ~listings'[t].unlisted
    BY DEF StoppedConsentSellsNothing
  <2> DEFINE p == recordings[t].policy
             via == recordings[t].via
  <2>1. /\ listings[t].active /\ p # NoGrant /\ policies[p].status = "active" /\ policies[p].device = via
        /\ ~devices[via].revoked /\ ~listings[t].unlisted /\ via # RELAY
    BY <1>6 DEF ConnectionsInv, StoppedConsentSellsNothing, ListingsAreOfDevices
  <2>2. p \in Policies
    BY <1>2, <2>1 DEF RecordingRecords
  <2>3. via \in Requests /\ devices[via].policy = p
    BY <2>1, <2>2 DEF ConnectionsInv, PoliciesServeOne
  <2>4. policies'[p].status = "active"
    BY <1>4, <1>5, <2>1, <2>2
  <2>5. ~devices'[via].revoked
    <3>1. CASE RevokeDevice(via)
      <4>1. Withdraw(p)
        BY <2>1, <2>3, <3>1 DEF RevokeDevice
      <4> QED BY <1>5, <2>2, <4>1
    <3>2. CASE ~RevokeDevice(via)
      BY <1>3, <2>1, <2>3, <3>2
    <3> QED BY <3>1, <3>2
  <2> QED BY <1>1, <1>6, <2>1, <2>2, <2>4, <2>5
<1> QED BY <1>1, <1>2, <1>3, <1>6, <1>7, <1>8, PolicySide

(***************************************************************************)
(* Recordings.  What is not offered yet may be given a policy it has a right   *)
(* to; afterwards a recording keeps its policy and where it came from.        *)
(***************************************************************************)
LEMMA UpdateKeepsInv ==
  ASSUME ConnectionsInv, NEW t \in Recordings, NEW row \in RecordingRecords, Update(t, row), UNCHANGED devices,
         \/ row.policy = recordings[t].policy /\ row.via = recordings[t].via
         \/ /\ ~listings[t].made
            /\ row.policy # NoGrant => \/ row.via = RELAY /\ policies[row.policy].device = NoDevice
                                       \/ row.via \in Requests /\ policies[row.policy].device = row.via,
         row.ready => row.state = "completed",
         recordings[t].state = "completed" => row.state = "completed"
  PROVE  ConnectionsInv'
<1>1. UNCHANGED <<policies, devices, codes, relay, calls, listings, passes>>
  BY DEF Update, browserVars
<1>2. /\ recordings \in [Recordings -> RecordingRecords] /\ NoGrant \notin Policies
      /\ listings \in [Recordings -> ListingRecords] /\ passes \in [Passes -> PassRecords]
  BY ConnectionsAssumption DEF ConnectionsAssumption, ConnectionsInv, ConnectionsTypeOK
<1>3. recordings' = [recordings EXCEPT ![t] = row]
  BY DEF Update
<1>4. recordings'[t] = row /\ \A u \in Recordings \ {t} : recordings'[u] = recordings[u]
  BY <1>2, <1>3
<1>5. recordings' \in [Recordings -> RecordingRecords]
  BY <1>2, <1>3
<1>6. PoliciesServeOne'
  BY <1>1, <1>2, <1>4 DEF ConnectionsInv, PoliciesServeOne
<1>7. ListingsAreOfDevices'
  <2>1. \A u \in Recordings : /\ recordings'[u].ready => recordings'[u].state = "completed"
                              /\ listings'[u].made => recordings'[u].state = "completed" /\ recordings'[u].via # RELAY
                              /\ listings'[u].active => listings'[u].made
    BY <1>1, <1>4 DEF ConnectionsInv, ListingsAreOfDevices
  <2>2. \A w \in Passes : /\ passes'[w].pc \notin {"off", "idle"} => passes'[w].queue # {}
                          /\ passes'[w].pc \in {"sign", "activate", "mark"} => listings'[Mine(w)'].made
    BY <1>1 DEF ConnectionsInv, ListingsAreOfDevices, Mine
  <2> QED BY <2>1, <2>2 DEF ListingsAreOfDevices
<1>8. StoppedConsentSellsNothing'
  BY <1>1, <1>4 DEF ConnectionsInv, StoppedConsentSellsNothing, ListingsAreOfDevices
<1> QED BY <1>1, <1>2, <1>5, <1>6, <1>7, <1>8, RecordingSide DEF ConnectionsInv, ConnectionsTypeOK

LEMMA RecordingSteps ==
  ASSUME ConnectionsInv, NEW t \in Recordings,
         \/ \E d \in Requests : BeginCapture(t, d)
         \/ BindCapture(t) \/ CompleteCapture(t) \/ PrepareRelease(t) \/ Reprocess(t) \/ BeginRelayed(t) \/ FinishRelayed(t)
  PROVE  ConnectionsInv'
<1>1. /\ recordings[t] \in RecordingRecords /\ relay.policy \in Policies \cup {NoGrant}
      /\ \A d \in Requests : devices[d].policy \in Policies \cup {NoGrant}
      /\ NoGrant \notin Policies
  BY ConnectionsAssumption DEF ConnectionsAssumption, ConnectionsInv, ConnectionsTypeOK, DeviceRecords
<1>2. /\ recordings[t].ready => recordings[t].state = "completed"
      /\ listings[t].made => recordings[t].state = "completed"
  BY DEF ConnectionsInv, ListingsAreOfDevices
<1>3. ASSUME NEW d \in Requests, BeginCapture(t, d) PROVE ConnectionsInv'
  <2> DEFINE policy == IF Authority(d, devices[d].policy) THEN devices[d].policy ELSE NoGrant
             row == [recordings[t] EXCEPT !.state = "begun", !.via = d, !.policy = policy]
  <2>1. recordings[t].state = "none" /\ Update(t, row) /\ UNCHANGED devices
    BY <1>3 DEF BeginCapture
  <2>2. policy \in Policies \cup {NoGrant} /\ (policy # NoGrant => policies[policy].device = d)
    BY <1>1 DEF Authority
  <2>3. row \in RecordingRecords /\ row.policy = policy /\ row.via = d /\ row.ready = recordings[t].ready
    <3> HIDE DEF policy
    <3> QED BY <1>1, <2>2 DEF RecordingRecords
  <2> HIDE DEF row, policy
  <2> QED BY <1>2, <2>1, <2>2, <2>3, UpdateKeepsInv
<1>4. CASE BindCapture(t)
  <2> DEFINE row == IF Bound(t) THEN [recordings[t] EXCEPT !.state = "recording"]
                    ELSE [recordings[t] EXCEPT !.state = "dropped", !.policy = NoGrant]
  <2>1. recordings[t].state = "begun" /\ Update(t, row) /\ UNCHANGED devices
    BY <1>4 DEF BindCapture
  <2>2. row \in RecordingRecords /\ row.ready = recordings[t].ready
        /\ (row.policy = NoGrant \/ (row.policy = recordings[t].policy /\ row.via = recordings[t].via))
    BY <1>1 DEF RecordingRecords
  <2> HIDE DEF row
  <2> QED BY <1>2, <2>1, <2>2, UpdateKeepsInv
<1>5. CASE CompleteCapture(t)
  <2> DEFINE row == [recordings[t] EXCEPT !.state = "completed"]
  <2>1. Update(t, row) /\ UNCHANGED devices
    BY <1>5 DEF CompleteCapture
  <2>2. row \in RecordingRecords /\ row.state = "completed" /\ row.policy = recordings[t].policy /\ row.via = recordings[t].via
    BY <1>1 DEF RecordingRecords
  <2> HIDE DEF row
  <2> QED BY <2>1, <2>2, UpdateKeepsInv
<1>6. CASE PrepareRelease(t)
  <2>1. PICK version \in {recordings[t].version, recordings[t].version + 1} :
               Update(t, [recordings[t] EXCEPT !.ready = TRUE, !.version = version])
    BY <1>6 DEF PrepareRelease
  <2> DEFINE row == [recordings[t] EXCEPT !.ready = TRUE, !.version = version]
  <2>2. version \in Nat
    BY <1>1, <2>1 DEF RecordingRecords
  <2>3. row \in RecordingRecords /\ row.policy = recordings[t].policy /\ row.via = recordings[t].via
        /\ row.state = recordings[t].state
    BY <1>1, <2>2 DEF RecordingRecords
  <2>4. recordings[t].state = "completed" /\ UNCHANGED devices
    BY <1>6 DEF PrepareRelease
  <2> HIDE DEF row
  <2> QED BY <2>1, <2>3, <2>4, UpdateKeepsInv DEF row
<1>7. CASE Reprocess(t)
  <2> DEFINE row == [recordings[t] EXCEPT !.ready = FALSE]
  <2>1. Update(t, row) /\ UNCHANGED devices
    BY <1>7 DEF Reprocess
  <2>2. row \in RecordingRecords /\ ~row.ready /\ row.policy = recordings[t].policy /\ row.via = recordings[t].via
        /\ row.state = recordings[t].state
    BY <1>1 DEF RecordingRecords
  <2> HIDE DEF row
  <2> QED BY <2>1, <2>2, UpdateKeepsInv
<1>8. CASE BeginRelayed(t)
  <2> DEFINE row == [recordings[t] EXCEPT !.state = "recording", !.via = RELAY, !.policy = relay.policy]
  <2>1. recordings[t].state = "none" /\ Update(t, row) /\ UNCHANGED devices
    BY <1>8 DEF BeginRelayed
  <2>2. row \in RecordingRecords /\ row.policy = relay.policy /\ row.via = RELAY /\ row.ready = recordings[t].ready
    BY <1>1 DEF RecordingRecords
  <2>3. relay.policy # NoGrant => policies[relay.policy].device = NoDevice
    BY <1>1 DEF ConnectionsInv, PoliciesServeOne
  <2> HIDE DEF row
  <2> QED BY <1>2, <2>1, <2>2, <2>3, UpdateKeepsInv
<1>9. CASE FinishRelayed(t)
  <2>1. PICK version \in {0, 1} : Update(t, [recordings[t] EXCEPT !.state = "completed", !.version = version])
    BY <1>9 DEF FinishRelayed
  <2> DEFINE row == [recordings[t] EXCEPT !.state = "completed", !.version = version]
  <2>2. version \in Nat /\ UNCHANGED devices
    BY <1>9 DEF FinishRelayed
  <2>3. row \in RecordingRecords /\ row.policy = recordings[t].policy /\ row.via = recordings[t].via /\ row.state = "completed"
    BY <1>1, <2>2 DEF RecordingRecords
  <2> HIDE DEF row
  <2> QED BY <2>1, <2>2, <2>3, UpdateKeepsInv DEF row
<1> QED BY <1>3, <1>4, <1>5, <1>6, <1>7, <1>8, <1>9

\* A listing the contributor takes down is not shown.
LEMMA UnlistKeepsInv ==
  ASSUME ConnectionsInv, NEW t \in Recordings, Unlist(t)
  PROVE  ConnectionsInv'
<1>1. UNCHANGED <<policies, devices, codes, relay, calls, recordings, passes>>
  BY DEF Unlist, browserVars
<1>2. listings' \in [Recordings -> ListingRecords]
      /\ \A u \in Recordings : /\ listings'[u].made = listings[u].made
                               /\ listings'[u].active => listings[u].active /\ listings'[u].unlisted = listings[u].unlisted
  BY DEF ConnectionsInv, ConnectionsTypeOK, Unlist, ListingRecords
<1>3. CallsAreInOrder' /\ CodesServeOne'
  BY <1>1 DEF ConnectionsInv, CallsAreInOrder, CodesServeOne, Uses
<1>4. StoppedConsentSellsNothing'
  BY <1>1, <1>2 DEF ConnectionsInv, StoppedConsentSellsNothing
<1> QED BY <1>1, <1>2, <1>3, <1>4, PolicySide DEF ConnectionsInv, ConnectionsTypeOK

(***************************************************************************)
(* The worker's passes.                                                      *)
(***************************************************************************)
LEMMA PassKeepsInv ==
  ASSUME ConnectionsInv, NEW w \in Passes, NEW row \in PassRecords, passes' = [passes EXCEPT ![w] = row],
         UNCHANGED <<policies, devices, codes, relay, calls>>,
         recordings' \in [Recordings -> RecordingRecords], listings' \in [Recordings -> ListingRecords],
         \A t \in Recordings : /\ recordings'[t].via = recordings[t].via /\ recordings'[t].policy = recordings[t].policy
                               /\ recordings'[t].state = recordings[t].state /\ recordings'[t].ready = recordings[t].ready
                               /\ listings[t].made => listings'[t].made
                               /\ listings'[t].made => recordings[t].state = "completed" /\ recordings[t].via # RELAY
                               /\ listings'[t].active => listings'[t].made,
         row.pc \notin {"off", "idle"} => row.queue # {},
         row.pc \in {"sign", "activate", "mark"} => listings'[Min(row.queue)].made,
         StoppedConsentSellsNothing'
  PROVE  ConnectionsInv'
<1>1. passes \in [Passes -> PassRecords]
  BY DEF ConnectionsInv, ConnectionsTypeOK
<1>2. passes' \in [Passes -> PassRecords] /\ passes'[w] = row /\ \A v \in Passes \ {w} : passes'[v] = passes[v]
  BY <1>1
<1>3. PoliciesServeOne'
  BY DEF ConnectionsInv, PoliciesServeOne
<1>4. ListingsAreOfDevices'
  <2>1. \A t \in Recordings : /\ recordings'[t].ready => recordings'[t].state = "completed"
                              /\ listings'[t].made => recordings'[t].state = "completed" /\ recordings'[t].via # RELAY
                              /\ listings'[t].active => listings'[t].made
    BY DEF ConnectionsInv, ListingsAreOfDevices
  <2>2. ASSUME NEW v \in Passes
        PROVE  /\ passes'[v].pc \notin {"off", "idle"} => passes'[v].queue # {}
               /\ passes'[v].pc \in {"sign", "activate", "mark"} => listings'[Mine(v)'].made
    <3>1. CASE v = w
      BY <1>2, <3>1 DEF Mine
    <3>2. CASE v # w
      <4>1. passes[v].pc \in {"sign", "activate", "mark"} => Mine(v) \in Recordings
        BY <1>1, MineIsQueued DEF ConnectionsInv, ListingsAreOfDevices, PassRecords
      <4>2. passes'[v] = passes[v] /\ Mine(v)' = Mine(v)
        BY <1>2, <3>2 DEF Mine
      <4> QED BY <4>1, <4>2 DEF ConnectionsInv, ListingsAreOfDevices
    <3> QED BY <3>1, <3>2
  <2> QED BY <2>1, <2>2 DEF ListingsAreOfDevices
<1> QED BY <1>2, <1>3, <1>4, RecordingSide

\* What a pass goes on with is still to be looked at.
LEMMA NextRecording ==
  ASSUME NEW w \in Passes, passes \in [Passes -> PassRecords]
  PROVE  /\ Next1(w) \in PassRecords /\ Asleep \in PassRecords /\ Asleep.pc = "idle"
         /\ Next1(w).pc \in {"idle", "look"}
         /\ passes[w].queue # {} => (Next1(w).pc # "idle" => Next1(w).queue # {})
<1>1. passes[w] \in PassRecords /\ Asleep \in PassRecords /\ Asleep.pc = "idle"
  BY DEF PassRecords, Asleep
<1>2. CASE passes[w].queue = {Mine(w)}
  BY <1>1, <1>2 DEF Next1
<1>3. CASE passes[w].queue # {Mine(w)}
  <2>1. Next1(w) = [pc |-> "look", queue |-> passes[w].queue \ {Mine(w)}, version |-> 0]
    BY <1>3 DEF Next1, Asleep
  <2>2. passes[w].queue \ {Mine(w)} \in SUBSET Recordings
    BY <1>1 DEF PassRecords
  <2>3. ASSUME NEW Q \in SUBSET Recordings PROVE [pc |-> "look", queue |-> Q, version |-> 0] \in PassRecords
    BY DEF PassRecords
  <2>4. Next1(w) \in PassRecords
    BY <2>1, <2>2, <2>3
  <2>5. Next1(w).pc = "look" /\ Next1(w).queue = passes[w].queue \ {Mine(w)}
    BY <2>1
  <2> QED BY <1>1, <1>3, <2>4, <2>5
<1> QED BY <1>2, <1>3

LEMMA PassSteps ==
  ASSUME ConnectionsInv, NEW w \in Passes, PassStep(w) \/ PassFails(w)
  PROVE  ConnectionsInv'
<1> DEFINE t == Mine(w)
<1>1. /\ recordings \in [Recordings -> RecordingRecords] /\ listings \in [Recordings -> ListingRecords]
      /\ passes \in [Passes -> PassRecords] /\ NoGrant \notin Policies
  BY ConnectionsAssumption DEF ConnectionsAssumption, ConnectionsInv, ConnectionsTypeOK
<1>2. UNCHANGED <<policies, devices, codes, relay, calls>>
  BY DEF PassStep, ReadPage, Look, ListTrace, Sign, ActivateListing, Mark, GiveUp, Offer, PassFails, OfferFrame, browserVars
<1>3. /\ passes[w] \in PassRecords /\ passes[w].queue \in SUBSET Recordings /\ passes[w].version \in Nat
      /\ passes[w].pc \notin {"off", "idle"} => passes[w].queue # {} /\ t \in Recordings
      /\ passes[w].pc \in {"sign", "activate", "mark"} => listings[t].made
  <2>1. passes[w] \in PassRecords /\ passes[w].queue \in SUBSET Recordings /\ passes[w].version \in Nat
    BY <1>1 DEF PassRecords
  <2> QED BY <2>1, MineIsQueued DEF ConnectionsInv, ListingsAreOfDevices
<1>4. \A u \in Recordings : /\ listings[u].made => recordings[u].state = "completed" /\ recordings[u].via # RELAY
                            /\ listings[u].active => listings[u].made
                            /\ recordings[u].ready => recordings[u].state = "completed"
  BY DEF ConnectionsInv, ListingsAreOfDevices
\* A pass stays at its recording, or takes the next one or none.
<1>5. ASSUME NEW pc \in {"list", "sign", "activate", "mark", "give up"}
      PROVE  /\ [passes[w] EXCEPT !.pc = pc] \in PassRecords
             /\ [passes[w] EXCEPT !.pc = pc].pc = pc /\ [passes[w] EXCEPT !.pc = pc].queue = passes[w].queue
  BY <1>3 DEF PassRecords
<1>6. ASSUME NEW row \in PassRecords, passes' = [passes EXCEPT ![w] = row], UNCHANGED <<recordings, listings>>,
             row.pc \notin {"off", "idle"} => row.queue # {},
             row.pc \in {"sign", "activate", "mark"} => listings[Min(row.queue)].made
      PROVE  ConnectionsInv'
  <2>1. StoppedConsentSellsNothing'
    BY <1>2, <1>6 DEF ConnectionsInv, StoppedConsentSellsNothing
  <2> QED BY <1>1, <1>2, <1>4, <1>6, <2>1, PassKeepsInv
<1>7. ASSUME UNCHANGED <<recordings, listings>>, Skip(w), passes[w].pc \notin {"off", "idle"} PROVE ConnectionsInv'
  BY <1>1, <1>3, <1>6, <1>7, NextRecording DEF Skip
<1>8. ASSUME UNCHANGED <<recordings, listings>>, NEW pc \in {"list", "sign", "activate", "mark", "give up"}, At(w, pc),
             passes[w].pc \notin {"off", "idle"}, pc \in {"sign", "activate", "mark"} => listings[t].made
      PROVE  ConnectionsInv'
  <2>1. passes' = [passes EXCEPT ![w] = [passes[w] EXCEPT !.pc = pc]]
    BY <1>1, <1>8 DEF At
  <2> QED BY <1>3, <1>5, <1>6, <1>8, <2>1 DEF Mine
<1>9. CASE ReadPage(w)
  <2> DEFINE row == [pc |-> "look", queue |-> Page, version |-> 0]
  <2>1. row \in PassRecords /\ row.pc = "look" /\ row.queue = Page /\ Page # {}
    BY <1>9 DEF ReadPage, Page, PassRecords
  <2>2. passes' = [passes EXCEPT ![w] = row] /\ UNCHANGED <<recordings, listings>>
    BY <1>9 DEF ReadPage
  <2> HIDE DEF row
  <2> QED BY <1>6, <2>1, <2>2
<1>10. CASE Look(w)
  <2>1. passes[w].pc = "look" /\ UNCHANGED <<recordings, listings>>
    BY <1>10 DEF Look, Holding
  <2>2. \/ At(w, "give up") \/ Skip(w)
        \/ passes' = [passes EXCEPT ![w].pc = "list", ![w].version = recordings[t].version]
    BY <1>10 DEF Look, NoRight
  <2>3. ASSUME passes' = [passes EXCEPT ![w].pc = "list", ![w].version = recordings[t].version] PROVE ConnectionsInv'
    <3> DEFINE row == [passes[w] EXCEPT !.pc = "list", !.version = recordings[t].version]
    <3>1. recordings[t].version \in Nat
      BY <1>1, <1>3, <2>1 DEF RecordingRecords
    <3>2. row \in PassRecords /\ row.pc = "list" /\ row.queue = passes[w].queue
      BY <1>3, <3>1 DEF PassRecords
    <3>3. passes' = [passes EXCEPT ![w] = row]
      BY <1>1, <2>3
    <3> HIDE DEF row
    <3> QED BY <1>3, <1>6, <2>1, <3>2, <3>3
  <2> QED BY <1>7, <1>8, <2>1, <2>2, <2>3
<1>11. CASE ListTrace(w)
  <2>1. passes[w].pc = "list" /\ recordings' = recordings
    BY <1>11 DEF ListTrace, Holding
  <2>2. \/ UNCHANGED listings /\ (Skip(w) \/ At(w, "give up") \/ (At(w, "sign") /\ listings[t].made))
        \/ /\ ~listings[t].made /\ recordings[t].via # RELAY /\ recordings[t].ready /\ At(w, "sign")
           /\ listings' = [listings EXCEPT ![t].made = TRUE, ![t].version = passes[w].version]
    BY <1>11 DEF ListTrace, NoRight
  <2>3. ASSUME ~listings[t].made, recordings[t].via # RELAY, recordings[t].ready, At(w, "sign"),
               listings' = [listings EXCEPT ![t].made = TRUE, ![t].version = passes[w].version]
        PROVE  ConnectionsInv'
    <3> DEFINE row == [passes[w] EXCEPT !.pc = "sign"]
    <3>1. row \in PassRecords /\ row.pc = "sign" /\ row.queue = passes[w].queue /\ passes' = [passes EXCEPT ![w] = row]
      BY <1>1, <1>5, <2>3 DEF At
    <3>2. listings' \in [Recordings -> ListingRecords] /\ listings'[t].made /\ ~listings'[t].active
          /\ \A u \in Recordings \ {t} : listings'[u] = listings[u]
      <4>1. listings[t] \in ListingRecords /\ ~listings[t].active
        BY <1>1, <1>3, <1>4, <2>1, <2>3
      <4>2. [listings[t] EXCEPT !.made = TRUE, !.version = passes[w].version] \in ListingRecords
        BY <1>3, <4>1 DEF ListingRecords
      <4> QED BY <1>1, <1>3, <2>1, <2>3, <4>1, <4>2 DEF ListingRecords
    <3>3. \A u \in Recordings : /\ listings[u].made => listings'[u].made
                                /\ listings'[u].made => recordings[u].state = "completed" /\ recordings[u].via # RELAY
                                /\ listings'[u].active => (listings'[u].made /\ listings'[u] = listings[u])
      BY <1>4, <2>3, <3>2
    <3>4. StoppedConsentSellsNothing'
      BY <1>2, <2>1, <3>3 DEF ConnectionsInv, StoppedConsentSellsNothing
    <3>5. listings'[Min(row.queue)].made
      BY <3>1, <3>2 DEF Mine
    <3> HIDE DEF row
    <3> QED BY <1>1, <1>2, <1>3, <1>4, <2>1, <3>1, <3>2, <3>3, <3>4, <3>5, PassKeepsInv
  <2> QED BY <1>7, <1>8, <2>1, <2>2, <2>3
<1>12. CASE Sign(w)
  BY <1>3, <1>7, <1>8, <1>12 DEF Sign, Holding, NoRight
<1>13. CASE ActivateListing(w)
  <2>1. passes[w].pc = "activate" /\ recordings' = recordings /\ listings[t].made
    BY <1>3, <1>13 DEF ActivateListing, Holding
  <2>2. \/ UNCHANGED listings /\ (Skip(w) \/ At(w, "give up") \/ At(w, "mark"))
        \/ /\ ~listings[t].unlisted /\ Permitted(t) /\ At(w, "mark")
           /\ listings' = [listings EXCEPT ![t].signed = TRUE, ![t].active = TRUE]
    BY <1>13 DEF ActivateListing, NoRight, MayShow
  <2>3. ASSUME ~listings[t].unlisted, Permitted(t), At(w, "mark"),
               listings' = [listings EXCEPT ![t].signed = TRUE, ![t].active = TRUE]
        PROVE  ConnectionsInv'
    <3> DEFINE row == [passes[w] EXCEPT !.pc = "mark"]
    <3>1. row \in PassRecords /\ row.pc = "mark" /\ row.queue = passes[w].queue /\ passes' = [passes EXCEPT ![w] = row]
      BY <1>1, <1>5, <2>3 DEF At
    <3>2. /\ listings' \in [Recordings -> ListingRecords]
          /\ \A u \in Recordings : listings'[u].made = listings[u].made /\ listings'[u].unlisted = listings[u].unlisted
          /\ \A u \in Recordings \ {t} : listings'[u] = listings[u]
      <4>1. listings[t] \in ListingRecords /\ t \in Recordings
        BY <1>1, <1>3, <2>1
      <4>2. [listings[t] EXCEPT !.signed = TRUE, !.active = TRUE] \in ListingRecords
        BY <4>1 DEF ListingRecords
      <4> QED BY <1>1, <2>3, <4>1, <4>2 DEF ListingRecords
    <3>3. recordings[t].via # RELAY
      BY <1>3, <1>4, <2>1
    <3>4. StoppedConsentSellsNothing'
      <4>1. /\ recordings[t].policy # NoGrant /\ policies[recordings[t].policy].status = "active"
            /\ policies[recordings[t].policy].device = recordings[t].via /\ ~devices[recordings[t].via].revoked
        BY <2>3, <3>3 DEF Permitted, InForce, Authority, Connected
      <4> QED BY <1>2, <2>1, <2>3, <3>2, <4>1 DEF ConnectionsInv, StoppedConsentSellsNothing
    <3>5. listings'[Min(row.queue)].made
      BY <1>3, <2>1, <3>1, <3>2 DEF Mine
    <3>6. \A u \in Recordings : listings'[u].active => listings'[u].made
      BY <1>4, <2>1, <3>2
    <3> HIDE DEF row
    <3> QED BY <1>1, <1>2, <1>3, <1>4, <2>1, <3>1, <3>2, <3>4, <3>5, <3>6, PassKeepsInv
  <2> QED BY <1>7, <1>8, <2>1, <2>2, <2>3
<1>14. CASE Mark(w) \/ GiveUp(w)
  <2>1. passes[w].pc \notin {"off", "idle"} /\ listings' = listings /\ passes' = [passes EXCEPT ![w] = Next1(w)]
    BY <1>14 DEF Mark, GiveUp, Offer, Holding, Skip
  <2>2. PICK status \in {"LISTED", "INELIGIBLE"} : recordings' = [recordings EXCEPT ![t].offer = status]
    BY <1>14 DEF Mark, GiveUp, Offer
  <2>3. /\ recordings' \in [Recordings -> RecordingRecords]
        /\ \A u \in Recordings : recordings'[u].via = recordings[u].via /\ recordings'[u].policy = recordings[u].policy
                                 /\ recordings'[u].state = recordings[u].state /\ recordings'[u].ready = recordings[u].ready
    <3>1. recordings[t] \in RecordingRecords /\ t \in Recordings
      BY <1>1, <1>3, <2>1
    <3>2. [recordings[t] EXCEPT !.offer = status] \in RecordingRecords
      BY <3>1, <2>2 DEF RecordingRecords
    <3> QED BY <1>1, <2>2, <3>1, <3>2 DEF RecordingRecords
  <2>4. StoppedConsentSellsNothing'
    BY <1>2, <2>1, <2>3 DEF ConnectionsInv, StoppedConsentSellsNothing
  <2> QED BY <1>1, <1>2, <1>3, <1>4, <2>1, <2>3, <2>4, PassKeepsInv, NextRecording
<1>15. CASE PassFails(w)
  BY <1>1, <1>6, <1>7, <1>15, NextRecording DEF PassFails
<1> QED BY <1>9, <1>10, <1>11, <1>12, <1>13, <1>14, <1>15 DEF PassStep

(***************************************************************************)
(* The theorems.                                                             *)
(***************************************************************************)
LEMMA InvStep == ConnectionsInv /\ [ConnectionsNext]_connectionVars => ConnectionsInv'
<1> SUFFICES ASSUME ConnectionsInv, [ConnectionsNext]_connectionVars PROVE ConnectionsInv'
  OBVIOUS
<1>1. CASE Helper
  BY <1>1, CodeSteps, RecordingSteps DEF Helper
<1>2. CASE Contributes
  BY <1>2, CodeSteps, PolicySteps, WithdrawalSteps, UnlistKeepsInv, RecordingSteps, RelaySteps DEF Contributes
<1>3. CASE Passing
  BY <1>3, CodeSteps, PolicySteps, WithdrawalSteps DEF Passing
<1>4. CASE Browsers
  BY <1>4, RequestSteps, PolicySteps, DeviceSteps, RelaySteps DEF Browsers, CallStep
<1>5. CASE Workers
  BY <1>5, PassSteps DEF Workers
<1>6. CASE \E t \in Recordings : PrepareRelease(t)
  BY <1>6, RecordingSteps
<1>7. CASE UNCHANGED connectionVars
  <2>1. UNCHANGED <<policies, devices, codes, relay, recordings, listings, calls, passes>>
    BY <1>7 DEF connectionVars
  <2>2. CallsAreInOrder' /\ CodesServeOne'
    BY <2>1 DEF ConnectionsInv, CallsAreInOrder, CodesServeOne, Uses
  <2> QED BY <2>1, <2>2, CodeSide DEF ConnectionsInv, ConnectionsTypeOK
<1> QED BY <1>1, <1>2, <1>3, <1>4, <1>5, <1>6, <1>7 DEF ConnectionsNext

\* The invariant, on which the others rest: every code is used by the request that claimed it only, a
\* policy and its device name each other, and a pass only signs what was recorded by a device.
THEOREM ConnectionsInvariant == ConnectionsSpec => []ConnectionsInv
<1>1. ConnectionsInit => ConnectionsInv
  BY InvInit
<1>2. ConnectionsInv /\ [ConnectionsNext]_connectionVars => ConnectionsInv'
  BY InvStep
<1> QED BY <1>1, <1>2, PTL DEF ConnectionsSpec

\* Every table keeps its type.
THEOREM ConnectionsTypes == ConnectionsSpec => []ConnectionsTypeOK
<1>1. ConnectionsInv => ConnectionsTypeOK
  BY DEF ConnectionsInv
<1> QED BY <1>1, ConnectionsInvariant, PTL

\* Whatever workers, browsers and the contributor do at the same time, nothing is shown for sale after
\* its policy or its device was withdrawn or its listing taken down.
THEOREM NothingStoppedIsSold == ConnectionsSpec => []StoppedConsentSellsNothing
<1>1. ConnectionsInv => StoppedConsentSellsNothing
  BY DEF ConnectionsInv
<1> QED BY <1>1, ConnectionsInvariant, PTL

\* A code makes one device and gives its credential once, and a policy sells for one connection.
THEOREM ConnectionsStaySingle == ConnectionsSpec => []ConnectionsAreSingle
<1>1. ASSUME NEW S, \A x, y \in S : x = y PROVE Cardinality(S) <= 1
  <2>1. CASE S = {}
    BY <2>1, FS_EmptySet
  <2>2. CASE S # {}
    <3>1. PICK x \in S : TRUE
      BY <2>2
    <3>2. S = {x}
      BY <1>1, <3>1
    <3> QED BY <3>2, FS_Singleton
  <2> QED BY <2>1, <2>2
<1>2. ASSUME ConnectionsInv, NEW c \in Codes
      PROVE  Cardinality(DevicesOf(c)) <= 1 /\ codes[c].given <= 1 /\ (codes[c].status = "denied" => DevicesOf(c) = {})
  <2>1. \A r \in DevicesOf(c) : r \in Requests /\ Uses(r, c)
    BY DEF DevicesOf, Uses
  <2>2. \A r, s \in DevicesOf(c) : r = s
    BY <1>2, <2>1 DEF ConnectionsInv, CodesServeOne
  <2>3. Cardinality(DevicesOf(c)) <= 1
    BY <1>1, <2>2
  <2> QED BY <1>2, <2>1, <2>3 DEF ConnectionsInv, CodesServeOne
<1>3. ASSUME ConnectionsInv, NEW p \in Policies PROVE OneConnection(p)
  <2> DEFINE recorders == {recordings[t].via : t \in {t \in Recordings : recordings[t].policy = p}}
             owners == {d \in Requests : devices[d].policy = p}
  <2>1. \A x \in recorders : \/ x = RELAY /\ policies[p].device = NoDevice
                             \/ x \in Requests /\ policies[p].device = x
    BY <1>3 DEF ConnectionsInv, PoliciesServeOne
  <2>2. \A x \in owners : x \in Requests /\ policies[p].device = x
    BY <1>3 DEF ConnectionsInv, PoliciesServeOne
  <2>3. NoDevice \notin Requests
    BY ConnectionsAssumption DEF ConnectionsAssumption
  <2>4. \A x, y \in recorders \cup owners : x = y
    <3> HIDE DEF recorders, owners
    <3> QED BY <2>1, <2>2, <2>3
  <2>5. Cardinality(recorders \cup owners) <= 1
    <3> HIDE DEF recorders, owners
    <3> QED BY <1>1, <2>4
  <2> QED BY <2>5 DEF OneConnection
<1>4. ConnectionsInv => ConnectionsAreSingle
  BY <1>2, <1>3 DEF ConnectionsAreSingle
<1> QED BY <1>4, ConnectionsInvariant, PTL
=============================================================================
