--------------------- MODULE GatewayAndSaleWorkerProofs ---------------------
(***************************************************************************)
(* Proofs about two programs that share the market's database with others.    *)
(*                                                                         *)
(* InferenceGateway, for any requests, costs, operators and invoices: what    *)
(* the provider charged is held or paid and billed once, the entitlement says *)
(* what the ledger says, and texts last until nobody is to have them.          *)
(*                                                                         *)
(* SaleWorker, for any workers, sales, listings, contents and scenarios: the  *)
(* claim on a content stays with the sale that is or may still be funded, and *)
(* a complete job is over on the chain, as long as no block that was read is   *)
(* reorganized away.                                                         *)
(***************************************************************************)
EXTENDS InferenceGateway, SaleWorker, SumTheorems, SequenceTheorems

(***************************************************************************)
(* The inductive invariant.                                                 *)
(***************************************************************************)
Places == {"no", "claimed", "submitting", "unsubmitted", "waiting", "answered", "submitted", "over"}
RequestRecords == [status : {"none", "QUEUED", "PROCESSING", "UNCERTAIN", "COMPLETED", "FAILED", "CANCELLED"},
                   actual : 0..RESERVATION, refers : SUBSET ({"prompt", "output"} \X Requests)]
CallRecords == [sent : Nat, open : BOOLEAN, charge : 0..RESERVATION]
EvidenceRecords == [kind : {"charge", "invoice"}, about : SUBSET Requests, name : Invoices \cup {"none"},
                    by : Submitters, review : {"none", "APPROVED", "REJECTED"}]
GatewayTypeOK ==
  /\ requests \in [Requests -> RequestRecords]
  /\ available \in Nat
  /\ running \in [Requests -> Places]
  /\ calls \in [Requests -> CallRecords]
  /\ evidence \in Seq(EvidenceRecords)

\* How far a call can be, where its process is and what its row says go together.  A row is settled only
\* when the provider can charge nothing more, and then at what was charged.
Settled(r) == Is(r, {"COMPLETED", "FAILED"})
InOrder(r) ==
  /\ running[r] = "no" <=> Is(r, {"none", "QUEUED", "CANCELLED"})
  /\ running[r] \in {"no", "claimed", "submitting", "unsubmitted"} =>
       calls[r].sent = 0 /\ ~calls[r].open /\ calls[r].charge = 0
  /\ calls[r].sent <= 1
  /\ calls[r].open => calls[r].charge = 0 /\ running[r] # "answered"
  /\ running[r] = "waiting" => calls[r].open
  /\ running[r] = "answered" => calls[r].charge > 0
  /\ Settled(r) => Final(r) /\ requests[r].actual = calls[r].charge
  /\ ~Settled(r) => requests[r].actual = 0
RequestsAreInOrder == \A r \in Requests : InOrder(r)

\* The rows' texts are their own; they last until nobody is to have them.
Lapses == [queue : SUBSET Requests, deadline : SUBSET Requests, retention : SUBSET Requests]
TextsAreTheirOwn ==
  /\ lapsed \in Lapses
  /\ \A r \in Requests : requests[r].refers \subseteq {Prompt(r), Output(r)}
  /\ TextsLastUntilUnwanted

\* Evidence that was not rejected is about different requests; a charge is about one, that is final.
EvidenceIsSound ==
  /\ \A i \in DOMAIN evidence : /\ evidence[i].about # {}
                                /\ evidence[i].kind = "charge" => \E r \in Requests : evidence[i].about = {r}
  /\ \A i, j \in DOMAIN evidence :
       i # j /\ evidence[i].kind = evidence[j].kind /\ evidence[i].review # "REJECTED" /\ evidence[j].review # "REJECTED" =>
         /\ evidence[i].about \cap evidence[j].about = {}
         /\ evidence[i].kind = "invoice" => evidence[i].name # evidence[j].name
  /\ \A i \in DOMAIN evidence : evidence[i].kind = "charge" /\ evidence[i].review # "REJECTED" =>
       \A r \in evidence[i].about : Final(r) /\ running[r] # "no"
  /\ \A i \in DOMAIN evidence : evidence[i].kind = "invoice" /\ evidence[i].review = "APPROVED" =>
       \A r \in evidence[i].about : Spent(r)

\* The journals there are, and what they leave on the accounts.
Approved == {i \in DOMAIN evidence : evidence[i].kind = "invoice" /\ evidence[i].review = "APPROVED"}
Billed == UNION {evidence[i].about : i \in Approved}
JournalsAreOfRows ==
  DOMAIN accounts = {<<"choose", "e">>} \cup {<<"reserve", r>> : r \in Made}
                    \cup {<<"usage", r>> : r \in {r \in Requests : Is(r, {"COMPLETED", "FAILED", "CANCELLED"})}}
                    \cup {<<"invoice", evidence[i].name>> : i \in Approved}
BalancesAreRight ==
  /\ \A r \in Requests : Owed(accounts, Reserved, r) = IF r \in Active \cup Uncertain THEN RESERVATION ELSE 0
  /\ available = Owed(accounts, Credit, "e")
  /\ 0 - accountBalance(accounts, Invoiced) = Total(Billed)
  /\ 0 - accountBalance(accounts, Payable) = Total(Requests) - Total(Billed)
GatewayInv ==
  /\ GatewayTypeOK /\ RequestsAreInOrder /\ TextsAreTheirOwn /\ EvidenceIsSound
  /\ JournalsAreOfRows /\ IsBook(accounts) /\ BalancesAreRight

(***************************************************************************)
(* What the journals of the gateway leave on the accounts.                    *)
(***************************************************************************)
\* The accounts of a reservation, of the entitlement and of the network are different ones.
LEMMA AccountsDiffer ==
  /\ <<Credit, "e">> # Payable /\ <<Credit, "e">> # Invoiced /\ Payable # Invoiced
  /\ \A q : <<Reserved, q>> # <<Credit, "e">> /\ <<Reserved, q>> # Payable /\ <<Reserved, q>> # Invoiced
  /\ \A q, r : <<Reserved, q>> = <<Reserved, r>> <=> q = r
BY DEF Credit, Payable, Invoiced, Reserved

\* Reserving moves the reservation from the entitlement's credit to the request's.
Reserves(new, book, r, amount) ==
  /\ IsBook(new) /\ DOMAIN new = DOMAIN book \cup {<<"reserve", r>>}
  /\ accountBalance(new, <<Credit, "e">>) = accountBalance(book, <<Credit, "e">>) + amount
  /\ accountBalance(new, Payable) = accountBalance(book, Payable)
  /\ accountBalance(new, Invoiced) = accountBalance(book, Invoiced)
  /\ \A q : accountBalance(new, <<Reserved, q>>) = accountBalance(book, <<Reserved, q>>) - (IF q = r THEN amount ELSE 0)
LEMMA ReservedBalances ==
  ASSUME NEW book, IsBook(book), NEW r, <<"reserve", r>> \notin DOMAIN book, NEW amount \in Int
  PROVE  Reserves(reserveJournal(book, r, "e", amount), book, r, amount)
<1> DEFINE new == reserveJournal(book, r, "e", amount)
           from == <<Credit, "e">>
           to == <<Reserved, r>>
<1>1. /\ from # to /\ Payable # from /\ Payable # to /\ Invoiced # from /\ Invoiced # to
      /\ \A q : <<Reserved, q>> # from /\ (<<Reserved, q>> = to <=> q = r)
  BY AccountsDiffer
<1>2. new = postJournal(book, <<"reserve", r>>, Move(from, Into(to, amount)))
  BY DEF reserveJournal
<1> HIDE DEF new, from, to
<1>moved. Shifts(new, book, <<"reserve", r>>, from, to, amount)
  BY <1>1, <1>2, PostedIntoOne, Zenon
<1>3. /\ IsBook(new) /\ DOMAIN new = DOMAIN book \cup {<<"reserve", r>>}
      /\ \A account : accountBalance(new, account)
                      = accountBalance(book, account) + (IF account = from THEN amount ELSE IF account = to THEN 0 - amount ELSE 0)
  BY <1>moved DEF Shifts
<1>4. \A account : accountBalance(book, account) \in Int
  BY BalanceType
<1>5. ASSUME NEW q
      PROVE  accountBalance(new, <<Reserved, q>>) = accountBalance(book, <<Reserved, q>>) - (IF q = r THEN amount ELSE 0)
  <2> DEFINE account == <<Reserved, q>>
  <2>1. account # from /\ (account = to <=> q = r)
    BY <1>1
  <2> HIDE DEF account
  <2>2. accountBalance(new, account) = accountBalance(book, account) - (IF q = r THEN amount ELSE 0)
    BY <1>3, <1>4, <2>1
  <2> QED BY <2>2 DEF account
<1>6. /\ accountBalance(new, from) = accountBalance(book, from) + amount
      /\ accountBalance(new, Payable) = accountBalance(book, Payable)
      /\ accountBalance(new, Invoiced) = accountBalance(book, Invoiced)
  BY <1>1, <1>3, <1>4
<1>9. Reserves(new, book, r, amount)
  BY <1>3, <1>5, <1>6 DEF Reserves, from
<1> QED BY <1>9 DEF new

\* Settling takes the reservation back; the provider has what was used, and the rest is credit again.
LEMMA UsagePostings ==
  ASSUME NEW r, NEW amount \in Int, NEW actual \in Int
  PROVE  LET postings == usagePostings(r, "e", amount, actual, Payable)
         IN  /\ \A account \in DOMAIN postings : postings[account] \in Int
             /\ Amount(postings, <<Credit, "e">>) = actual - amount
             /\ Amount(postings, Payable) = 0 - actual
             /\ Amount(postings, Invoiced) = 0
             /\ \A q : Amount(postings, <<Reserved, q>>) = IF q = r THEN amount ELSE 0
<1> DEFINE postings == usagePostings(r, "e", amount, actual, Payable)
           from == <<Reserved, r>>
           one == <<Credit, "e">>
           rest == amount - actual
<1>1. /\ from # one /\ from # Payable /\ one # Payable /\ Invoiced # from /\ Invoiced # one /\ Invoiced # Payable
      /\ \A q : (<<Reserved, q>> = from <=> q = r) /\ <<Reserved, q>> # one /\ <<Reserved, q>> # Payable
  BY AccountsDiffer
<1>2. postings = Move(from, Halves(one, Payable, rest, actual))
  BY DEF usagePostings, Halves
<1>3. rest \in Int /\ rest + actual = amount /\ 0 - rest = actual - amount
  OBVIOUS
<1> HIDE DEF postings, from, one, rest
<1>moved. Divides(postings, from, one, Payable, rest, actual)
  BY <1>1, <1>2, <1>3, PostedIntoTwo, Zenon
<1>4. /\ \A account \in DOMAIN postings : postings[account] \in Int
      /\ \A account : Amount(postings, account)
                      = IF account = from THEN rest + actual ELSE IF account = one THEN 0 - rest
                        ELSE IF account = Payable THEN 0 - actual ELSE 0
  BY <1>moved DEF Divides
<1>5. ASSUME NEW q PROVE Amount(postings, <<Reserved, q>>) = IF q = r THEN amount ELSE 0
  BY <1>1, <1>3, <1>4, Zenon
<1>6. Amount(postings, one) = actual - amount /\ Amount(postings, Payable) = 0 - actual /\ Amount(postings, Invoiced) = 0
  BY <1>1, <1>3, <1>4
<1> QED BY <1>4, <1>5, <1>6 DEF postings, one

Settles(new, book, r, amount, actual) ==
  /\ IsBook(new) /\ DOMAIN new = DOMAIN book \cup {<<"usage", r>>}
  /\ accountBalance(new, <<Credit, "e">>) = accountBalance(book, <<Credit, "e">>) + actual - amount
  /\ accountBalance(new, Payable) = accountBalance(book, Payable) - actual
  /\ accountBalance(new, Invoiced) = accountBalance(book, Invoiced)
  /\ \A q : accountBalance(new, <<Reserved, q>>) = accountBalance(book, <<Reserved, q>>) + (IF q = r THEN amount ELSE 0)
LEMMA SettledBalances ==
  ASSUME NEW book, IsBook(book), NEW r, <<"usage", r>> \notin DOMAIN book, NEW amount \in Int, NEW actual \in Int
  PROVE  Settles(usageJournal(book, r, "e", amount, actual, Payable), book, r, amount, actual)
<1> DEFINE postings == usagePostings(r, "e", amount, actual, Payable)
           new == usageJournal(book, r, "e", amount, actual, Payable)
<1>1. new = postJournal(book, <<"usage", r>>, postings)
  BY DEF usageJournal
<1>2. /\ \A account \in DOMAIN postings : postings[account] \in Int
      /\ Amount(postings, <<Credit, "e">>) = actual - amount /\ Amount(postings, Payable) = 0 - actual
      /\ Amount(postings, Invoiced) = 0
      /\ \A q : Amount(postings, <<Reserved, q>>) = IF q = r THEN amount ELSE 0
  BY UsagePostings
<1> HIDE DEF postings, new
<1>posted. Posts(new, book, <<"usage", r>>, postings)
  BY <1>1, <1>2, PostedBalance, Zenon
<1>3. /\ IsBook(new) /\ DOMAIN new = DOMAIN book \cup {<<"usage", r>>}
      /\ \A account : accountBalance(new, account) = accountBalance(book, account) + Amount(postings, account)
  BY <1>posted DEF Posts
<1>4. \A account : accountBalance(book, account) \in Int
  BY BalanceType
<1>5. \A q : accountBalance(new, <<Reserved, q>>) = accountBalance(book, <<Reserved, q>>) + (IF q = r THEN amount ELSE 0)
  BY <1>2, <1>3, <1>4
<1>6. /\ accountBalance(new, <<Credit, "e">>) = accountBalance(book, <<Credit, "e">>) + actual - amount
      /\ accountBalance(new, Payable) = accountBalance(book, Payable) - actual
      /\ accountBalance(new, Invoiced) = accountBalance(book, Invoiced)
  BY <1>2, <1>3, <1>4
<1>9. Settles(new, book, r, amount, actual)
  BY <1>3, <1>5, <1>6 DEF Settles
<1> QED BY <1>9 DEF new

\* An invoice moves what it bills.
Bills(new, book, name, amount) ==
  /\ IsBook(new) /\ DOMAIN new = DOMAIN book \cup {<<"invoice", name>>}
  /\ accountBalance(new, <<Credit, "e">>) = accountBalance(book, <<Credit, "e">>)
  /\ accountBalance(new, Payable) = accountBalance(book, Payable) + amount
  /\ accountBalance(new, Invoiced) = accountBalance(book, Invoiced) - amount
  /\ \A q : accountBalance(new, <<Reserved, q>>) = accountBalance(book, <<Reserved, q>>)
LEMMA InvoicedBalances ==
  ASSUME NEW book, IsBook(book), NEW name, <<"invoice", name>> \notin DOMAIN book, NEW amount \in Int
  PROVE  Bills(postJournal(book, <<"invoice", name>>, Move(Payable, Into(Invoiced, amount))), book, name, amount)
<1> DEFINE new == postJournal(book, <<"invoice", name>>, Move(Payable, Into(Invoiced, amount)))
           one == <<Credit, "e">>
<1>1. /\ Payable # Invoiced /\ one # Payable /\ one # Invoiced
      /\ \A q : <<Reserved, q>> # Payable /\ <<Reserved, q>> # Invoiced
  BY AccountsDiffer
<1>moved. Shifts(new, book, <<"invoice", name>>, Payable, Invoiced, amount)
  BY <1>1, PostedIntoOne, Zenon
<1>2. /\ IsBook(new) /\ DOMAIN new = DOMAIN book \cup {<<"invoice", name>>}
      /\ \A account : accountBalance(new, account)
                      = accountBalance(book, account) + (IF account = Payable THEN amount ELSE IF account = Invoiced THEN 0 - amount ELSE 0)
  BY <1>moved DEF Shifts
<1>3. \A account : accountBalance(book, account) \in Int
  BY BalanceType
<1> HIDE DEF new, one
<1>4. ASSUME NEW account, account # Payable, account # Invoiced
      PROVE  accountBalance(new, account) = accountBalance(book, account)
  BY <1>2, <1>3, <1>4
<1>5. /\ accountBalance(new, Payable) = accountBalance(book, Payable) + amount
      /\ accountBalance(new, Invoiced) = accountBalance(book, Invoiced) - amount
  BY <1>1, <1>2, <1>3
<1>6. accountBalance(new, one) = accountBalance(book, one)
  BY <1>1, <1>4
<1>7. \A q : accountBalance(new, <<Reserved, q>>) = accountBalance(book, <<Reserved, q>>)
  BY <1>1, <1>4, Zenon
<1>9. Bills(new, book, name, amount)
  BY <1>2, <1>5, <1>6, <1>7 DEF Bills, one
<1> QED BY <1>9 DEF new

\* A sweep settles the requests it ends in one go, which is as settling them one after the other.
Unused(U, amount) ==
  [reference \in {<<"usage", r>> : r \in U} |-> usagePostings(reference[2], "e", amount, 0, Payable)]
Sweeps(new, book, U, amount) ==
  /\ IsBook(new) /\ DOMAIN new = DOMAIN book \cup {<<"usage", r>> : r \in U}
  /\ accountBalance(new, <<Credit, "e">>) = accountBalance(book, <<Credit, "e">>) - Cardinality(U) * amount
  /\ accountBalance(new, Payable) = accountBalance(book, Payable)
  /\ accountBalance(new, Invoiced) = accountBalance(book, Invoiced)
  /\ \A q : accountBalance(new, <<Reserved, q>>) = accountBalance(book, <<Reserved, q>>) + (IF q \in U THEN amount ELSE 0)

SweepsOneMore(book, U, r, amount) ==
  /\ <<"usage", r>> \notin DOMAIN postJournals(book, Unused(U \ {r}, amount))
  /\ postJournals(book, Unused(U, amount))
     = usageJournal(postJournals(book, Unused(U \ {r}, amount)), r, "e", amount, 0, Payable)
LEMMA SweptOneByOne ==
  ASSUME NEW book, NEW U, NEW r \in U, \A q \in U : <<"usage", q>> \notin DOMAIN book, NEW amount
  PROVE  SweepsOneMore(book, U, r, amount)
<1> DEFINE before == postJournals(book, Unused(U \ {r}, amount))
           after == postJournals(book, Unused(U, amount))
           later == usageJournal(before, r, "e", amount, 0, Payable)
           Of(q) == usagePostings(q, "e", amount, 0, Payable)
<1>1. /\ DOMAIN before = DOMAIN book \cup {<<"usage", q>> : q \in U \ {r}}
      /\ \A known \in DOMAIN book : before[known] = book[known]
      /\ \A q \in U \ {r} : before[<<"usage", q>>] = Of(q)
  BY DEF postJournals, Unused
<1>2. /\ after = [known \in DOMAIN book \cup {<<"usage", q>> : q \in U} |->
                    IF known \in DOMAIN book THEN book[known] ELSE Unused(U, amount)[known]]
      /\ \A q \in U : Unused(U, amount)[<<"usage", q>>] = Of(q)
  BY DEF postJournals, Unused
<1>3. <<"usage", r>> \notin DOMAIN before
  BY <1>1
<1>4. later = [known \in DOMAIN before \cup {<<"usage", r>>} |-> IF known = <<"usage", r>> THEN Of(r) ELSE before[known]]
  BY <1>3 DEF usageJournal, postJournal
<1> HIDE DEF before, after, Of
<1>5. DOMAIN before \cup {<<"usage", r>>} = DOMAIN book \cup {<<"usage", q>> : q \in U}
  BY <1>1
<1>6. ASSUME NEW known \in DOMAIN book \cup {<<"usage", q>> : q \in U}
      PROVE  (IF known = <<"usage", r>> THEN Of(r) ELSE before[known])
             = IF known \in DOMAIN book THEN book[known] ELSE Unused(U, amount)[known]
  <2>1. CASE known \in DOMAIN book
    BY <1>1, <2>1
  <2>2. CASE known \notin DOMAIN book
    <3>1. PICK q \in U : known = <<"usage", q>>
      BY <2>2
    <3> QED BY <1>1, <1>2, <2>2, <3>1
  <2> QED BY <2>1, <2>2
<1>7. after = later
  BY <1>2, <1>4, <1>5, <1>6
<1> QED BY <1>3, <1>7 DEF before, after, SweepsOneMore

LEMMA SweptBalances ==
  ASSUME NEW book, IsBook(book), NEW S, IsFiniteSet(S), \A q \in S : <<"usage", q>> \notin DOMAIN book, NEW amount \in Int
  PROVE  Sweeps(postJournals(book, Unused(S, amount)), book, S, amount)
<1> DEFINE AfterSweep(U) == postJournals(book, Unused(U, amount))
           A == {U \in SUBSET S : Sweeps(AfterSweep(U), book, U, amount)}
<1>1. \A account : accountBalance(book, account) \in Int
  BY BalanceType
<1>2. ASSUME NEW U \in SUBSET S, \A V \in SUBSET U : V # U => V \in A PROVE U \in A
  <2>1. IsFiniteSet(U)
    BY FS_Subset
  <2>2. CASE U = {}
    <3>1. AfterSweep(U) = [known \in DOMAIN book |-> book[known]] /\ DOMAIN AfterSweep(U) = DOMAIN book
      BY <2>2 DEF postJournals, Unused
    <3> DEFINE new == AfterSweep(U)
    <3>2. \A account : accountBalance(new, account) = accountBalance(book, account)
      BY <3>1 DEF accountBalance
    <3>3. IsBook(new)
      BY <3>1 DEF IsBook
    <3>4. Cardinality(U) * amount = 0
      BY <2>2, FS_EmptySet
    <3>5. DOMAIN new = DOMAIN book \cup {<<"usage", q>> : q \in U} /\ \A q : q \notin U
      BY <2>2, <3>1
    <3> HIDE DEF new
    <3> QED BY <1>1, <3>2, <3>3, <3>4, <3>5 DEF Sweeps, new
  <2>3. CASE U # {}
    <3>1. PICK r \in U : TRUE
      BY <2>3
    <3> DEFINE V == U \ {r}
               before == AfterSweep(V)
               new == AfterSweep(U)
    <3>2. V \in A /\ r \notin V /\ U = V \cup {r}
      BY <1>2
    <3>3. Sweeps(before, book, V, amount)
      BY <3>2
    <3>4. <<"usage", r>> \notin DOMAIN before /\ new = usageJournal(before, r, "e", amount, 0, Payable)
      <4>1. \A q \in U : <<"usage", q>> \notin DOMAIN book
        OBVIOUS
      <4>2. SweepsOneMore(book, U, r, amount)
        BY <4>1, SweptOneByOne, Zenon
      <4> QED BY <4>2 DEF SweepsOneMore
    <3>5. Cardinality(U) = Cardinality(V) + 1 /\ Cardinality(V) \in Nat
      <4>1. IsFiniteSet(V) /\ Cardinality(V) = Cardinality(U) - 1 /\ Cardinality(U) \in Nat /\ Cardinality(V) \in Nat
        BY <2>1, FS_RemoveElement, FS_CardinalityType
      <4> QED BY <4>1
    <3> HIDE DEF V, before, new
    <3>6. IsBook(before)
      BY <3>3 DEF Sweeps
    <3>7. Settles(new, before, r, amount, 0)
      BY <3>4, <3>6, SettledBalances, 0 \in Int, Zenon
    <3>8. Cardinality(U) * amount = Cardinality(V) * amount + amount /\ Cardinality(V) * amount \in Int
      BY <3>5
    <3> DEFINE ofU == Cardinality(U) * amount
               ofV == Cardinality(V) * amount
    <3>9. ofU = ofV + amount /\ ofV \in Int
      BY <3>8
    <3>10. accountBalance(before, <<Credit, "e">>) = accountBalance(book, <<Credit, "e">>) - ofV
      BY <3>3 DEF Sweeps
    <3> HIDE DEF ofU, ofV
    <3>11. accountBalance(new, <<Credit, "e">>) = accountBalance(book, <<Credit, "e">>) - ofU
      BY <1>1, <3>7, <3>9, <3>10 DEF Settles
    <3>12. \A q : accountBalance(new, <<Reserved, q>>) = accountBalance(book, <<Reserved, q>>) + (IF q \in U THEN amount ELSE 0)
      BY <1>1, <3>2, <3>3, <3>7 DEF Sweeps, Settles
    <3>13. /\ accountBalance(new, Payable) = accountBalance(book, Payable)
           /\ accountBalance(new, Invoiced) = accountBalance(book, Invoiced)
      BY <1>1, <3>3, <3>7 DEF Sweeps, Settles
    <3>14. IsBook(new) /\ DOMAIN new = DOMAIN book \cup {<<"usage", q>> : q \in U}
      BY <3>2, <3>3, <3>7 DEF Sweeps, Settles
    <3>15. Sweeps(new, book, U, amount)
      BY <3>11, <3>12, <3>13, <3>14 DEF Sweeps, ofU
    <3> QED BY <3>15 DEF new
  <2> QED BY <2>2, <2>3
<1>3. A \in SUBSET SUBSET S
  OBVIOUS
<1> HIDE DEF A
<1>4. A = SUBSET S
  BY <1>2, <1>3, SubsetInduction
<1>5. S \in A
  BY <1>4
<1> QED BY <1>5 DEF A

(***************************************************************************)
(* What the steps leave as it was.                                          *)
(***************************************************************************)
Ended(r) == Is(r, {"COMPLETED", "FAILED", "CANCELLED"})

LEMMA Bounds == RESERVATION \in Nat /\ CREDIT \in Nat /\ IsFiniteSet(Requests) /\ \A cost \in Costs : cost \in 0..RESERVATION /\ cost > 0
BY InferenceGatewayAssumption

LEMMA OfRequests ==
  ASSUME GatewayTypeOK, NEW r \in Requests
  PROVE  /\ requests[r] \in RequestRecords /\ running[r] \in Places /\ calls[r] \in CallRecords
         /\ requests[r].status \in {"none", "QUEUED", "PROCESSING", "UNCERTAIN", "COMPLETED", "FAILED", "CANCELLED"}
         /\ requests[r].actual \in 0..RESERVATION /\ requests[r].actual \in Nat
         /\ requests[r].refers \in SUBSET ({"prompt", "output"} \X Requests)
         /\ calls[r].sent \in Nat /\ calls[r].open \in BOOLEAN /\ calls[r].charge \in 0..RESERVATION /\ calls[r].charge \in Nat
<1>1. requests[r] \in RequestRecords /\ running[r] \in Places /\ calls[r] \in CallRecords
  BY DEF GatewayTypeOK
<1> QED BY <1>1, Bounds DEF RequestRecords, CallRecords

LEMMA OfEvidence ==
  ASSUME GatewayTypeOK, NEW i \in DOMAIN evidence
  PROVE  /\ evidence[i] \in EvidenceRecords
         /\ evidence[i].kind \in {"charge", "invoice"} /\ evidence[i].about \in SUBSET Requests
         /\ evidence[i].review \in {"none", "APPROVED", "REJECTED"}
<1>1. evidence[i] \in EvidenceRecords
  BY DEF GatewayTypeOK
<1> QED BY <1>1 DEF EvidenceRecords

LEMMA OneStaysInOrder ==
  ASSUME RequestsAreInOrder, NEW r \in Requests, InOrder(r)',
         \A q \in Requests \ {r} : /\ requests'[q].status = requests[q].status /\ requests'[q].actual = requests[q].actual
                                   /\ running'[q] = running[q] /\ calls'[q] = calls[q]
  PROVE  RequestsAreInOrder'
<1>1. ASSUME NEW q \in Requests PROVE InOrder(q)'
  <2>1. CASE q = r
    BY <2>1
  <2>2. CASE q # r
    <3>1. /\ requests'[q].status = requests[q].status /\ requests'[q].actual = requests[q].actual
          /\ running'[q] = running[q] /\ calls'[q] = calls[q]
      BY <2>2
    <3>2. InOrder(q)
      BY DEF RequestsAreInOrder
    <3> QED BY <3>1, <3>2 DEF InOrder, Settled, Final, Is
  <2> QED BY <2>1, <2>2
<1> QED BY <1>1 DEF RequestsAreInOrder

\* The evidence stays sound when nothing that is final or paid for becomes otherwise.
LEMMA EvidenceStaysSound ==
  ASSUME GatewayTypeOK, EvidenceIsSound, UNCHANGED evidence,
         \A r \in Requests : Final(r) /\ running[r] # "no" => Final(r)' /\ running'[r] # "no",
         \A r \in Requests : Spent(r) => Spent(r)'
  PROVE  EvidenceIsSound'
<1>1. \A i \in DOMAIN evidence : evidence[i].about \in SUBSET Requests
  BY OfEvidence
<1>2. \A i \in DOMAIN evidence : evidence[i].kind = "charge" /\ evidence[i].review # "REJECTED" =>
       \A r \in evidence[i].about : Final(r)' /\ running'[r] # "no"
  BY <1>1 DEF EvidenceIsSound
<1>3. \A i \in DOMAIN evidence : evidence[i].kind = "invoice" /\ evidence[i].review = "APPROVED" =>
       \A r \in evidence[i].about : Spent(r)'
  BY <1>1 DEF EvidenceIsSound
<1> QED BY <1>2, <1>3 DEF EvidenceIsSound

\* The approved invoices are as they were.
SameInvoices ==
  Approved' = Approved /\ \A i \in Approved : evidence'[i].about = evidence[i].about /\ evidence'[i].name = evidence[i].name

LEMMA InvoicesStay ==
  ASSUME SameInvoices
  PROVE  Billed' = Billed /\ {<<"invoice", evidence[i].name>> : i \in Approved}' = {<<"invoice", evidence[i].name>> : i \in Approved}
BY DEF SameInvoices, Billed

LEMMA BilledIsSpent ==
  ASSUME GatewayTypeOK, EvidenceIsSound
  PROVE  Billed \subseteq Requests /\ IsFiniteSet(Billed) /\ \A r \in Billed : Spent(r)
<1>1. \A i \in DOMAIN evidence : evidence[i].about \in SUBSET Requests
  BY OfEvidence
<1>2. Billed \subseteq Requests /\ \A r \in Billed : Spent(r)
  BY <1>1 DEF Billed, Approved, EvidenceIsSound
<1> QED BY <1>2, Bounds, FS_Subset

LEMMA BookStays ==
  ASSUME GatewayInv, UNCHANGED <<available, accounts>>, SameInvoices,
         \A r \in Requests : /\ requests'[r].actual = requests[r].actual
                             /\ (Is(r, {"none"})' <=> Is(r, {"none"})) /\ (Ended(r)' <=> Ended(r))
                             /\ (r \in Active' \cup Uncertain' <=> r \in Active \cup Uncertain)
  PROVE  JournalsAreOfRows' /\ IsBook(accounts)' /\ BalancesAreRight'
<1>1. Billed' = Billed /\ {<<"invoice", evidence[i].name>> : i \in Approved}' = {<<"invoice", evidence[i].name>> : i \in Approved}
  BY InvoicesStay
<1>2. Made' = Made /\ {r \in Requests : Ended(r)}' = {r \in Requests : Ended(r)}
  BY DEF Made
<1>3. JournalsAreOfRows'
  BY <1>1, <1>2 DEF GatewayInv, JournalsAreOfRows, Ended
<1>4. [r \in Requests |-> requests[r].actual]' = [r \in Requests |-> requests[r].actual]
  OBVIOUS
<1>5. Total(Billed)' = Total(Billed) /\ Total(Requests)' = Total(Requests)
  BY <1>1, <1>4 DEF Total
<1>6. \A r \in Requests : Owed(accounts, Reserved, r)' = IF r \in Active' \cup Uncertain' THEN RESERVATION ELSE 0
  BY DEF GatewayInv, BalancesAreRight, Owed
<1>7. available' = Owed(accounts, Credit, "e")'
  BY DEF GatewayInv, BalancesAreRight, Owed
<1>8. /\ 0 - accountBalance(accounts, Invoiced)' = Total(Billed)'
      /\ 0 - accountBalance(accounts, Payable)' = Total(Requests)' - Total(Billed)'
  BY <1>5 DEF GatewayInv, BalancesAreRight
<1>9. IsBook(accounts)'
  BY DEF GatewayInv, IsBook
<1> QED BY <1>3, <1>6, <1>7, <1>8, <1>9 DEF BalancesAreRight

\* A step that keeps the texts of the rows, or names a new one that is there, and after which no request
\* that was over may be executed.
Unforgotten == UNCHANGED <<lapsed, asked>> /\ \A r \in Requests : requests[r].refers \cap texts \subseteq texts'
LEMMA TextsStay ==
  ASSUME TextsAreTheirOwn, Unforgotten,
         \A r \in Requests : /\ requests'[r].refers \subseteq requests[r].refers \cup ({Prompt(r), Output(r)} \cap texts')
                             /\ r \in Made \ Active => r \in Made' \ Active'
  PROVE  TextsAreTheirOwn'
<1>1. lapsed' = lapsed /\ asked' = asked
  BY DEF Unforgotten
<1>2. lapsed' \in Lapses /\ \A r \in Requests : requests'[r].refers \subseteq {Prompt(r), Output(r)}
  BY <1>1 DEF TextsAreTheirOwn
<1>3. asked' \subseteq Made' \ Active'
  <2>1. asked \subseteq Made \ Active /\ Made \subseteq Requests
    BY DEF TextsAreTheirOwn, TextsLastUntilUnwanted, Made
  <2> QED BY <1>1, <2>1
<1>4. ASSUME NEW r \in Requests, r \notin lapsed.retention \cup asked PROVE requests'[r].refers \subseteq texts'
  <2>1. requests[r].refers \subseteq texts
    BY <1>4 DEF TextsAreTheirOwn, TextsLastUntilUnwanted
  <2> QED BY <2>1 DEF Unforgotten
<1> QED BY <1>1, <1>2, <1>3, <1>4 DEF TextsAreTheirOwn, TextsLastUntilUnwanted, Lapses

LEMMA TextsStayOfRows ==
  ASSUME TextsAreTheirOwn, Unforgotten, UNCHANGED requests
  PROVE  TextsAreTheirOwn'
<1>1. Made' = Made /\ Active' = Active
  BY DEF Made, Active, Is
<1> QED BY <1>1, TextsStay

\* A step that leaves the rows, the money and the evidence alone.
LEMMA RowsStay ==
  ASSUME GatewayInv, UNCHANGED <<requests, available, accounts, evidence>>,
         running' \in [Requests -> Places], calls' \in [Requests -> CallRecords],
         TextsAreTheirOwn', RequestsAreInOrder',
         \A r \in Requests : Final(r) /\ running[r] # "no" => Final(r)' /\ running'[r] # "no"
  PROVE  GatewayInv'
<1>1. GatewayTypeOK'
  BY DEF GatewayInv, GatewayTypeOK
<1>3. EvidenceIsSound'
  <2>1. GatewayTypeOK /\ EvidenceIsSound
    BY DEF GatewayInv
  <2>2. \A r \in Requests : Spent(r) => Spent(r)'
    BY DEF Spent, Is
  <2> QED BY <2>1, <2>2, EvidenceStaysSound
<1>4. JournalsAreOfRows' /\ IsBook(accounts)' /\ BalancesAreRight'
  <2>1. SameInvoices
    BY DEF SameInvoices, Approved
  <2>2. \A r \in Requests : /\ requests'[r].actual = requests[r].actual
                            /\ (Is(r, {"none"})' <=> Is(r, {"none"})) /\ (Ended(r)' <=> Ended(r))
                            /\ (r \in Active' \cup Uncertain' <=> r \in Active \cup Uncertain)
    BY DEF Is, Ended, Active, Uncertain
  <2> QED BY <2>1, <2>2, BookStays
<1> QED BY <1>1, <1>3, <1>4 DEF GatewayInv

(***************************************************************************)
(* The steps that move no money.                                            *)
(***************************************************************************)
\* The process, or the provider, is one step further with a request.
LEMMA MovesKeep ==
  ASSUME GatewayInv, NEW r \in Requests, NEW place \in Places, NEW call \in CallRecords,
         running' = [running EXCEPT ![r] = place], calls' = [calls EXCEPT ![r] = call],
         UNCHANGED <<requests, available, accounts, evidence>>, Unforgotten,
         InOrder(r)', Final(r) /\ running[r] # "no" => Final(r)' /\ place # "no"
  PROVE  GatewayInv'
<1>1. GatewayTypeOK /\ RequestsAreInOrder
  BY DEF GatewayInv
<1>2. running' \in [Requests -> Places] /\ calls' \in [Requests -> CallRecords]
  BY <1>1 DEF GatewayTypeOK
<1>3. \A q \in Requests \ {r} : running'[q] = running[q] /\ calls'[q] = calls[q]
  BY <1>1 DEF GatewayTypeOK
<1>4. running'[r] = place
  BY <1>1 DEF GatewayTypeOK
<1>5. RequestsAreInOrder'
  BY <1>1, <1>3, OneStaysInOrder
<1>6. ASSUME NEW q \in Requests PROVE Final(q) /\ running[q] # "no" => Final(q)' /\ running'[q] # "no"
  <2>1. CASE q = r
    BY <1>4, <2>1
  <2>2. CASE q # r
    BY <1>3, <2>2 DEF Final
  <2> QED BY <2>1, <2>2
<1>7. TextsAreTheirOwn'
  BY TextsStayOfRows DEF GatewayInv
<1> QED BY <1>2, <1>5, <1>6, <1>7, RowsStay

LEMMA OfOne ==
  ASSUME GatewayTypeOK, NEW r \in Requests
  PROVE  /\ \A place : running' = [running EXCEPT ![r] = place] => running'[r] = place
         /\ \A call : calls' = [calls EXCEPT ![r] = call] => calls'[r] = call
         /\ calls = [calls EXCEPT ![r] = calls[r]]
BY DEF GatewayTypeOK

LEMMA PreflightKeeps ==
  ASSUME GatewayInv, NEW r \in Requests, Preflight(r) \/ PreflightFails(r)
  PROVE  GatewayInv'
<1>1. GatewayTypeOK /\ InOrder(r)
  BY DEF GatewayInv, RequestsAreInOrder
<1>2. PICK place \in {"submitting", "unsubmitted"} : Moves(r, "claimed", place) /\ UNCHANGED calls
  BY DEF Preflight, PreflightFails
<1>3. /\ running[r] = "claimed" /\ running' = [running EXCEPT ![r] = place]
      /\ UNCHANGED <<requests, available, accounts, texts, cleaning, lapsed, asked, evidence>>
  BY <1>2 DEF Moves
<1>4. running'[r] = place /\ calls' = [calls EXCEPT ![r] = calls[r]] /\ calls'[r] = calls[r]
  BY <1>1, <1>2, <1>3, OfOne
<1>5. place \in Places /\ calls[r] \in CallRecords
  BY <1>1, OfRequests DEF Places
<1>6. InOrder(r)'
  BY <1>1, <1>3, <1>4 DEF InOrder, Settled, Final, Is
<1>7. ~Final(r)
  BY <1>3 DEF Final
<1> QED BY <1>3, <1>4, <1>5, <1>6, <1>7, MovesKeep DEF Unforgotten

LEMMA GenerateKeeps ==
  ASSUME GatewayInv, NEW r \in Requests, Generate(r)
  PROVE  GatewayInv'
<1>1. GatewayTypeOK /\ InOrder(r) /\ calls[r] \in CallRecords
  BY OfRequests DEF GatewayInv, RequestsAreInOrder
<1> DEFINE more == calls[r].sent + 1
           call == [calls[r] EXCEPT !.sent = more, !.open = TRUE]
<1>2. /\ running[r] = "submitting" /\ running' = [running EXCEPT ![r] = "waiting"]
      /\ UNCHANGED <<requests, available, accounts, texts, cleaning, lapsed, asked, evidence>>
  BY DEF Generate, Moves
<1>3. more \in Nat
  BY <1>1, OfRequests
<1>6. calls' = [calls EXCEPT ![r] = call]
  BY DEF Generate
<1> HIDE DEF more
<1>4. call \in CallRecords
  BY <1>1, <1>3 DEF CallRecords
<1>7. call.sent = more /\ call.open = TRUE /\ call.charge = calls[r].charge
  BY <1>1, <1>3 DEF CallRecords
<1> HIDE DEF call
<1>8. running'[r] = "waiting" /\ calls'[r] = call
  BY <1>1, <1>2, <1>6, OfOne
<1>9. InOrder(r)'
  BY <1>1, <1>2, <1>7, <1>8 DEF InOrder, Settled, Final, Is, more
<1>10. ~Final(r) /\ "waiting" \in Places
  BY <1>2 DEF Final, Places
<1> QED BY <1>2, <1>4, <1>6, <1>9, <1>10, MovesKeep DEF Unforgotten

\* The answer to a call: with a charge or without one.
LEMMA AnswersKeep ==
  ASSUME GatewayInv, NEW r \in Requests, NEW call \in CallRecords, NEW answered \in {"answered", "submitted"},
         calls[r].open, ~call.open, call.sent = calls[r].sent, answered = "answered" => call.charge > 0,
         calls' = [calls EXCEPT ![r] = call],
         running' = [running EXCEPT ![r] = IF @ = "waiting" THEN answered ELSE @],
         UNCHANGED <<requests, available, accounts, texts, lapsed, asked, evidence>>
  PROVE  GatewayInv'
<1>1. GatewayTypeOK /\ InOrder(r) /\ running[r] \in Places /\ calls[r] \in CallRecords
  BY OfRequests DEF GatewayInv, RequestsAreInOrder
<1> DEFINE place == IF running[r] = "waiting" THEN answered ELSE running[r]
<1>2. place \in Places /\ running' = [running EXCEPT ![r] = place]
  BY <1>1 DEF Places, GatewayTypeOK
<1>3. running[r] \notin {"no", "claimed", "submitting", "unsubmitted"} /\ ~Settled(r)
  BY <1>1 DEF InOrder, Final
<1>4. /\ place \notin {"no", "claimed", "submitting", "unsubmitted", "waiting"}
      /\ place = "answered" => call.charge > 0 \/ running[r] = "answered"
  BY <1>3
<1>5. running[r] # "answered"
  BY <1>1 DEF InOrder
<1> HIDE DEF place
<1>6. running'[r] = place /\ calls'[r] = call
  BY <1>1, <1>2, OfOne
<1>7. InOrder(r)'
  BY <1>1, <1>3, <1>4, <1>5, <1>6 DEF InOrder, Settled, Final, Is
<1>8. ~Final(r)
  BY DEF Final
<1> QED BY <1>2, <1>7, <1>8, MovesKeep DEF Unforgotten

LEMMA ChargeKeeps ==
  ASSUME GatewayInv, NEW r \in Requests, NEW cost \in Costs, Charge(r, cost)
  PROVE  GatewayInv'
<1>1. calls[r] \in CallRecords /\ cost \in 0..RESERVATION /\ cost > 0
  BY Bounds, OfRequests DEF GatewayInv
<1> DEFINE call == [calls[r] EXCEPT !.open = FALSE, !.charge = cost]
<1>2. call \in CallRecords /\ call.sent = calls[r].sent /\ ~call.open /\ call.charge = cost
  BY <1>1 DEF CallRecords
<1>3. /\ calls[r].open /\ calls' = [calls EXCEPT ![r] = call]
      /\ running' = [running EXCEPT ![r] = IF @ = "waiting" THEN "answered" ELSE @]
      /\ UNCHANGED <<requests, available, accounts, texts, lapsed, asked, evidence>>
  BY DEF Charge, GatewayInv, GatewayTypeOK
<1> HIDE DEF call
<1> QED BY <1>1, <1>2, <1>3, AnswersKeep

LEMMA RefuseKeeps ==
  ASSUME GatewayInv, NEW r \in Requests, Refuse(r)
  PROVE  GatewayInv'
<1>1. calls[r] \in CallRecords
  BY OfRequests DEF GatewayInv
<1> DEFINE call == [calls[r] EXCEPT !.open = FALSE]
<1>2. call \in CallRecords /\ call.sent = calls[r].sent /\ ~call.open
  BY <1>1 DEF CallRecords
<1>3. /\ calls[r].open /\ calls' = [calls EXCEPT ![r] = call]
      /\ running' = [running EXCEPT ![r] = IF @ = "waiting" THEN "submitted" ELSE @]
      /\ UNCHANGED <<requests, available, accounts, texts, lapsed, asked, evidence>>
  BY DEF Refuse, GatewayInv, GatewayTypeOK
<1> HIDE DEF call
<1> QED BY <1>2, <1>3, AnswersKeep

\* The process gives up on an answer, or ends.
LEMMA LeavesKeep ==
  ASSUME GatewayInv, NEW r \in Requests, NEW place \in {"submitted", "over"}, running[r] # "no",
         place = "submitted" => running[r] \in {"waiting", "answered"},
         running' = [running EXCEPT ![r] = place], UNCHANGED <<calls, requests, available, accounts, texts, lapsed, asked, evidence>>
  PROVE  GatewayInv'
<1>1. GatewayTypeOK /\ InOrder(r) /\ calls[r] \in CallRecords
  BY OfRequests DEF GatewayInv, RequestsAreInOrder
<1>2. running'[r] = place /\ calls' = [calls EXCEPT ![r] = calls[r]] /\ calls'[r] = calls[r]
  BY <1>1, OfOne
<1>3. InOrder(r)'
  BY <1>1, <1>2 DEF InOrder, Settled, Final, Is
<1>4. Final(r) => Final(r)'
  BY <1>2 DEF Final
<1>5. place \in Places
  BY DEF Places
<1> QED BY <1>1, <1>2, <1>3, <1>4, <1>5, MovesKeep DEF Unforgotten

LEMMA AnswerIsLostKeeps ==
  ASSUME GatewayInv, NEW r \in Requests, AnswerIsLost(r) \/ FinishConflicts(r)
  PROVE  GatewayInv'
<1>1. /\ running[r] \in {"waiting", "answered"} /\ running' = [running EXCEPT ![r] = "submitted"]
      /\ UNCHANGED <<calls, requests, available, accounts, texts, lapsed, asked, evidence>>
  BY DEF AnswerIsLost, FinishConflicts, Moves
<1> QED BY <1>1, LeavesKeep

LEMMA CrashKeeps ==
  ASSUME GatewayInv, NEW r \in Requests, Crash(r)
  PROVE  GatewayInv'
<1>1. /\ running[r] # "no" /\ running' = [running EXCEPT ![r] = "over"]
      /\ UNCHANGED <<calls, requests, available, accounts, texts, lapsed, asked, evidence>>
  BY DEF Crash
<1> QED BY <1>1, LeavesKeep

\* Texts come and go.
LEMMA TextsKeep ==
  ASSUME GatewayInv, UNCHANGED <<requests, available, accounts, running, calls, evidence>>, TextsAreTheirOwn'
  PROVE  GatewayInv'
<1>1. RequestsAreInOrder /\ GatewayTypeOK
  BY DEF GatewayInv
<1>2. RequestsAreInOrder'
  BY <1>1 DEF RequestsAreInOrder, InOrder, Settled, Final, Is
<1>3. running' \in [Requests -> Places] /\ calls' \in [Requests -> CallRecords]
  BY <1>1 DEF GatewayTypeOK
<1>4. \A r \in Requests : Final(r) => Final(r)'
  BY DEF Final
<1> QED BY <1>2, <1>3, <1>4, RowsStay

LEMMA CleaningKeeps ==
  ASSUME GatewayInv, NEW text \in cleaning, CleanupUnreferenced(text) \/ CleanupIsLost(text)
  PROVE  GatewayInv'
<1>1. UNCHANGED <<requests, available, accounts, running, calls, evidence>> /\ Unforgotten
  BY DEF CleanupUnreferenced, CleanupIsLost, Unforgotten
<1> QED BY <1>1, TextsStayOfRows, TextsKeep DEF GatewayInv

LEMMA TextsDiffer == \A q, r : q # r => {Prompt(q), Output(q)} \cap {Prompt(r), Output(r)} = {}
BY DEF Prompt, Output

LEMMA CreateFailsKeeps ==
  ASSUME GatewayInv, NEW r \in Requests, CreateFails(r)
  PROVE  GatewayInv'
<1>1. UNCHANGED <<requests, available, accounts, running, calls, evidence>> /\ Unforgotten
  BY DEF CreateFails, Unforgotten
<1> QED BY <1>1, TextsStayOfRows, TextsKeep DEF GatewayInv

\* Texts are taken out and the rows are not updated: their owner wanted that, or their retention is over.
LEMMA DeleteFailsKeeps ==
  ASSUME GatewayInv, NEW r \in Requests, DeleteFails(r)
  PROVE  GatewayInv'
<1>1. PICK gone \in TakenOut({r}) : texts' = texts \ gone
  BY DEF DeleteFails
<1>2. /\ UNCHANGED <<requests, available, accounts, running, calls, lapsed, evidence>>
      /\ asked' = asked \cup {r} /\ r \in Made \ Active
  BY DEF DeleteFails, MayDelete
<1>3. TextsAreTheirOwn /\ gone \subseteq requests[r].refers
  BY <1>1 DEF GatewayInv, TakenOut
<1>4. Made' = Made /\ Active' = Active
  BY <1>2 DEF Made, Active, Is
<1>5. ASSUME NEW q \in Requests, q \notin lapsed'.retention \cup asked' PROVE requests'[q].refers \subseteq texts'
  <2>1. q # r /\ requests[q].refers \subseteq texts
    BY <1>2, <1>3, <1>5 DEF TextsAreTheirOwn, TextsLastUntilUnwanted
  <2>2. requests[q].refers \cap requests[r].refers = {}
    BY <1>3, <2>1, TextsDiffer DEF TextsAreTheirOwn
  <2> QED BY <1>1, <1>2, <1>3, <2>1, <2>2
<1>6. TextsAreTheirOwn'
  BY <1>2, <1>3, <1>4, <1>5 DEF TextsAreTheirOwn, TextsLastUntilUnwanted, Lapses
<1> QED BY <1>2, <1>6, TextsKeep

LEMMA SweepFailsKeeps ==
  ASSUME GatewayInv, SweepFails
  PROVE  GatewayInv'
<1>1. PICK gone \in TakenOut(Removed) : texts' = texts \ gone
  BY DEF SweepFails
<1>2. UNCHANGED <<requests, available, accounts, running, calls, lapsed, asked, evidence>>
  BY DEF SweepFails
<1>3. TextsAreTheirOwn /\ gone \subseteq UNION {requests[r].refers : r \in Removed}
  BY <1>1 DEF GatewayInv, TakenOut
<1>4. Made' = Made /\ Active' = Active
  BY <1>2 DEF Made, Active, Is
<1>5. ASSUME NEW q \in Requests, q \notin lapsed'.retention \cup asked' PROVE requests'[q].refers \subseteq texts'
  <2>1. requests[q].refers \subseteq texts
    BY <1>2, <1>3, <1>5 DEF TextsAreTheirOwn, TextsLastUntilUnwanted
  <2>2. ASSUME NEW r \in Removed PROVE requests[q].refers \cap requests[r].refers = {}
    <3>1. r \in Requests /\ r # q
      BY <1>2, <1>5 DEF Removed, Made
    <3> QED BY <1>3, <3>1, TextsDiffer DEF TextsAreTheirOwn
  <2> QED BY <1>1, <1>2, <1>3, <2>1, <2>2
<1>6. TextsAreTheirOwn'
  BY <1>2, <1>3, <1>4, <1>5 DEF TextsAreTheirOwn, TextsLastUntilUnwanted, Lapses
<1> QED BY <1>2, <1>6, TextsKeep

LEMMA PassTimeKeeps ==
  ASSUME GatewayInv, NEW r \in Requests, PassTime(r)
  PROVE  GatewayInv'
<1>1. UNCHANGED <<requests, available, accounts, running, calls, texts, asked, evidence>> /\ TextsAreTheirOwn
  BY DEF PassTime, GatewayInv
<1>2. lapsed' \in Lapses /\ lapsed.retention \subseteq lapsed'.retention
  BY <1>1 DEF PassTime, LapseQueue, LapseDeadline, LapseRetention, TextsAreTheirOwn, Lapses
<1>3. Made' = Made /\ Active' = Active
  BY <1>1 DEF Made, Active, Is
<1>4. TextsAreTheirOwn'
  BY <1>1, <1>2, <1>3 DEF TextsAreTheirOwn, TextsLastUntilUnwanted
<1> QED BY <1>1, <1>4, TextsKeep

(***************************************************************************)
(* The steps that change one row.                                           *)
(***************************************************************************)
LEMMA OneRow ==
  ASSUME GatewayTypeOK, NEW r \in Requests, NEW row \in RequestRecords, requests' = [requests EXCEPT ![r] = row]
  PROVE  requests' \in [Requests -> RequestRecords] /\ requests'[r] = row /\ \A q \in Requests \ {r} : requests'[q] = requests[q]
BY DEF GatewayTypeOK

LEMMA RowIs ==
  ASSUME NEW row \in RequestRecords
  PROVE  /\ row.status \in {"none", "QUEUED", "PROCESSING", "UNCERTAIN", "COMPLETED", "FAILED", "CANCELLED"}
         /\ row.actual \in 0..RESERVATION /\ row.actual \in Nat
         /\ row.refers \in SUBSET ({"prompt", "output"} \X Requests)
BY Bounds DEF RequestRecords

\* What a row costs adds to the total.
LEMMA TotalsChange ==
  ASSUME GatewayTypeOK, EvidenceIsSound, NEW r \in Requests, r \notin Billed, NEW row \in RequestRecords,
         requests' = [requests EXCEPT ![r] = row], requests[r].actual = 0, SameInvoices
  PROVE  /\ Total(Billed)' = Total(Billed) /\ Total(Requests)' = Total(Requests) + row.actual
         /\ Total(Billed) \in Int /\ Total(Requests) \in Int
<1> DEFINE f == [q \in Requests |-> requests[q].actual]
           g == [q \in Requests |-> requests'[q].actual]
<1>1. requests'[r] = row /\ \A q \in Requests \ {r} : requests'[q] = requests[q]
  BY OneRow
<1>2. /\ \A q \in Requests : f[q] \in Int
      /\ \A q \in Requests \ {r} : g[q] = f[q]
      /\ g[r] = row.actual /\ g[r] \in Int /\ f[r] = 0
  BY <1>1, OfRequests, RowIs
<1>3. Billed' = Billed /\ Billed \subseteq Requests /\ IsFiniteSet(Billed) /\ IsFiniteSet(Requests)
  BY InvoicesStay, BilledIsSpent, Bounds
<1>4. /\ Total(Requests) = SumFunctionOnSet(f, Requests) /\ Total(Billed) = SumFunctionOnSet(f, Billed)
      /\ Total(Requests)' = SumFunctionOnSet(g, Requests) /\ Total(Billed)' = SumFunctionOnSet(g, Billed)
  BY <1>3 DEF Total
<1> HIDE DEF f, g
<1>5. SumFunctionOnSet(f, Requests) \in Int /\ SumFunctionOnSet(f, Billed) \in Int
  BY <1>2, <1>3, SumType
<1>6. SumFunctionOnSet(g, Requests) = SumFunctionOnSet(f, Requests) - f[r] + g[r]
  BY <1>2, <1>3, SumChanges
<1>7. SumFunctionOnSet(g, Billed) = SumFunctionOnSet(f, Billed)
  BY <1>2, <1>3, SumDependsOnValues
<1>8. row.actual \in Int
  BY RowIs
<1> QED BY <1>2, <1>4, <1>5, <1>6, <1>7, <1>8

\* A row that is settled: its journal is posted, its reservation is gone, and what it cost is owed.
LEMMA SettledBook ==
  ASSUME GatewayInv, NEW r \in Requests, r \in Active \cup Uncertain, NEW row \in RequestRecords,
         row.status \in {"COMPLETED", "FAILED", "CANCELLED"}, Settle(r, row.actual),
         requests' = [requests EXCEPT ![r] = row], SameInvoices
  PROVE  JournalsAreOfRows' /\ IsBook(accounts)' /\ BalancesAreRight' /\ available' \in Nat
<1>1. /\ GatewayTypeOK /\ RequestsAreInOrder /\ EvidenceIsSound /\ JournalsAreOfRows /\ IsBook(accounts) /\ BalancesAreRight
      /\ available \in Nat /\ InOrder(r)
  BY DEF GatewayInv, GatewayTypeOK, RequestsAreInOrder
<1>2. Is(r, {"QUEUED", "PROCESSING", "UNCERTAIN"}) /\ ~Ended(r) /\ ~Is(r, {"none"}) /\ requests[r].actual = 0
  BY <1>1 DEF Active, Uncertain, Is, Ended, Settled, InOrder
<1>3. requests'[r] = row /\ \A q \in Requests \ {r} : requests'[q] = requests[q]
  BY <1>1, OneRow
<1>4. row.actual \in 0..RESERVATION /\ row.actual \in Int /\ RESERVATION \in Int
  BY RowIs, Bounds
<1>5. <<"usage", r>> \notin DOMAIN accounts
  BY <1>1, <1>2 DEF JournalsAreOfRows, Ended
<1>6. Settles(accounts', accounts, r, RESERVATION, row.actual)
  BY <1>1, <1>4, <1>5, SettledBalances, Zenon DEF Settle
<1>7. Made' = Made /\ {q \in Requests : Ended(q)}' = {q \in Requests : Ended(q)} \cup {r}
  <2>1. \A q \in Requests : (Is(q, {"none"})' <=> Is(q, {"none"})) /\ (Ended(q)' <=> Ended(q) \/ q = r)
    BY <1>2, <1>3 DEF Is, Ended
  <2> QED BY <2>1 DEF Made
<1>8. \A q \in Requests : q \in Active' \cup Uncertain' <=> q \in Active \cup Uncertain /\ q # r
  BY <1>3 DEF Active, Uncertain, Is
<1>9. Billed' = Billed /\ {<<"invoice", evidence[i].name>> : i \in Approved}' = {<<"invoice", evidence[i].name>> : i \in Approved}
  BY InvoicesStay
<1>10. JournalsAreOfRows'
  <2>1. DOMAIN accounts' = DOMAIN accounts \cup {<<"usage", r>>}
    BY <1>6 DEF Settles
  <2> QED BY <1>1, <1>7, <1>9, <2>1 DEF JournalsAreOfRows, Ended
<1>11. /\ Total(Billed)' = Total(Billed) /\ Total(Requests)' = Total(Requests) + row.actual
       /\ Total(Billed) \in Int /\ Total(Requests) \in Int
  <2>1. r \notin Billed
    BY <1>1, <1>2, BilledIsSpent DEF Spent, Is
  <2> QED BY <1>1, <1>2, <2>1, TotalsChange
<1>12. \A account : accountBalance(accounts, account) \in Int
  BY <1>1, BalanceType
<1>13. ASSUME NEW q \in Requests PROVE Owed(accounts, Reserved, q)' = IF q \in Active' \cup Uncertain' THEN RESERVATION ELSE 0
  <2>1. /\ 0 - accountBalance(accounts, <<Reserved, q>>) = (IF q \in Active \cup Uncertain THEN RESERVATION ELSE 0)
        /\ accountBalance(accounts', <<Reserved, q>>) = accountBalance(accounts, <<Reserved, q>>) + (IF q = r THEN RESERVATION ELSE 0)
    BY <1>1, <1>6 DEF BalancesAreRight, Owed, Settles
  <2> QED BY <1>4, <1>8, <1>12, <2>1 DEF Owed
<1>14. available' = available + RESERVATION - row.actual /\ available' \in Nat
  BY <1>1, <1>4 DEF Settle
<1>15. available' = Owed(accounts, Credit, "e")'
  BY <1>1, <1>4, <1>6, <1>12, <1>14 DEF BalancesAreRight, Owed, Settles
<1>16. /\ 0 - accountBalance(accounts, Invoiced)' = Total(Billed)'
       /\ 0 - accountBalance(accounts, Payable)' = Total(Requests)' - Total(Billed)'
  BY <1>1, <1>4, <1>6, <1>11, <1>12 DEF BalancesAreRight, Settles
<1>17. IsBook(accounts)'
  BY <1>6 DEF Settles, IsBook
<1> QED BY <1>10, <1>13, <1>14, <1>15, <1>16, <1>17 DEF BalancesAreRight

\* The evidence when no evidence is written and only rows that are not paid for change.
LEMMA EvidenceOfRows ==
  ASSUME GatewayInv, UNCHANGED <<calls, evidence>>, NEW r \in Requests, ~Spent(r) \/ Spent(r)',
         \A q \in Requests \ {r} : requests'[q].status = requests[q].status /\ requests'[q].actual = requests[q].actual /\ running'[q] = running[q],
         Final(r) /\ running[r] # "no" => Final(r)' /\ running'[r] # "no"
  PROVE  EvidenceIsSound' /\ SameInvoices
<1>1. GatewayTypeOK /\ EvidenceIsSound
  BY DEF GatewayInv
<1>2. ASSUME NEW q \in Requests
      PROVE  (Final(q) /\ running[q] # "no" => Final(q)' /\ running'[q] # "no") /\ (Spent(q) => Spent(q)')
  <2>1. CASE q = r
    BY <2>1
  <2>2. CASE q # r
    BY <2>2 DEF Final, Spent, Is
  <2> QED BY <2>1, <2>2
<1>3. SameInvoices
  BY DEF SameInvoices, Approved
<1> QED BY <1>1, <1>2, <1>3, EvidenceStaysSound

\* A row is settled and its process goes on, or ends.
LEMMA SettledKeeps ==
  ASSUME GatewayInv, NEW r \in Requests, r \in Active \cup Uncertain, NEW row \in RequestRecords,
         row.status \in {"COMPLETED", "FAILED", "CANCELLED"}, Settle(r, row.actual),
         requests' = [requests EXCEPT ![r] = row], NEW place \in Places, running' = [running EXCEPT ![r] = place],
         UNCHANGED <<calls, evidence>>, InOrder(r)', Final(r) /\ running[r] # "no" => Final(r)' /\ place # "no",
         row.refers \subseteq requests[r].refers \cup ({Prompt(r), Output(r)} \cap texts'), Unforgotten
  PROVE  GatewayInv'
<1>1. GatewayTypeOK /\ RequestsAreInOrder /\ TextsAreTheirOwn
  BY DEF GatewayInv
<1>2. /\ requests' \in [Requests -> RequestRecords] /\ requests'[r] = row
      /\ \A q \in Requests \ {r} : requests'[q] = requests[q]
  BY <1>1, OneRow
<1>3. /\ running' \in [Requests -> Places] /\ running'[r] = place
      /\ \A q \in Requests \ {r} : running'[q] = running[q]
  BY <1>1 DEF GatewayTypeOK
<1>4. ~Spent(r)
  BY DEF Spent, Active, Uncertain, Is
<1>5. EvidenceIsSound' /\ SameInvoices
  BY <1>2, <1>3, <1>4, EvidenceOfRows
<1>6. JournalsAreOfRows' /\ IsBook(accounts)' /\ BalancesAreRight' /\ available' \in Nat
  BY <1>5, SettledBook
<1>7. GatewayTypeOK'
  BY <1>1, <1>2, <1>3, <1>6 DEF GatewayTypeOK
<1>8. RequestsAreInOrder'
  BY <1>1, <1>2, <1>3, OneStaysInOrder
<1>9. TextsAreTheirOwn'
  <2>1. ASSUME NEW q \in Requests PROVE q \in Made \ Active => q \in Made' \ Active'
    BY <1>2 DEF Made, Active, Is
  <2>2. \A q \in Requests : requests'[q].refers \subseteq requests[q].refers \cup ({Prompt(q), Output(q)} \cap texts')
    BY <1>2
  <2> QED BY <1>1, <2>1, <2>2, TextsStay
<1> QED BY <1>5, <1>6, <1>7, <1>8, <1>9 DEF GatewayInv

LEMMA CancelKeeps ==
  ASSUME GatewayInv, NEW r \in Requests, Cancel(r)
  PROVE  GatewayInv'
<1>1. GatewayTypeOK /\ InOrder(r) /\ requests[r] \in RequestRecords /\ 0 \in 0..RESERVATION
  BY OfRequests, Bounds DEF GatewayInv, RequestsAreInOrder
<1> DEFINE row == [requests[r] EXCEPT !.status = "CANCELLED", !.actual = 0]
<1>2. row \in RequestRecords /\ row.status = "CANCELLED" /\ row.actual = 0 /\ row.refers = requests[r].refers
  BY <1>1 DEF RequestRecords
<1>3. /\ Is(r, {"QUEUED"}) /\ Settle(r, 0) /\ requests' = [requests EXCEPT ![r] = row]
      /\ UNCHANGED <<running, calls, texts, lapsed, asked, evidence>>
  BY DEF Cancel, Resolve
<1> HIDE DEF row
<1>4. requests'[r] = row /\ running' = [running EXCEPT ![r] = running[r]] /\ running[r] = "no" /\ r \in Active
  BY <1>1, <1>2, <1>3, OneRow DEF GatewayTypeOK, InOrder, Is, Active
<1>5. InOrder(r)'
  BY <1>1, <1>2, <1>3, <1>4 DEF InOrder, Settled, Final, Is
<1>6. row.refers \subseteq requests[r].refers /\ Unforgotten
  BY <1>2, <1>3 DEF Unforgotten
<1>7. Settle(r, row.actual)
  BY <1>2, <1>3
<1> QED BY <1>2, <1>3, <1>4, <1>5, <1>6, <1>7, SettledKeeps DEF Places

\* Both ways in which the finishing transaction may commit.
LEMMA FinishedKeeps ==
  ASSUME GatewayInv, NEW r \in Requests, running[r] = "answered", Is(r, {"PROCESSING"}), NEW place \in {"over", "submitted"},
         running' = [running EXCEPT ![r] = place], Settle(r, calls[r].charge),
         requests' = [requests EXCEPT ![r] = [status |-> "COMPLETED", actual |-> calls[r].charge, refers |-> @.refers \cup {Output(r)}]],
         texts' = texts \cup {Output(r)}, UNCHANGED <<calls, lapsed, asked, evidence>>
  PROVE  GatewayInv'
<1>1. /\ GatewayTypeOK /\ InOrder(r) /\ requests[r].refers \in SUBSET ({"prompt", "output"} \X Requests)
      /\ calls[r].charge \in 0..RESERVATION /\ running[r] \in Places
  BY OfRequests DEF GatewayInv, RequestsAreInOrder
<1> DEFINE refers == requests[r].refers \cup {Output(r)}
           row == [status |-> "COMPLETED", actual |-> calls[r].charge, refers |-> refers]
<1>2. refers \in SUBSET ({"prompt", "output"} \X Requests)
  BY <1>1 DEF Output
<1>3. requests' = [requests EXCEPT ![r] = row]
  BY DEF GatewayInv, GatewayTypeOK
<1>4. refers \subseteq requests[r].refers \cup ({Prompt(r), Output(r)} \cap texts') /\ Unforgotten
  BY DEF Unforgotten
<1> HIDE DEF refers
<1>5. row \in RequestRecords /\ row.status = "COMPLETED" /\ row.actual = calls[r].charge /\ row.refers = refers
  BY <1>1, <1>2 DEF RequestRecords
<1> HIDE DEF row
<1>6. requests'[r] = row /\ running'[r] = place
  BY <1>1, <1>3, <1>5, OneRow, OfOne
<1>7. InOrder(r)'
  BY <1>1, <1>5, <1>6 DEF InOrder, Settled, Final, Is
<1>8. r \in Active
  BY DEF Active, Is
<1>9. Settle(r, row.actual)
  BY <1>5
<1>10. Final(r)' /\ place # "no" /\ place \in Places
  BY <1>1, <1>6 DEF Final, InOrder, Places
<1> QED BY <1>3, <1>4, <1>5, <1>7, <1>8, <1>9, <1>10, SettledKeeps

LEMMA FinishKeeps ==
  ASSUME GatewayInv, NEW r \in Requests, Finish(r)
  PROVE  GatewayInv'
BY FinishedKeeps DEF Finish

LEMMA FinishFailsKeeps ==
  ASSUME GatewayInv, NEW r \in Requests, FinishFails(r)
  PROVE  GatewayInv'
<1>1. /\ running[r] = "answered" /\ Is(r, {"PROCESSING"}) /\ running' = [running EXCEPT ![r] = "submitted"]
      /\ texts' = texts \cup {Output(r)} /\ UNCHANGED <<calls, lapsed, asked, evidence>>
  BY DEF FinishFails
<1>2. CASE UNCHANGED <<requests, available, accounts>>
  <2>1. GatewayTypeOK /\ InOrder(r) /\ calls[r] \in CallRecords
    BY OfRequests DEF GatewayInv, RequestsAreInOrder
  <2>2. running'[r] = "submitted" /\ calls' = [calls EXCEPT ![r] = calls[r]] /\ calls'[r] = calls[r]
    BY <1>1, <2>1, OfOne
  <2>3. InOrder(r)'
    BY <1>1, <1>2, <2>1, <2>2 DEF InOrder, Settled, Final, Is
  <2>4. Final(r) => Final(r)'
    BY <2>2 DEF Final
  <2>5. Unforgotten
    BY <1>1 DEF Unforgotten
  <2> QED BY <1>1, <1>2, <2>1, <2>2, <2>3, <2>4, <2>5, MovesKeep DEF Places
<1>3. CASE /\ Settle(r, calls[r].charge)
           /\ requests' = [requests EXCEPT ![r] = [status |-> "COMPLETED", actual |-> calls[r].charge, refers |-> @.refers \cup {Output(r)}]]
  BY <1>1, <1>3, FinishedKeeps
<1> QED BY <1>2, <1>3 DEF FinishFails

\* A row whose status changes and nothing else: its reservation is held as before.
LEMMA HeldKeeps ==
  ASSUME GatewayInv, NEW r \in Requests, Is(r, {"QUEUED", "PROCESSING"}), NEW status \in {"PROCESSING", "UNCERTAIN"}, Update(r, status),
         NEW place \in Places, running' = [running EXCEPT ![r] = place], UNCHANGED <<available, accounts, calls, texts, lapsed, asked, evidence>>,
         InOrder(r)', Final(r) /\ running[r] # "no" => Final(r)' /\ place # "no"
  PROVE  GatewayInv'
<1>1. GatewayTypeOK /\ RequestsAreInOrder /\ TextsAreTheirOwn /\ requests[r] \in RequestRecords
  BY OfRequests DEF GatewayInv
<1> DEFINE row == [requests[r] EXCEPT !.status = status]
<1>2. row \in RequestRecords /\ row.status = status /\ row.actual = requests[r].actual /\ row.refers = requests[r].refers
  BY <1>1 DEF RequestRecords
<1>3. requests' = [requests EXCEPT ![r] = row]
  BY <1>1 DEF Update, GatewayTypeOK
<1> HIDE DEF row
<1>4. requests' \in [Requests -> RequestRecords] /\ requests'[r] = row /\ \A q \in Requests \ {r} : requests'[q] = requests[q]
  BY <1>1, <1>2, <1>3, OneRow
<1>5. /\ running' \in [Requests -> Places] /\ running'[r] = place /\ \A q \in Requests \ {r} : running'[q] = running[q]
  BY <1>1 DEF GatewayTypeOK
<1>6. ~Spent(r)
  BY DEF Spent, Is
<1>7. EvidenceIsSound' /\ SameInvoices
  BY <1>4, <1>5, <1>6, EvidenceOfRows
<1>8. ASSUME NEW q \in Requests
      PROVE  /\ requests'[q].actual = requests[q].actual
             /\ (Is(q, {"none"})' <=> Is(q, {"none"})) /\ (Ended(q)' <=> Ended(q))
             /\ (q \in Active' \cup Uncertain' <=> q \in Active \cup Uncertain)
  <2>1. CASE q = r
    BY <1>2, <1>4, <2>1 DEF Is, Ended, Active, Uncertain
  <2>2. CASE q # r
    BY <1>4, <2>2 DEF Is, Ended, Active, Uncertain
  <2> QED BY <2>1, <2>2
<1>9. JournalsAreOfRows' /\ IsBook(accounts)' /\ BalancesAreRight'
  BY <1>7, <1>8, BookStays
<1>10. GatewayTypeOK'
  BY <1>1, <1>4, <1>5 DEF GatewayTypeOK
<1>11. RequestsAreInOrder'
  BY <1>1, <1>4, <1>5, OneStaysInOrder
<1>12. TextsAreTheirOwn'
  <2>1. ASSUME NEW q \in Requests PROVE q \in Made \ Active => q \in Made' \ Active'
    BY <1>4 DEF Made, Active, Is
  <2>2. Unforgotten /\ \A q \in Requests : requests'[q].refers = requests[q].refers
    BY <1>2, <1>4 DEF Unforgotten
  <2> QED BY <1>1, <2>1, <2>2, TextsStay
<1> QED BY <1>7, <1>9, <1>10, <1>11, <1>12 DEF GatewayInv

LEMMA ClaimKeeps ==
  ASSUME GatewayInv, NEW r \in Requests, Claim(r)
  PROVE  GatewayInv'
<1>1. GatewayTypeOK /\ InOrder(r) /\ requests[r] \in RequestRecords
  BY OfRequests DEF GatewayInv, RequestsAreInOrder
<1>2. /\ Is(r, {"QUEUED"}) /\ Update(r, "PROCESSING") /\ running' = [running EXCEPT ![r] = "claimed"]
      /\ UNCHANGED <<available, accounts, calls, texts, lapsed, asked, evidence>>
  BY DEF Claim
<1>3. running'[r] = "claimed" /\ requests'[r].status = "PROCESSING" /\ requests'[r].actual = requests[r].actual /\ running[r] = "no"
  BY <1>1, <1>2 DEF Update, GatewayTypeOK, RequestRecords, InOrder, Is
<1>4. InOrder(r)'
  BY <1>1, <1>2, <1>3 DEF InOrder, Settled, Final, Is
<1> QED BY <1>2, <1>3, <1>4, HeldKeeps DEF Places, Is

LEMMA CatchKeeps ==
  ASSUME GatewayInv, NEW r \in Requests, Catch(r)
  PROVE  GatewayInv'
<1>1. /\ GatewayTypeOK /\ InOrder(r) /\ requests[r] \in RequestRecords /\ 0 \in 0..RESERVATION
  BY OfRequests, Bounds DEF GatewayInv, RequestsAreInOrder
<1>2. /\ running[r] \in {"unsubmitted", "submitted"} /\ running' = [running EXCEPT ![r] = "over"]
      /\ UNCHANGED <<calls, texts, lapsed, asked, evidence>>
  BY DEF Catch
<1>3. running'[r] = "over"
  BY <1>1, <1>2, OfOne
<1>4. CASE ~Is(r, {"PROCESSING"})
  BY <1>2, <1>4, LeavesKeep DEF Catch
<1>5. CASE Is(r, {"PROCESSING"}) /\ running[r] = "submitted"
  <2>1. Update(r, "UNCERTAIN") /\ UNCHANGED <<available, accounts>>
    BY <1>5 DEF Catch
  <2>2. requests'[r].status = "UNCERTAIN" /\ requests'[r].actual = requests[r].actual
    BY <1>1, <2>1 DEF Update, GatewayTypeOK, RequestRecords
  <2>3. InOrder(r)'
    BY <1>1, <1>2, <1>3, <1>5, <2>2 DEF InOrder, Settled, Final, Is
  <2>4. Final(r) => Final(r)'
    BY <1>2, <1>3 DEF Final
  <2> QED BY <1>2, <1>3, <1>5, <2>1, <2>3, <2>4, HeldKeeps DEF Places, Is
<1>6. CASE Is(r, {"PROCESSING"}) /\ running[r] = "unsubmitted"
  <2>1. Resolve(r, "FAILED", 0)
    BY <1>6 DEF Catch
  <2> DEFINE row == [requests[r] EXCEPT !.status = "FAILED", !.actual = 0]
  <2>2. row \in RequestRecords /\ row.status = "FAILED" /\ row.actual = 0 /\ row.refers = requests[r].refers
    BY <1>1 DEF RequestRecords
  <2>3. Settle(r, 0) /\ requests' = [requests EXCEPT ![r] = row]
    BY <2>1 DEF Resolve
  <2> HIDE DEF row
  <2>4. requests'[r] = row /\ r \in Active
    BY <1>1, <1>6, <2>2, <2>3, OneRow DEF Is, Active
  <2>5. InOrder(r)'
    BY <1>1, <1>2, <1>3, <1>6, <2>2, <2>4 DEF InOrder, Settled, Final, Is
  <2>6. row.refers \subseteq requests[r].refers /\ Unforgotten
    BY <1>2, <2>2 DEF Unforgotten
  <2>7. Settle(r, row.actual) /\ (Final(r) => Final(r)') /\ "over" \in Places
    BY <1>2, <1>3, <2>2, <2>3 DEF Final, Places
  <2> QED BY <1>2, <2>2, <2>3, <2>4, <2>5, <2>6, <2>7, SettledKeeps
<1> QED BY <1>2, <1>4, <1>5, <1>6

LEMMA DeleteContentKeeps ==
  ASSUME GatewayInv, NEW r \in Requests, DeleteContent(r)
  PROVE  GatewayInv'
<1>1. GatewayTypeOK /\ RequestsAreInOrder /\ TextsAreTheirOwn /\ requests[r] \in RequestRecords
  BY OfRequests DEF GatewayInv
<1> DEFINE row == [requests[r] EXCEPT !.refers = {}]
<1>2. row \in RequestRecords /\ row.status = requests[r].status /\ row.actual = requests[r].actual /\ row.refers = {}
  BY <1>1 DEF RequestRecords
<1>3. /\ requests' = [requests EXCEPT ![r] = row] /\ texts' = texts \ requests[r].refers
      /\ r \in Made \ Active /\ asked' = asked \cup {r}
      /\ UNCHANGED <<available, accounts, running, calls, lapsed, evidence>>
  BY <1>1 DEF DeleteContent, MayDelete, GatewayTypeOK
<1> HIDE DEF row
<1>4. requests' \in [Requests -> RequestRecords] /\ requests'[r] = row /\ \A q \in Requests \ {r} : requests'[q] = requests[q]
  BY <1>1, <1>2, <1>3, OneRow
<1>5. \A q \in Requests : requests'[q].status = requests[q].status /\ requests'[q].actual = requests[q].actual
  BY <1>2, <1>4
<1>6. EvidenceIsSound' /\ SameInvoices
  <2>1. Spent(r) => Spent(r)'
    BY <1>5 DEF Spent, Is
  <2>2. Final(r) /\ running[r] # "no" => Final(r)' /\ running'[r] # "no"
    BY <1>3 DEF Final
  <2> QED BY <1>3, <1>5, <2>1, <2>2, EvidenceOfRows
<1>7. JournalsAreOfRows' /\ IsBook(accounts)' /\ BalancesAreRight'
  <2>1. \A q \in Requests : /\ (Is(q, {"none"})' <=> Is(q, {"none"})) /\ (Ended(q)' <=> Ended(q))
                            /\ (q \in Active' \cup Uncertain' <=> q \in Active \cup Uncertain)
    BY <1>5 DEF Is, Ended, Active, Uncertain
  <2> QED BY <1>3, <1>5, <1>6, <2>1, BookStays
<1>8. GatewayTypeOK'
  BY <1>1, <1>3, <1>4 DEF GatewayTypeOK
<1>9. RequestsAreInOrder'
  BY <1>1, <1>3, <1>5 DEF RequestsAreInOrder, InOrder, Settled, Final, Is
<1>10. ASSUME NEW q \in Requests
       PROVE  /\ requests'[q].refers \subseteq {Prompt(q), Output(q)}
              /\ requests'[q].refers \subseteq texts' \/ q \in lapsed'.retention \cup asked'
  <2>1. CASE q = r
    BY <1>2, <1>4, <2>1
  <2>2. CASE q # r
    BY <1>1, <1>3, <1>4, <2>2, TextsDiffer DEF TextsAreTheirOwn, TextsLastUntilUnwanted
  <2> QED BY <2>1, <2>2
<1>11. asked' \subseteq Made' \ Active'
  <2>1. Made' = Made /\ Active' = Active
    BY <1>5 DEF Made, Active, Is
  <2> QED BY <1>1, <1>3, <2>1 DEF TextsAreTheirOwn, TextsLastUntilUnwanted
<1>12. TextsAreTheirOwn'
  BY <1>1, <1>3, <1>10, <1>11 DEF TextsAreTheirOwn, TextsLastUntilUnwanted, Lapses
<1> QED BY <1>6, <1>7, <1>8, <1>9, <1>12 DEF GatewayInv

LEMMA CreateKeeps ==
  ASSUME GatewayInv, NEW r \in Requests, Create(r)
  PROVE  GatewayInv'
<1>1. /\ GatewayTypeOK /\ RequestsAreInOrder /\ TextsAreTheirOwn /\ EvidenceIsSound /\ JournalsAreOfRows
      /\ IsBook(accounts) /\ BalancesAreRight /\ available \in Nat /\ InOrder(r)
  BY DEF GatewayInv, GatewayTypeOK, RequestsAreInOrder
<1> DEFINE row == [NoRequest EXCEPT !.status = "QUEUED", !.refers = {Prompt(r)}]
<1>2. row \in RequestRecords /\ row.status = "QUEUED" /\ row.actual = 0 /\ row.refers = {Prompt(r)}
  <2>1. NoRequest \in RequestRecords /\ NoRequest.actual = 0
    BY Bounds DEF RequestRecords, NoRequest
  <2>2. {Prompt(r)} \in SUBSET ({"prompt", "output"} \X Requests)
    BY DEF Prompt
  <2> QED BY <2>1, <2>2 DEF RequestRecords
<1>3. /\ Is(r, {"none"}) /\ RESERVATION <= available /\ requests' = [requests EXCEPT ![r] = row]
      /\ available' = available - RESERVATION /\ texts' = texts \cup {Prompt(r)}
      /\ accounts' = reserveJournal(accounts, r, "e", RESERVATION)
      /\ UNCHANGED <<running, calls, lapsed, asked, evidence>>
  BY DEF Create, MayCreate
<1> HIDE DEF row
<1>4. requests' \in [Requests -> RequestRecords] /\ requests'[r] = row /\ \A q \in Requests \ {r} : requests'[q] = requests[q]
  BY <1>1, <1>2, <1>3, OneRow
<1>5. available' \in Nat /\ RESERVATION \in Int
  BY <1>1, <1>3, Bounds
<1>6. GatewayTypeOK'
  BY <1>1, <1>3, <1>4, <1>5 DEF GatewayTypeOK
<1>7. ~Spent(r) /\ requests[r].actual = 0
  BY <1>1, <1>3 DEF Spent, Is, InOrder, Settled
<1>8. EvidenceIsSound' /\ SameInvoices
  <2>1. Final(r) /\ running[r] # "no" => Final(r)' /\ running'[r] # "no"
    BY <1>3 DEF Final
  <2> QED BY <1>3, <1>4, <1>7, <2>1, EvidenceOfRows
<1>9. InOrder(r)'
  BY <1>1, <1>2, <1>3, <1>4 DEF InOrder, Settled, Final, Is
<1>10. RequestsAreInOrder'
  BY <1>1, <1>3, <1>4, <1>9, OneStaysInOrder
<1>11. TextsAreTheirOwn'
  <2>1. ASSUME NEW q \in Requests PROVE q \in Made \ Active => q \in Made' \ Active'
    BY <1>3, <1>4 DEF Made, Active, Is
  <2>2. Unforgotten /\ \A q \in Requests : requests'[q].refers \subseteq requests[q].refers \cup ({Prompt(q), Output(q)} \cap texts')
    BY <1>2, <1>3, <1>4 DEF Unforgotten
  <2> QED BY <1>1, <2>1, <2>2, TextsStay
<1>12. <<"reserve", r>> \notin DOMAIN accounts
  BY <1>1, <1>3 DEF JournalsAreOfRows, Made
<1>13. Reserves(accounts', accounts, r, RESERVATION)
  BY <1>1, <1>3, <1>5, <1>12, ReservedBalances, Zenon
<1>14. Made' = Made \cup {r} /\ {q \in Requests : Ended(q)}' = {q \in Requests : Ended(q)}
  <2>1. \A q \in Requests : (Is(q, {"none"})' <=> Is(q, {"none"}) /\ q # r) /\ (Ended(q)' <=> Ended(q))
    BY <1>2, <1>3, <1>4 DEF Is, Ended
  <2> QED BY <2>1 DEF Made
<1>15. \A q \in Requests : q \in Active' \cup Uncertain' <=> q \in Active \cup Uncertain \/ q = r
  BY <1>2, <1>4 DEF Active, Uncertain, Is
<1>16. JournalsAreOfRows'
  <2>1. DOMAIN accounts' = DOMAIN accounts \cup {<<"reserve", r>>}
    BY <1>13 DEF Reserves
  <2>2. {<<"invoice", evidence[i].name>> : i \in Approved}' = {<<"invoice", evidence[i].name>> : i \in Approved}
    BY <1>8, InvoicesStay
  <2> QED BY <1>1, <1>14, <2>1, <2>2 DEF JournalsAreOfRows, Ended
<1>17. /\ Total(Billed)' = Total(Billed) /\ Total(Requests)' = Total(Requests) + row.actual
       /\ Total(Billed) \in Int /\ Total(Requests) \in Int
  <2>1. r \notin Billed
    BY <1>1, <1>7, BilledIsSpent
  <2> QED BY <1>1, <1>2, <1>3, <1>7, <1>8, <2>1, TotalsChange
<1>18. \A account : accountBalance(accounts, account) \in Int
  BY <1>1, BalanceType
<1>19. ASSUME NEW q \in Requests PROVE Owed(accounts, Reserved, q)' = IF q \in Active' \cup Uncertain' THEN RESERVATION ELSE 0
  <2>1. /\ 0 - accountBalance(accounts, <<Reserved, q>>) = (IF q \in Active \cup Uncertain THEN RESERVATION ELSE 0)
        /\ accountBalance(accounts', <<Reserved, q>>) = accountBalance(accounts, <<Reserved, q>>) - (IF q = r THEN RESERVATION ELSE 0)
    BY <1>1, <1>13 DEF BalancesAreRight, Owed, Reserves
  <2>2. r \notin Active \cup Uncertain
    BY <1>3 DEF Active, Uncertain, Is
  <2> QED BY <1>5, <1>15, <1>18, <2>1, <2>2 DEF Owed
<1>20. available' = Owed(accounts, Credit, "e")'
  BY <1>1, <1>3, <1>5, <1>13, <1>18 DEF BalancesAreRight, Owed, Reserves
<1>21. /\ 0 - accountBalance(accounts, Invoiced)' = Total(Billed)'
       /\ 0 - accountBalance(accounts, Payable)' = Total(Requests)' - Total(Billed)'
  BY <1>1, <1>2, <1>13, <1>17, <1>18 DEF BalancesAreRight, Reserves
<1>22. IsBook(accounts)' /\ BalancesAreRight'
  BY <1>13, <1>19, <1>20, <1>21 DEF Reserves, IsBook, BalancesAreRight
<1> QED BY <1>6, <1>8, <1>10, <1>11, <1>16, <1>22 DEF GatewayInv

(***************************************************************************)
(* The sweep changes all rows at once.                                      *)
(***************************************************************************)
Expired == {r \in Requests : Is(r, {"QUEUED"}) /\ Swept(r) = "CANCELLED"}

LEMMA SweepSteps ==
  ASSUME SweepRequests
  PROVE  /\ requests' = [r \in Requests |-> [requests[r] EXCEPT !.status = Swept(r), !.refers = IF r \in Removed THEN {} ELSE @]]
         /\ available' = available + Cardinality(Expired) * RESERVATION
         /\ accounts' = postJournals(accounts, Unused(Expired, RESERVATION))
         /\ texts' = texts \ UNION {requests[r].refers : r \in Removed}
         /\ UNCHANGED <<running, calls, cleaning, lapsed, asked, evidence>>
BY DEF SweepRequests, Expired, Unused

LEMMA SweptRows ==
  ASSUME GatewayInv, SweepRequests, NEW r \in Requests
  PROVE  /\ requests'[r] \in RequestRecords
         /\ requests'[r].status = Swept(r) /\ requests'[r].actual = requests[r].actual
         /\ requests'[r].refers = IF r \in Removed THEN {} ELSE requests[r].refers
         /\ \/ requests[r].status = "PROCESSING" /\ Swept(r) = "UNCERTAIN" /\ r \notin Expired
            \/ requests[r].status = "QUEUED" /\ Swept(r) = "CANCELLED" /\ r \in Expired
            \/ Swept(r) = requests[r].status /\ r \notin Expired
<1>1. requests[r] \in RequestRecords
  BY OfRequests DEF GatewayInv
<1>2. requests[r].status \in {"none", "QUEUED", "PROCESSING", "UNCERTAIN", "COMPLETED", "FAILED", "CANCELLED"}
  BY <1>1 DEF RequestRecords
<1>3. \/ requests[r].status = "PROCESSING" /\ Swept(r) = "UNCERTAIN" /\ r \notin Expired
      \/ requests[r].status = "QUEUED" /\ Swept(r) = "CANCELLED" /\ r \in Expired
      \/ Swept(r) = requests[r].status /\ r \notin Expired
  BY <1>2 DEF Swept, Is, Expired
<1>4. Swept(r) \in {"none", "QUEUED", "PROCESSING", "UNCERTAIN", "COMPLETED", "FAILED", "CANCELLED"}
  BY <1>2, <1>3
<1>5. requests'[r] = [requests[r] EXCEPT !.status = Swept(r), !.refers = IF r \in Removed THEN {} ELSE requests[r].refers]
  BY SweepSteps
<1>6. /\ requests'[r] \in RequestRecords
      /\ requests'[r].status = Swept(r) /\ requests'[r].actual = requests[r].actual
      /\ requests'[r].refers = IF r \in Removed THEN {} ELSE requests[r].refers
  BY <1>1, <1>4, <1>5 DEF RequestRecords
<1> QED BY <1>3, <1>6

LEMMA SweepKeeps ==
  ASSUME GatewayInv, SweepRequests
  PROVE  GatewayInv'
<1>1. /\ GatewayTypeOK /\ RequestsAreInOrder /\ TextsAreTheirOwn /\ EvidenceIsSound /\ JournalsAreOfRows
      /\ IsBook(accounts) /\ BalancesAreRight /\ available \in Nat
  BY DEF GatewayInv, GatewayTypeOK
<1>2. UNCHANGED <<running, calls, evidence>> /\ accounts' = postJournals(accounts, Unused(Expired, RESERVATION))
  BY SweepSteps
<1>3. IsFiniteSet(Expired) /\ RESERVATION \in Int /\ Cardinality(Expired) \in Nat
  BY Bounds, FS_Subset, FS_CardinalityType DEF Expired
<1>4. \A r \in Expired : <<"usage", r>> \notin DOMAIN accounts
  <2>1. \A r \in Expired : r \in Requests /\ ~Is(r, {"COMPLETED", "FAILED", "CANCELLED"})
    BY DEF Expired, Is
  <2> QED BY <1>1, <2>1 DEF JournalsAreOfRows
<1>5. Sweeps(accounts', accounts, Expired, RESERVATION)
  BY <1>1, <1>2, <1>3, <1>4, SweptBalances, Zenon
<1> DEFINE given == Cardinality(Expired) * RESERVATION
<1>6. given \in Nat
  BY <1>3, Bounds
<1>7. available' = available + given /\ accountBalance(accounts', <<Credit, "e">>) = accountBalance(accounts, <<Credit, "e">>) - given
  BY <1>5, SweepSteps DEF Sweeps
<1> HIDE DEF given
<1>8. available' \in Nat
  BY <1>1, <1>6, <1>7
<1>9. GatewayTypeOK'
  <2>1. requests' \in [Requests -> RequestRecords]
    BY SweptRows, SweepSteps
  <2> QED BY <1>1, <1>2, <1>8, <2>1 DEF GatewayTypeOK
<1>10. ASSUME NEW r \in Requests PROVE InOrder(r)'
  <2>1. InOrder(r)
    BY <1>1 DEF RequestsAreInOrder
  <2> QED BY <1>2, <2>1, SweptRows DEF InOrder, Settled, Final, Is
<1>11. ASSUME NEW r \in Requests
       PROVE  /\ requests'[r].refers \subseteq {Prompt(r), Output(r)}
              /\ requests'[r].refers \subseteq texts' \/ r \in lapsed.retention \cup asked
  <2>1. CASE r \in Removed
    BY <2>1, SweptRows
  <2>2. CASE r \notin Removed
    <3>1. requests'[r].refers = requests[r].refers /\ texts' = texts \ UNION {requests[q].refers : q \in Removed}
      BY <2>2, SweptRows, SweepSteps
    <3>2. ASSUME NEW q \in Removed PROVE requests[q].refers \cap requests[r].refers = {}
      <4>1. q \in Requests /\ q # r
        BY <2>2 DEF Removed, Made
      <4> QED BY <1>1, <4>1, TextsDiffer DEF TextsAreTheirOwn
    <3> QED BY <1>1, <3>1, <3>2 DEF TextsAreTheirOwn, TextsLastUntilUnwanted
  <2> QED BY <2>1, <2>2
<1>12. EvidenceIsSound'
  <2>1. \A r \in Requests : Spent(r) => Spent(r)'
    BY SweptRows DEF Spent, Is
  <2>2. \A r \in Requests : Final(r) => Final(r)'
    BY <1>2 DEF Final
  <2> QED BY <1>1, <1>2, <2>1, <2>2, EvidenceStaysSound
<1>13. Billed' = Billed /\ {<<"invoice", evidence[i].name>> : i \in Approved}' = {<<"invoice", evidence[i].name>> : i \in Approved}
  <2>1. SameInvoices
    BY <1>2 DEF SameInvoices, Approved
  <2> QED BY <2>1, InvoicesStay
<1>14. Made' = Made /\ {r \in Requests : Ended(r)}' = {r \in Requests : Ended(r)} \cup Expired
  <2>1. ASSUME NEW r \in Requests PROVE (Is(r, {"none"})' <=> Is(r, {"none"})) /\ (Ended(r)' <=> Ended(r) \/ r \in Expired)
    BY SweptRows DEF Is, Ended
  <2> QED BY <2>1 DEF Made, Expired
<1>15. ASSUME NEW r \in Requests PROVE r \in Active' \cup Uncertain' <=> r \in Active \cup Uncertain /\ r \notin Expired
  BY SweptRows DEF Active, Uncertain, Is
<1>16. JournalsAreOfRows'
  <2>1. DOMAIN accounts' = DOMAIN accounts \cup {<<"usage", r>> : r \in Expired}
    BY <1>5 DEF Sweeps
  <2> QED BY <1>1, <1>13, <1>14, <2>1 DEF JournalsAreOfRows, Ended
<1>17. Total(Billed)' = Total(Billed) /\ Total(Requests)' = Total(Requests)
  <2>1. [r \in Requests |-> requests[r].actual]' = [r \in Requests |-> requests[r].actual]
    BY SweptRows
  <2> QED BY <1>13, <2>1 DEF Total
<1>18. \A account : accountBalance(accounts, account) \in Int
  BY <1>1, BalanceType
<1>19. ASSUME NEW r \in Requests PROVE Owed(accounts, Reserved, r)' = IF r \in Active' \cup Uncertain' THEN RESERVATION ELSE 0
  <2>1. /\ 0 - accountBalance(accounts, <<Reserved, r>>) = (IF r \in Active \cup Uncertain THEN RESERVATION ELSE 0)
        /\ accountBalance(accounts', <<Reserved, r>>) = accountBalance(accounts, <<Reserved, r>>) + (IF r \in Expired THEN RESERVATION ELSE 0)
    BY <1>1, <1>5 DEF BalancesAreRight, Owed, Sweeps
  <2>2. r \in Expired => r \in Active \cup Uncertain
    BY DEF Expired, Active, Is
  <2> QED BY <1>3, <1>15, <1>18, <2>1, <2>2 DEF Owed
<1>20. available' = Owed(accounts, Credit, "e")'
  BY <1>1, <1>6, <1>7, <1>18 DEF BalancesAreRight, Owed
<1>21. /\ 0 - accountBalance(accounts, Invoiced)' = Total(Billed)'
       /\ 0 - accountBalance(accounts, Payable)' = Total(Requests)' - Total(Billed)'
  BY <1>1, <1>5, <1>17 DEF BalancesAreRight, Sweeps
<1>22. IsBook(accounts)' /\ BalancesAreRight'
  BY <1>5, <1>19, <1>20, <1>21 DEF Sweeps, IsBook, BalancesAreRight
<1>23. TextsAreTheirOwn'
  <2>1. UNCHANGED <<lapsed, asked>>
    BY SweepSteps
  <2>2. ASSUME NEW r \in Made \ Active PROVE r \in Made' \ Active'
    BY SweptRows DEF Made, Active, Is
  <2>3. asked' \subseteq Made' \ Active'
    BY <1>1, <2>1, <2>2 DEF TextsAreTheirOwn, TextsLastUntilUnwanted
  <2> QED BY <1>1, <1>11, <2>1, <2>3 DEF TextsAreTheirOwn, TextsLastUntilUnwanted, Lapses
<1> QED BY <1>9, <1>10, <1>12, <1>16, <1>22, <1>23 DEF GatewayInv, RequestsAreInOrder

(***************************************************************************)
(* Evidence is submitted and reviewed.                                      *)
(***************************************************************************)
\* The rows and the money are as they were, and so are the approved invoices.
LEMMA EvidenceKeeps ==
  ASSUME GatewayInv, UNCHANGED <<requests, available, accounts, running, calls, texts, lapsed, asked>>,
         evidence' \in Seq(EvidenceRecords), EvidenceIsSound', SameInvoices
  PROVE  GatewayInv'
<1>1. GatewayTypeOK /\ RequestsAreInOrder /\ TextsAreTheirOwn
  BY DEF GatewayInv
<1>2. GatewayTypeOK' /\ TextsAreTheirOwn'
  BY <1>1, TextsStayOfRows DEF GatewayTypeOK, Unforgotten
<1>3. RequestsAreInOrder'
  BY <1>1 DEF RequestsAreInOrder, InOrder, Settled, Final, Is
<1>4. JournalsAreOfRows' /\ IsBook(accounts)' /\ BalancesAreRight'
  <2>1. \A r \in Requests : /\ requests'[r].actual = requests[r].actual
                            /\ (Is(r, {"none"})' <=> Is(r, {"none"})) /\ (Ended(r)' <=> Ended(r))
                            /\ (r \in Active' \cup Uncertain' <=> r \in Active \cup Uncertain)
    BY DEF Is, Ended, Active, Uncertain
  <2> QED BY <2>1, BookStays
<1> QED BY <1>2, <1>3, <1>4 DEF GatewayInv

LEMMA SubmitKeeps ==
  ASSUME GatewayInv, NEW e \in EvidenceRecords, e.review = "none", Submit(e),
         e.kind = "charge" => \E r \in Requests : e.about = {r} /\ Final(r)
  PROVE  GatewayInv'
<1>1. GatewayTypeOK /\ EvidenceIsSound /\ RequestsAreInOrder
  BY DEF GatewayInv
<1> DEFINE n == Len(evidence) + 1
<1>2. /\ Current(e) /\ ~Conflicts(e, {}) /\ evidence' = Append(evidence, e) /\ e.about # {}
      /\ UNCHANGED <<requests, available, accounts, running, calls, texts, lapsed, asked>>
  BY DEF Submit
<1>3. /\ evidence' \in Seq(EvidenceRecords) /\ evidence'[n] = e /\ n \notin DOMAIN evidence
      /\ DOMAIN evidence' = DOMAIN evidence \cup {n}
      /\ \A i \in DOMAIN evidence : evidence'[i] = evidence[i]
  BY <1>1, <1>2 DEF GatewayTypeOK
<1> HIDE DEF n
<1>4. SameInvoices
  BY <1>3 DEF SameInvoices, Approved
<1>5. ASSUME NEW i \in DOMAIN evidence', e.kind = "charge"
      PROVE  \A r \in e.about : Final(r)' /\ running'[r] # "no"
  <2>1. PICK r \in Requests : e.about = {r} /\ Final(r)
    BY <1>5
  <2>2. Held(r)
    BY <1>2, <1>5, <2>1 DEF Current
  <2>3. running[r] # "no"
    BY <1>1, <2>2 DEF RequestsAreInOrder, InOrder, Held, Is
  <2> QED BY <1>2, <2>1, <2>3 DEF Final
<1>6. ASSUME NEW i \in DOMAIN evidence, evidence[i].kind = e.kind, evidence[i].review # "REJECTED"
      PROVE  e.about \cap evidence[i].about = {} /\ (e.kind = "invoice" => e.name # evidence[i].name)
  BY <1>2, <1>6 DEF Conflicts
<1>7. ASSUME NEW i \in DOMAIN evidence'
      PROVE  /\ evidence'[i].about # {}
             /\ evidence'[i].kind = "charge" => \E r \in Requests : evidence'[i].about = {r}
  BY <1>1, <1>2, <1>3 DEF EvidenceIsSound
<1>8. ASSUME NEW i \in DOMAIN evidence', NEW j \in DOMAIN evidence', i # j, evidence'[i].kind = evidence'[j].kind,
             evidence'[i].review # "REJECTED", evidence'[j].review # "REJECTED"
      PROVE  /\ evidence'[i].about \cap evidence'[j].about = {}
             /\ evidence'[i].kind = "invoice" => evidence'[i].name # evidence'[j].name
  <2>1. CASE i = n
    <3>1. j \in DOMAIN evidence /\ evidence'[i] = e /\ evidence'[j] = evidence[j]
      BY <1>3, <1>8, <2>1
    <3> QED BY <1>6, <1>8, <3>1
  <2>2. CASE j = n
    <3>1. i \in DOMAIN evidence /\ evidence'[j] = e /\ evidence'[i] = evidence[i]
      BY <1>3, <1>8, <2>2
    <3> QED BY <1>6, <1>8, <3>1
  <2>3. CASE i # n /\ j # n
    <3>1. i \in DOMAIN evidence /\ j \in DOMAIN evidence /\ evidence'[i] = evidence[i] /\ evidence'[j] = evidence[j]
      BY <1>3, <2>3
    <3> QED BY <1>1, <1>8, <3>1 DEF EvidenceIsSound
  <2> QED BY <2>1, <2>2, <2>3
<1>9. ASSUME NEW i \in DOMAIN evidence', evidence'[i].kind = "charge", evidence'[i].review # "REJECTED"
      PROVE  \A r \in evidence'[i].about : Final(r)' /\ running'[r] # "no"
  <2>1. CASE i = n
    BY <1>3, <1>5, <1>9, <2>1
  <2>2. CASE i # n
    <3>1. i \in DOMAIN evidence /\ evidence'[i] = evidence[i]
      BY <1>3, <2>2
    <3> QED BY <1>1, <1>2, <1>9, <3>1 DEF EvidenceIsSound, Final
  <2> QED BY <2>1, <2>2
<1>10. ASSUME NEW i \in DOMAIN evidence', evidence'[i].kind = "invoice", evidence'[i].review = "APPROVED"
       PROVE  \A r \in evidence'[i].about : Spent(r)'
  <2>1. i \in DOMAIN evidence /\ evidence'[i] = evidence[i]
    BY <1>3, <1>10
  <2> QED BY <1>1, <1>2, <1>10, <2>1 DEF EvidenceIsSound, Spent, Is
<1>11. EvidenceIsSound'
  BY <1>7, <1>8, <1>9, <1>10 DEF EvidenceIsSound
<1> QED BY <1>2, <1>3, <1>4, <1>11, EvidenceKeeps

LEMMA SubmitChargeKeeps ==
  ASSUME GatewayInv, NEW r \in Requests, NEW by \in Submitters, SubmitCharge(r, by)
  PROVE  GatewayInv'
<1> DEFINE e == Evidence("charge", {r}, "none", by)
<1>1. e \in EvidenceRecords /\ e.review = "none" /\ e.kind = "charge" /\ e.about = {r}
  BY DEF Evidence, EvidenceRecords
<1>2. Submit(e) /\ Final(r)
  BY DEF SubmitCharge
<1> HIDE DEF e
<1> QED BY <1>1, <1>2, SubmitKeeps

LEMMA SubmitInvoiceKeeps ==
  ASSUME GatewayInv, NEW invoice \in Invoices, NEW about \in SUBSET Requests, NEW by \in Submitters,
         SubmitInvoice(invoice, about, by)
  PROVE  GatewayInv'
<1> DEFINE e == Evidence("invoice", about, invoice, by)
<1>1. e \in EvidenceRecords /\ e.review = "none" /\ e.kind = "invoice"
  BY DEF Evidence, EvidenceRecords
<1>2. Submit(e)
  BY DEF SubmitInvoice
<1> HIDE DEF e
<1> QED BY <1>1, <1>2, SubmitKeeps

\* A review gives one piece of evidence its verdict.
LEMMA ReviewedEvidence ==
  ASSUME GatewayInv, NEW i \in DOMAIN evidence, evidence[i].review = "none", NEW verdict \in {"APPROVED", "REJECTED"},
         evidence' = [evidence EXCEPT ![i].review = verdict], UNCHANGED <<running, calls>>,
         \A r \in Requests : Spent(r) => Spent(r)',
         verdict = "APPROVED" /\ evidence[i].kind = "invoice" => \A r \in evidence[i].about : Spent(r)'
  PROVE  /\ evidence' \in Seq(EvidenceRecords) /\ EvidenceIsSound' /\ DOMAIN evidence' = DOMAIN evidence
         /\ \A j \in DOMAIN evidence : /\ evidence'[j].kind = evidence[j].kind /\ evidence'[j].about = evidence[j].about
                                       /\ evidence'[j].name = evidence[j].name
                                       /\ evidence'[j].review = IF j = i THEN verdict ELSE evidence[j].review
<1>1. GatewayTypeOK /\ EvidenceIsSound
  BY DEF GatewayInv
<1>2. ASSUME NEW j \in DOMAIN evidence
      PROVE  /\ evidence'[j] \in EvidenceRecords
             /\ evidence'[j].kind = evidence[j].kind /\ evidence'[j].about = evidence[j].about
             /\ evidence'[j].name = evidence[j].name
             /\ evidence'[j].review = IF j = i THEN verdict ELSE evidence[j].review
  <2>1. evidence[j] \in EvidenceRecords
    BY <1>1, OfEvidence
  <2>2. evidence'[j] = IF j = i THEN [evidence[j] EXCEPT !.review = verdict] ELSE evidence[j]
    BY <1>1 DEF GatewayTypeOK
  <2> QED BY <2>1, <2>2 DEF EvidenceRecords
<1>3. DOMAIN evidence' = DOMAIN evidence
  BY <1>1 DEF GatewayTypeOK
<1>4. evidence' \in Seq(EvidenceRecords)
  <2>1. evidence[i] \in EvidenceRecords /\ evidence \in Seq(EvidenceRecords)
    BY <1>1, OfEvidence DEF GatewayTypeOK
  <2> DEFINE changed == [evidence[i] EXCEPT !.review = verdict]
  <2>2. changed \in EvidenceRecords
    BY <2>1 DEF EvidenceRecords
  <2>3. evidence' = [evidence EXCEPT ![i] = changed]
    BY <2>1
  <2> HIDE DEF changed
  <2> QED BY <2>1, <2>2, <2>3
<1>5. \A j \in DOMAIN evidence : evidence'[j].review # "REJECTED" => evidence[j].review # "REJECTED"
  BY <1>2
<1>6. \A j \in DOMAIN evidence : evidence[j].about \in SUBSET Requests
  BY <1>1, OfEvidence
<1>7. \A j \in DOMAIN evidence : evidence'[j].kind = "invoice" /\ evidence'[j].review = "APPROVED" =>
         \A r \in evidence'[j].about : Spent(r)'
  BY <1>1, <1>2, <1>6 DEF EvidenceIsSound
<1>8. \A j \in DOMAIN evidence : evidence'[j].kind = "charge" /\ evidence'[j].review # "REJECTED" =>
         \A r \in evidence'[j].about : Final(r)' /\ running'[r] # "no"
  BY <1>1, <1>2, <1>5 DEF EvidenceIsSound, Final
<1>9. \A j, k \in DOMAIN evidence :
        j # k /\ evidence'[j].kind = evidence'[k].kind /\ evidence'[j].review # "REJECTED" /\ evidence'[k].review # "REJECTED" =>
          /\ evidence'[j].about \cap evidence'[k].about = {}
          /\ evidence'[j].kind = "invoice" => evidence'[j].name # evidence'[k].name
  BY <1>1, <1>2, <1>5 DEF EvidenceIsSound
<1>10. \A j \in DOMAIN evidence : /\ evidence'[j].about # {}
                                  /\ evidence'[j].kind = "charge" => \E r \in Requests : evidence'[j].about = {r}
  BY <1>1, <1>2 DEF EvidenceIsSound
<1>11. EvidenceIsSound'
  BY <1>3, <1>7, <1>8, <1>9, <1>10 DEF EvidenceIsSound
<1> QED BY <1>2, <1>3, <1>4, <1>11

LEMMA RejectKeeps ==
  ASSUME GatewayInv, NEW i \in DOMAIN evidence, NEW by \in Reviewers, Reject(i, by)
  PROVE  GatewayInv'
<1>1. /\ evidence[i].review = "none" /\ evidence' = [evidence EXCEPT ![i].review = "REJECTED"]
      /\ UNCHANGED <<requests, available, accounts, running, calls, texts, lapsed, asked>>
  BY DEF Reject, Reviewable
<1>2. \A r \in Requests : Spent(r) => Spent(r)'
  BY <1>1 DEF Spent, Is
<1>3. /\ evidence' \in Seq(EvidenceRecords) /\ EvidenceIsSound' /\ DOMAIN evidence' = DOMAIN evidence
      /\ \A j \in DOMAIN evidence : /\ evidence'[j].kind = evidence[j].kind /\ evidence'[j].about = evidence[j].about
                                    /\ evidence'[j].name = evidence[j].name
                                    /\ evidence'[j].review = IF j = i THEN "REJECTED" ELSE evidence[j].review
  BY <1>1, <1>2, ReviewedEvidence
<1>4. SameInvoices
  BY <1>1, <1>3 DEF SameInvoices, Approved
<1> QED BY <1>1, <1>3, <1>4, EvidenceKeeps

\* The charge an uncertain request turned out to have is approved: the request is settled at it.
LEMMA ApproveChargeKeeps ==
  ASSUME GatewayInv, NEW i \in DOMAIN evidence, NEW by \in Reviewers, Approve(i, by), evidence[i].kind = "charge"
  PROVE  GatewayInv'
<1>1. GatewayTypeOK /\ RequestsAreInOrder /\ TextsAreTheirOwn /\ EvidenceIsSound
  BY DEF GatewayInv
<1>2. PICK r \in Requests : evidence[i].about = {r}
  BY <1>1 DEF EvidenceIsSound
<1>3. (CHOOSE q \in evidence[i].about : TRUE) = r
  BY <1>2
<1>4. /\ evidence[i].review = "none" /\ Current(evidence[i]) /\ Resolve(r, "FAILED", calls[r].charge)
      /\ evidence' = [evidence EXCEPT ![i].review = "APPROVED"]
      /\ UNCHANGED <<running, calls, texts, lapsed, asked>>
  BY <1>3, Zenon DEF Approve, Reviewable
<1>5. Is(r, {"UNCERTAIN"}) /\ Final(r) /\ running[r] # "no" /\ InOrder(r)
  BY <1>1, <1>2, <1>4 DEF Current, Held, EvidenceIsSound, RequestsAreInOrder
<1>6. requests[r] \in RequestRecords /\ calls[r].charge \in 0..RESERVATION
  BY <1>1, OfRequests
<1> DEFINE row == [requests[r] EXCEPT !.status = "FAILED", !.actual = calls[r].charge]
<1>7. row \in RequestRecords /\ row.status = "FAILED" /\ row.actual = calls[r].charge /\ row.refers = requests[r].refers
  BY <1>6 DEF RequestRecords
<1>8. Settle(r, calls[r].charge) /\ requests' = [requests EXCEPT ![r] = row]
  BY <1>4 DEF Resolve
<1> HIDE DEF row
<1>9. requests' \in [Requests -> RequestRecords] /\ requests'[r] = row /\ \A q \in Requests \ {r} : requests'[q] = requests[q]
  BY <1>1, <1>7, <1>8, OneRow
<1>10. \A q \in Requests : Spent(q) => Spent(q)'
  BY <1>5, <1>9 DEF Spent, Is
<1>11. /\ evidence' \in Seq(EvidenceRecords) /\ EvidenceIsSound' /\ DOMAIN evidence' = DOMAIN evidence
       /\ \A j \in DOMAIN evidence : /\ evidence'[j].kind = evidence[j].kind /\ evidence'[j].about = evidence[j].about
                                     /\ evidence'[j].name = evidence[j].name
                                     /\ evidence'[j].review = IF j = i THEN "APPROVED" ELSE evidence[j].review
  BY <1>4, <1>10, ReviewedEvidence
<1>12. SameInvoices
  BY <1>11 DEF SameInvoices, Approved
<1>13. JournalsAreOfRows' /\ IsBook(accounts)' /\ BalancesAreRight' /\ available' \in Nat
  <2>1. r \in Active \cup Uncertain /\ Settle(r, row.actual)
    BY <1>5, <1>7, <1>8 DEF Uncertain
  <2> QED BY <1>7, <1>8, <1>12, <2>1, SettledBook
<1>14. GatewayTypeOK'
  BY <1>1, <1>4, <1>9, <1>11, <1>13 DEF GatewayTypeOK
<1>15. InOrder(r)'
  BY <1>4, <1>5, <1>7, <1>9 DEF InOrder, Settled, Final, Is
<1>16. RequestsAreInOrder'
  BY <1>1, <1>4, <1>9, <1>15, OneStaysInOrder
<1>17. TextsAreTheirOwn'
  <2>1. ASSUME NEW q \in Requests PROVE q \in Made \ Active => q \in Made' \ Active'
    BY <1>7, <1>9 DEF Made, Active, Is
  <2>2. Unforgotten /\ \A q \in Requests : requests'[q].refers = requests[q].refers
    BY <1>4, <1>7, <1>9 DEF Unforgotten
  <2> QED BY <1>1, <2>1, <2>2, TextsStay
<1> QED BY <1>11, <1>13, <1>14, <1>16, <1>17 DEF GatewayInv

\* An invoice is approved: what it bills moves from the payable to the invoiced.
LEMMA ApproveInvoiceKeeps ==
  ASSUME GatewayInv, NEW i \in DOMAIN evidence, NEW by \in Reviewers, Approve(i, by), evidence[i].kind # "charge"
  PROVE  GatewayInv'
<1>1. /\ GatewayTypeOK /\ RequestsAreInOrder /\ TextsAreTheirOwn /\ EvidenceIsSound /\ JournalsAreOfRows
      /\ IsBook(accounts) /\ BalancesAreRight
  BY DEF GatewayInv
<1> DEFINE e == evidence[i]
           total == Total(e.about)
<1>2. /\ e.review = "none" /\ Current(e)
      /\ accounts' = postJournal(accounts, <<"invoice", e.name>>, Move(Payable, Into(Invoiced, total)))
      /\ evidence' = [evidence EXCEPT ![i].review = "APPROVED"]
      /\ UNCHANGED <<requests, available, running, calls, texts, lapsed, asked>>
  BY DEF Approve, Reviewable
<1>3. e.kind = "invoice" /\ e.about \in SUBSET Requests
  BY <1>1, OfEvidence
<1>4. \A r \in e.about : Spent(r)
  BY <1>2, <1>3 DEF Current
<1>5. \A r \in Requests : Spent(r) => Spent(r)'
  BY <1>2 DEF Spent, Is
<1>6. /\ evidence' \in Seq(EvidenceRecords) /\ EvidenceIsSound' /\ DOMAIN evidence' = DOMAIN evidence
      /\ \A j \in DOMAIN evidence : /\ evidence'[j].kind = evidence[j].kind /\ evidence'[j].about = evidence[j].about
                                    /\ evidence'[j].name = evidence[j].name
                                    /\ evidence'[j].review = IF j = i THEN "APPROVED" ELSE evidence[j].review
  BY <1>2, <1>3, <1>4, <1>5, ReviewedEvidence
<1>7. Approved' = Approved \cup {i} /\ i \notin Approved
  BY <1>2, <1>3, <1>6 DEF Approved
<1>8. ASSUME NEW j \in Approved PROVE e.name # evidence[j].name /\ e.about \cap evidence[j].about = {}
  <2>1. j \in DOMAIN evidence /\ j # i /\ evidence[j].kind = e.kind /\ evidence[j].review # "REJECTED"
    BY <1>2, <1>3 DEF Approved
  <2> QED BY <1>1, <1>2, <1>3, <2>1 DEF EvidenceIsSound
<1>9. Billed' = Billed \cup e.about /\ Billed \cap e.about = {}
  <2>1. \A j \in Approved \cup {i} : evidence'[j].about = evidence[j].about
    BY <1>6 DEF Approved
  <2> QED BY <1>7, <1>8, <2>1 DEF Billed
<1>10. {<<"invoice", evidence[j].name>> : j \in Approved}' = {<<"invoice", evidence[j].name>> : j \in Approved} \cup {<<"invoice", e.name>>}
  <2>1. \A j \in Approved \cup {i} : evidence'[j].name = evidence[j].name
    BY <1>6 DEF Approved
  <2> QED BY <1>7, <2>1
<1>11. <<"invoice", e.name>> \notin DOMAIN accounts
  BY <1>1, <1>8 DEF JournalsAreOfRows
<1>12. /\ total \in Int /\ Total(Billed)' = Total(Billed) + total /\ Total(Requests)' = Total(Requests)
       /\ Total(Billed) \in Int /\ Total(Requests) \in Int
  <2> DEFINE f == [r \in Requests |-> requests[r].actual]
             about == e.about
  <2>1. Billed \subseteq Requests /\ IsFiniteSet(Billed) /\ IsFiniteSet(about) /\ IsFiniteSet(Requests)
    BY <1>1, <1>3, BilledIsSpent, Bounds, FS_Subset
  <2>2. \A r \in Requests : f[r] \in Int
    BY <1>1, OfRequests
  <2>3. f' = f
    BY <1>2
  <2>4. /\ total = SumFunctionOnSet(f, about) /\ Total(Billed) = SumFunctionOnSet(f, Billed)
        /\ Total(Requests) = SumFunctionOnSet(f, Requests) /\ Total(Requests)' = SumFunctionOnSet(f, Requests)
        /\ Total(Billed)' = SumFunctionOnSet(f, Billed \cup about)
    BY <1>9, <2>3 DEF Total
  <2>5. about \subseteq Requests /\ Billed \cap about = {}
    BY <1>3, <1>9
  <2> HIDE DEF f, about, total
  <2>6. SumFunctionOnSet(f, Billed \cup about) = SumFunctionOnSet(f, Billed) + SumFunctionOnSet(f, about)
    BY <2>1, <2>2, <2>5, SumOfUnion
  <2>7. /\ SumFunctionOnSet(f, Billed) \in Int /\ SumFunctionOnSet(f, about) \in Int
        /\ SumFunctionOnSet(f, Requests) \in Int
    BY <2>1, <2>2, <2>5, SumType
  <2> QED BY <2>4, <2>6, <2>7
<1> HIDE DEF total
<1>13. Bills(accounts', accounts, e.name, total)
  BY <1>1, <1>2, <1>11, <1>12, InvoicedBalances, Zenon
<1>14. \A account : accountBalance(accounts, account) \in Int
  BY <1>1, BalanceType
<1>15. \A r \in Requests : /\ (Is(r, {"none"})' <=> Is(r, {"none"})) /\ (Ended(r)' <=> Ended(r))
                           /\ (r \in Active' \cup Uncertain' <=> r \in Active \cup Uncertain)
  BY <1>2 DEF Is, Ended, Active, Uncertain
<1>16. Made' = Made /\ {r \in Requests : Ended(r)}' = {r \in Requests : Ended(r)}
  BY <1>15 DEF Made
<1>17. JournalsAreOfRows'
  <2>1. DOMAIN accounts' = DOMAIN accounts \cup {<<"invoice", e.name>>}
    BY <1>13 DEF Bills
  <2> QED BY <1>1, <1>10, <1>16, <2>1 DEF JournalsAreOfRows, Ended
<1>18. \A r \in Requests : Owed(accounts, Reserved, r)' = IF r \in Active' \cup Uncertain' THEN RESERVATION ELSE 0
  BY <1>1, <1>13, <1>15 DEF BalancesAreRight, Owed, Bills
<1>19. available' = Owed(accounts, Credit, "e")'
  BY <1>1, <1>2, <1>13 DEF BalancesAreRight, Owed, Bills
<1>20. /\ 0 - accountBalance(accounts, Invoiced)' = Total(Billed)'
       /\ 0 - accountBalance(accounts, Payable)' = Total(Requests)' - Total(Billed)'
  BY <1>1, <1>12, <1>13, <1>14 DEF BalancesAreRight, Bills
<1>21. IsBook(accounts)' /\ BalancesAreRight'
  BY <1>13, <1>18, <1>19, <1>20 DEF Bills, IsBook, BalancesAreRight
<1>22. GatewayTypeOK' /\ TextsAreTheirOwn'
  BY <1>1, <1>2, <1>6, TextsStayOfRows DEF GatewayTypeOK, Unforgotten
<1>23. RequestsAreInOrder'
  BY <1>1, <1>2 DEF RequestsAreInOrder, InOrder, Settled, Final, Is
<1> QED BY <1>6, <1>17, <1>21, <1>22, <1>23 DEF GatewayInv

(***************************************************************************)
(* The invariant.                                                           *)
(***************************************************************************)
LEMMA GatewayInitKeeps ==
  ASSUME GatewayInit
  PROVE  GatewayInv
<1> DEFINE from == <<"LIABILITY:contributor_unallocated", "e">>
           to == <<Credit, "e">>
<1>1. /\ requests = [r \in Requests |-> NoRequest] /\ available = CREDIT
      /\ accounts = postJournal(NoBook, <<"choose", "e">>, Move(from, Into(to, CREDIT)))
      /\ running = [r \in Requests |-> "no"]
      /\ calls = [r \in Requests |-> [sent |-> 0, open |-> FALSE, charge |-> 0]]
      /\ texts = {} /\ asked = {} /\ evidence = <<>>
      /\ lapsed = [queue |-> {}, deadline |-> {}, retention |-> {}]
  BY DEF GatewayInit
<1>2. CREDIT \in Int /\ CREDIT \in Nat /\ RESERVATION \in Nat
  BY Bounds
<1>3. /\ from # to /\ Payable # from /\ Payable # to /\ Invoiced # from /\ Invoiced # to
      /\ \A q : <<Reserved, q>> # from /\ <<Reserved, q>> # to
  BY DEF Credit, Payable, Invoiced, Reserved
<1>4. IsBook(NoBook) /\ <<"choose", "e">> \notin DOMAIN NoBook /\ DOMAIN NoBook = {}
  BY FS_EmptySet DEF IsBook, NoBook
<1> HIDE DEF from, to
<1>5. Shifts(accounts, NoBook, <<"choose", "e">>, from, to, CREDIT)
  BY <1>1, <1>2, <1>3, <1>4, PostedIntoOne, Zenon
<1>6. \A account : accountBalance(NoBook, account) = 0
  <2>1. \A account : accountBalance(NoBook, account) = SumFunctionOnSet(Entries(NoBook, account), DOMAIN NoBook)
    BY BalanceIsSum
  <2>2. \A f : SumFunctionOnSet(f, {}) = 0
    BY SumRecursion, FS_EmptySet
  <2> QED BY <1>4, <2>1, <2>2
<1>7. /\ IsBook(accounts) /\ DOMAIN accounts = {<<"choose", "e">>}
      /\ \A account : account # from /\ account # to => accountBalance(accounts, account) = 0
      /\ accountBalance(accounts, to) = 0 - CREDIT
  BY <1>2, <1>3, <1>4, <1>5, <1>6 DEF Shifts
<1>8. GatewayTypeOK
  <2>1. NoRequest \in RequestRecords
    BY <1>2 DEF NoRequest, RequestRecords
  <2>2. [sent |-> 0, open |-> FALSE, charge |-> 0] \in CallRecords
    BY <1>2 DEF CallRecords
  <2> QED BY <1>1, <1>2, <2>1, <2>2 DEF GatewayTypeOK, Places
<1>9. RequestsAreInOrder /\ TextsAreTheirOwn
  BY <1>1 DEF RequestsAreInOrder, InOrder, Settled, Final, Is, NoRequest, TextsAreTheirOwn, TextsLastUntilUnwanted, Lapses
<1>10. EvidenceIsSound /\ Approved = {} /\ Billed = {}
  BY <1>1 DEF EvidenceIsSound, Approved, Billed
<1>11. /\ Made = {} /\ Active = {} /\ Uncertain = {}
       /\ {r \in Requests : Is(r, {"COMPLETED", "FAILED", "CANCELLED"})} = {}
  BY <1>1 DEF Made, Active, Uncertain, Is, NoRequest
<1>12. JournalsAreOfRows
  BY <1>7, <1>10, <1>11 DEF JournalsAreOfRows
<1>13. Total(Billed) = 0 /\ Total(Requests) = 0
  <2> DEFINE f == [r \in Requests |-> requests[r].actual]
  <2>1. SumFunctionOnSet(f, {}) = 0
    BY SumRecursion, FS_EmptySet
  <2>2. \A r \in Requests : f[r] = 0
    BY <1>1 DEF NoRequest
  <2>3. Total(Billed) = SumFunctionOnSet(f, {}) /\ Total(Requests) = SumFunctionOnSet(f, Requests)
    BY <1>10 DEF Total
  <2> HIDE DEF f
  <2>4. SumFunctionOnSet(f, Requests) = 0
    BY <2>2, Bounds, SumOfZeros
  <2> QED BY <2>1, <2>3, <2>4
<1>14. BalancesAreRight
  <2>1. \A r \in Requests : Owed(accounts, Reserved, r) = IF r \in Active \cup Uncertain THEN RESERVATION ELSE 0
    BY <1>3, <1>7, <1>11 DEF Owed
  <2>2. available = Owed(accounts, Credit, "e")
    BY <1>1, <1>2, <1>7 DEF Owed, to
  <2>3. 0 - accountBalance(accounts, Invoiced) = 0 /\ 0 - accountBalance(accounts, Payable) = 0
    BY <1>3, <1>7
  <2> QED BY <1>13, <2>1, <2>2, <2>3 DEF BalancesAreRight
<1> QED BY <1>7, <1>8, <1>9, <1>10, <1>12, <1>14 DEF GatewayInv

LEMMA GatewayStepKeeps ==
  ASSUME GatewayInv, [GatewayNext]_gatewayVars
  PROVE  GatewayInv'
<1>1. CASE Owner
  BY <1>1, CreateKeeps, CreateFailsKeeps, ClaimKeeps, CancelKeeps, DeleteContentKeeps, DeleteFailsKeeps DEF Owner
<1>2. CASE Process
  BY <1>2, PreflightKeeps, GenerateKeeps, AnswerIsLostKeeps, FinishKeeps, FinishFailsKeeps, CatchKeeps, CrashKeeps DEF Process
<1>3. CASE Provider
  BY <1>3, RefuseKeeps, ChargeKeeps DEF Provider
<1>4. CASE Clean
  BY <1>4, CleaningKeeps DEF Clean
<1>5. CASE SweepRequests \/ SweepFails
  BY <1>5, SweepKeeps, SweepFailsKeeps
<1>6. CASE Operators
  BY <1>6, SubmitChargeKeeps, SubmitInvoiceKeeps, ApproveChargeKeeps, ApproveInvoiceKeeps, RejectKeeps DEF Operators
<1>7. CASE \E r \in Requests : PassTime(r)
  BY <1>7, PassTimeKeeps
<1>8. CASE UNCHANGED gatewayVars
  BY <1>8, TextsKeep, TextsStayOfRows DEF gatewayVars, Unforgotten, GatewayInv
<1> QED BY <1>1, <1>2, <1>3, <1>4, <1>5, <1>6, <1>7, <1>8 DEF GatewayNext

\* In every state the rows, the process that executes each, what the provider did, the evidence and the
\* ledger agree with one another.
THEOREM GatewayInvariant == GatewaySpec => []GatewayInv
BY GatewayInitKeeps, GatewayStepKeeps, PTL DEF GatewaySpec

\* What the provider charged is held or paid, a generation is submitted at most once, each reservation is
\* on the ledger exactly while its request is open, and the credit there is never runs below nothing.
THEOREM ProviderChargesAreHeld == GatewaySpec => []ChargesAreHeld
<1>1. ASSUME GatewayInv PROVE ChargesAreHeld
  <2>1. GatewayTypeOK /\ RequestsAreInOrder /\ BalancesAreRight /\ available \in Nat
    BY <1>1 DEF GatewayInv, GatewayTypeOK
  <2>2. ASSUME NEW r \in Requests
        PROVE  /\ calls[r].sent <= 1 /\ (calls[r].sent = 1 => Is(r, {"PROCESSING", "UNCERTAIN", "COMPLETED", "FAILED"}))
               /\ (calls[r].charge > 0 => Held(r) \/ Is(r, {"PROCESSING"}) \/ requests[r].actual = calls[r].charge)
    <3>1. InOrder(r)
      BY <2>1 DEF RequestsAreInOrder
    <3>2. requests[r].status \in {"none", "QUEUED", "PROCESSING", "UNCERTAIN", "COMPLETED", "FAILED", "CANCELLED"}
      BY <2>1, OfRequests
    <3> QED BY <3>1, <3>2 DEF InOrder, Settled, Is, Held
  <2> QED BY <2>1, <2>2 DEF ChargesAreHeld, SubmittedOnce, BalancesAreRight
<1> QED BY <1>1, GatewayInvariant, PTL

\* Approved invoices name disjoint sets of metered requests at what the provider charged, what was invoiced is
\* what they cost, and what is payable is the cost of the rest.
THEOREM ChargesAreInvoicedOnce == GatewaySpec => []InvoicesCoverChargesOnce
<1>1. ASSUME GatewayInv PROVE InvoicesCoverChargesOnce
  <2>1. GatewayTypeOK /\ RequestsAreInOrder /\ BalancesAreRight /\ EvidenceIsSound
    BY <1>1 DEF GatewayInv
  <2>2. \A i, j \in Approved : i # j => evidence[i].about \cap evidence[j].about = {}
    BY <2>1 DEF EvidenceIsSound, Approved
  <2>3. ASSUME NEW r \in Billed PROVE requests[r].actual = calls[r].charge /\ calls[r].charge > 0
    <3>1. r \in Requests /\ Spent(r)
      BY <2>1, BilledIsSpent
    <3>2. InOrder(r)
      BY <2>1, <3>1 DEF RequestsAreInOrder
    <3> QED BY <3>1, <3>2 DEF InOrder, Settled, Spent
  <2> QED BY <2>1, <2>2, <2>3 DEF InvoicesCoverChargesOnce, BalancesAreRight, Approved, Billed
<1> QED BY <1>1, GatewayInvariant, PTL

\* A text a row refers to is gone only after its retention has ended or its owner asked for that when the
\* request was over, whatever is rolled back after texts were removed.
THEOREM TextsOfRowsLast == GatewaySpec => []TextsLastUntilUnwanted
<1>1. ASSUME GatewayInv PROVE TextsLastUntilUnwanted
  BY <1>1 DEF GatewayInv, TextsAreTheirOwn
<1> QED BY <1>1, GatewayInvariant, PTL

(***************************************************************************)
(* The sale worker.                                                          *)
(***************************************************************************)

(***************************************************************************)
(* Sequences: the rest after a first element, and the order of a page.        *)
(***************************************************************************)
LEMMA RestOfJoined ==
  ASSUME NEW S, NEW q \in Seq(S), NEW x
  PROVE  <<x>> \o q # <<>> /\ Tail(<<x>> \o q) = q
<1> DEFINE T == S \cup {x}
           t == <<x>> \o q
<1>1. q \in Seq(T) /\ <<x>> \in Seq(T) /\ Len(<<x>>) = 1
  <2>1. q \in Seq(T)
    BY SeqMonotonic
  <2>2. x \in T
    OBVIOUS
  <2> HIDE DEF T
  <2> QED BY <2>1, <2>2
<1> HIDE DEF T
<1>2. Len(q) \in Nat
  BY LenProperties
<1>3. /\ t \in Seq(T) /\ Len(t) = 1 + Len(q)
      /\ \A i \in 1 .. 1 + Len(q) : t[i] = IF i <= 1 THEN <<x>>[i] ELSE q[i - 1]
  BY <1>1, ConcatProperties
<1> HIDE DEF t
<1>4. t # <<>>
  BY <1>2, <1>3, EmptySeq
<1>5. /\ Tail(t) \in Seq(T) /\ Len(Tail(t)) = Len(q)
      /\ \A i \in 1 .. Len(q) : Tail(t)[i] = q[i]
  <2>1. Tail(t) \in Seq(T) /\ Len(Tail(t)) = Len(t) - 1 /\ \A i \in 1 .. Len(Tail(t)) : Tail(t)[i] = t[i + 1]
    BY <1>3, <1>4, HeadTailProperties
  <2> QED BY <1>2, <1>3, <2>1
<1>6. Tail(t) = q
  BY <1>1, <1>5, SeqEqual
<1> QED BY <1>4, <1>6 DEF t

IsSorting(q, ids) ==
  /\ q \in [1 .. Cardinality(ids) -> ids]
  /\ \A i, j \in DOMAIN q : i < j => q[i] < q[j]

\* A set of numbers that is not empty has a least one.
LEMMA LeastOf ==
  ASSUME NEW S \in SUBSET Nat, S # {}
  PROVE  \E x \in S : \A y \in S : x <= y
<1> DEFINE R == OpToRel(<, Nat)
<1>1. IsWellFoundedOn(R, Nat)
  BY NatLessThanWellFounded
<1>2. \A x, y \in Nat : <<y, x>> \in R <=> y < x
  BY DEF OpToRel
<1>3. PICK x \in S : \A y \in S : ~ (<<y, x>> \in R)
  <2> HIDE DEF R
  <2> QED BY <1>1, WFMin
<1>4. \A y \in S : ~ (y < x)
  <2> HIDE DEF R
  <2> QED BY <1>2, <1>3
<1> QED BY <1>4

\* A finite set of numbers can be put in order: its least one first.
LEMMA SortingExists ==
  ASSUME NEW ids, IsFiniteSet(ids), ids \subseteq Nat
  PROVE  \E q : IsSorting(q, ids)
<1> DEFINE A == {T \in SUBSET ids : \E q : IsSorting(q, T)}
<1>1. ASSUME NEW T \in SUBSET ids, \A U \in SUBSET T : U # T => U \in A PROVE \E q : IsSorting(q, T)
  <2>1. IsFiniteSet(T)
    BY FS_Subset
  <2>2. CASE T = {}
    <3>1. Cardinality(T) = 0
      BY <2>2, FS_EmptySet
    <3>2. 1 .. Cardinality(T) = {}
      BY <3>1
    <3>3. IsSorting([i \in {} |-> i], T)
      BY <2>2, <3>2 DEF IsSorting
    <3> QED BY <3>3
  <2>3. CASE T # {}
    <3>1. PICK m \in T : \A y \in T : m <= y
      BY <2>3, LeastOf
    <3> DEFINE U == T \ {m}
    <3>2. U \in A
      BY <1>1, <3>1
    <3>3. PICK q : IsSorting(q, U)
      BY <3>2
    <3>4. Cardinality(U) = Cardinality(T) - 1 /\ Cardinality(T) \in Nat /\ Cardinality(U) \in Nat
      BY <2>1, FS_RemoveElement, FS_CardinalityType
    <3> DEFINE n == Cardinality(T)
               h == [i \in 1 .. n |-> IF i = 1 THEN m ELSE q[i - 1]]
    <3>5. n \in Nat /\ q \in [1 .. n - 1 -> U] /\ \A i, j \in 1 .. n - 1 : i < j => q[i] < q[j]
      BY <3>3, <3>4 DEF IsSorting
    <3>6. \A y \in U : y \in T /\ y \in Nat /\ m \in Nat /\ m < y
      BY <3>1
    <3>7. \A i \in 1 .. n : i # 1 => i - 1 \in 1 .. n - 1 /\ q[i - 1] \in U
      BY <3>5
    <3> HIDE DEF U
    <3>8. h \in [1 .. n -> T] /\ DOMAIN h = 1 .. n
      BY <3>1, <3>6, <3>7
    <3>9. ASSUME NEW i \in 1 .. n, NEW j \in 1 .. n, i < j PROVE h[i] < h[j]
      <4>1. j # 1 /\ h[j] = q[j - 1]
        BY <3>5, <3>9
      <4>2. CASE i = 1
        BY <3>6, <3>7, <4>1, <4>2
      <4>3. CASE i # 1
        <5>1. h[i] = q[i - 1] /\ i - 1 \in 1 .. n - 1 /\ j - 1 \in 1 .. n - 1 /\ i - 1 < j - 1
          BY <3>5, <3>7, <3>9, <4>1, <4>3
        <5> QED BY <3>5, <4>1, <5>1
      <4> QED BY <4>2, <4>3
    <3> HIDE DEF h
    <3>10. IsSorting(h, T)
      BY <3>8, <3>9 DEF IsSorting
    <3> QED BY <3>10
  <2> QED BY <2>2, <2>3
<1>2. A \in SUBSET SUBSET ids /\ \A T \in SUBSET ids : (\A U \in SUBSET T : U # T => U \in A) => T \in A
  BY <1>1
<1>3. A = SUBSET ids
  <2> HIDE DEF A
  <2> QED BY <1>2, SubsetInduction
<1> QED BY <1>3

LEMMA SortedIsSequence ==
  ASSUME NEW ids, ids \subseteq Sales
  PROVE  Sorted(ids) \in Seq(Sales) /\ \A i \in 1 .. Len(Sorted(ids)) : Sorted(ids)[i] \in ids
<1>1. IsFiniteSet(ids) /\ ids \subseteq Nat
  BY SaleWorkerAssumption, FS_Subset DEF SaleWorkerAssumption
<1> DEFINE n == Cardinality(ids)
<1>2. n \in Nat
  BY <1>1, FS_CardinalityType
<1>3. \E q \in [1 .. n -> ids] : \A i, j \in DOMAIN q : i < j => q[i] < q[j]
  BY <1>1, SortingExists DEF IsSorting
<1>4. Sorted(ids) \in [1 .. n -> ids]
  BY <1>3 DEF Sorted
<1> HIDE DEF n
<1>5. Sorted(ids) \in Seq(ids)
  BY <1>2, <1>4
<1>6. \A i \in 1 .. Len(Sorted(ids)) : Sorted(ids)[i] \in ids
  BY <1>5
<1>7. Sorted(ids) \in Seq(Sales)
  BY <1>5, SeqMonotonic
<1> QED BY <1>6, <1>7

\* A page lists some of the sales asked for.
LEMMA PageIsSequence ==
  ASSUME NEW ids, ids \subseteq Sales, NEW last, NEW n \in Nat
  PROVE  Page(ids, last, n) \in Seq(ids)
<1> DEFINE after == Sorted({i \in ids : i > last})
           before == Sorted({i \in ids : i <= last})
           q == after \o before
           m == IF Len(q) < n THEN Len(q) ELSE n
<1>1. after \in Seq(ids) /\ before \in Seq(ids)
  <2>1. ASSUME NEW part, part \subseteq ids PROVE Sorted(part) \in Seq(ids)
    <3>1. Sorted(part) \in Seq(Sales) /\ \A i \in 1 .. Len(Sorted(part)) : Sorted(part)[i] \in part
      BY <2>1, SortedIsSequence
    <3> QED BY <2>1, <3>1
  <2> QED BY <2>1
<1> HIDE DEF after, before
<1>2. q \in Seq(ids)
  BY <1>1, ConcatProperties
<1> HIDE DEF q
<1>3. m \in Nat /\ m <= Len(q)
  BY <1>2
<1>4. \A i \in 1 .. m : q[i] \in ids
  <2>1. \A i \in 1 .. m : i \in 1 .. Len(q)
    BY <1>2, <1>3
  <2> QED BY <1>2, <2>1, ElementOfSeq
<1> HIDE DEF m
<1>5. SubSeq(q, 1, m) \in Seq(ids)
  BY <1>3, <1>4, SubSeqProperties
<1> QED BY <1>5 DEF Page, Upto, q, m, after, before

(***************************************************************************)
(* The inductive invariant.  Nothing is claimed of what a deep reorganization *)
(* leaves, which no later step undoes.                                        *)
(***************************************************************************)
\* A sale that is or may still be funded holds its content.
Alive(s) == chain.status[s] # "none" \/ Usable(sale[s].listing)
Holds(s) == claims[ContentOf[sale[s].listing]] \in [sale : {s}, status : {"queued", "committed"}]
AliveSalesHold == \A s \in Sales : Treasury(s) /\ Alive(s) => Holds(s)

UnknownIsUnfunded == \A s \in Sales : ~Exists(s) => chain.status[s] = "none"
RevokedIsUnused == \A l \in chain.revoked : ~Used(l)
DirectIsOrdinary == \A s \in chain.direct : Exists(s) /\ ~Treasury(s)
DocumentsAreOver == \A s \in Sales : Exists(s) /\ jobs[s].status = "complete" => Over(s, jobs[s])
RowsAreOfSales == \A r \in DOMAIN journal : journal[r] \in Row /\ Exists(journal[r].op.sale)

RecordsTypeOK ==
  /\ era \in {0, 1} /\ scenario \in Scenario
  /\ sale \in [Sales -> Sale \cup {NoSale}]
  /\ jobs \in [Sales -> Doc]
  /\ claims \in [Contents -> ContentClaim \cup {NoClaim}]
  /\ chain \in Chain
  /\ journal \in Seq(Row)
RecordsAreInOrder ==
  /\ RecordsTypeOK /\ AliveSalesHold /\ UnknownIsUnfunded /\ RevokedIsUnused /\ DirectIsOrdinary
  /\ DocumentsAreOver /\ RowsAreOfSales

\* What a worker holds: copies of documents, complete only where the sale is over, and what it
\* read of the first one's sale, as far as the chain cannot take it back.
JobIsSound(j) == Exists(j.sale) /\ (j.doc.status = "complete" => Over(j.sale, j.doc))
JobsAreSound(todo) == todo \in Seq(Job) /\ \A i \in 1 .. Len(todo) : JobIsSound(todo[i])
Continues == {"bought", "reread", "refunded", "finalized", "sold"}
ReadsStand(p, s) ==
  /\ p.offer.status = "refunded" => chain.status[s] = "refunded"
  /\ p.pc = "funded" => chain.status[s] # "none"
  /\ p.pc = "recheck" => ~Usable(sale[s].listing)
  /\ p.pc \in {"recheck", "close"} /\ p.void = "revoked" => sale[s].listing \in chain.revoked
  /\ p.pc = "sold" => chain.status[s] = "finalized"
  /\ p.pc = "call" => /\ p.op \in Op /\ p.op.sale = s /\ p.next \in Continues
                      /\ p.next = "sold" => chain.status[s] = "finalized"
AtAJob(p) == p.todo # <<>> /\ ReadsStand(p, Head(p.todo).sale)
Resting == {"idle", "down"}
PlaceIsSound(p) ==
  p \in Place /\ JobsAreSound(p.todo) /\ (p.pc \notin Resting => AtAJob(p))
WorkersAreSound == at \in [Workers -> Place] /\ \A w \in Workers : PlaceIsSound(at[w])

SaleWorkerInv == era # 2 => RecordsAreInOrder /\ WorkersAreSound

(***************************************************************************)
(* What no step takes back.                                                  *)
(***************************************************************************)
Kept ==
  /\ \A s \in Sales : Exists(s) => sale'[s] = sale[s]
  /\ \A s \in Sales : chain.status[s] # "none" => chain'.status[s] # "none"
  /\ \A s \in Sales : chain.status[s] \in {"finalized", "refunded"} => chain'.status[s] = chain.status[s]
  /\ \A s \in Sales : chain.status[s] = "none" /\ chain'.status[s] # "none" =>
                        Exists(s) /\ (Usable(sale[s].listing) \/ s \in chain'.direct)
  /\ \A l \in Listings : ~Usable(l) => ~(Usable(l)')
  /\ chain.revoked \subseteq chain'.revoked /\ chain.direct \subseteq chain'.direct

LEMMA OfSale ==
  ASSUME RecordsTypeOK, NEW s \in Sales, Exists(s)
  PROVE  sale[s] \in Sale /\ sale[s].listing \in Listings /\ sale[s].kind \in Kinds /\ ContentOf[sale[s].listing] \in Contents
BY DEF RecordsTypeOK, Exists, Sale, Contents

LEMMA OverIsKept ==
  ASSUME RecordsTypeOK, Kept, NEW s \in Sales, Exists(s), NEW doc
  PROVE  Exists(s)' /\ (Over(s, doc) => Over(s, doc)')
<1>1. sale'[s] = sale[s] /\ sale[s].listing \in Listings
  BY OfSale DEF Kept
<1>2. Exists(s)'
  BY <1>1 DEF Exists
<1>3. ASSUME Over(s, doc) PROVE Over(s, doc)'
  <2>1. CASE chain.status[s] \in {"finalized", "refunded"}
    <3>1. chain'.status[s] = chain.status[s]
      BY <2>1 DEF Kept
    <3> QED BY <2>1, <3>1 DEF Over
  <2>2. CASE doc.closed /\ ~Usable(sale[s].listing) /\ (chain.status[s] = "none" \/ s \in chain.direct)
    <3>1. PICK l \in Listings : l = sale[s].listing
      BY <1>1
    <3>2. ~(Usable(l)') /\ sale'[s].listing = l
      BY <1>1, <2>2, <3>1 DEF Kept
    <3>3. ~(Usable(sale[s].listing)')
      BY <3>2 DEF Usable, Used
    <3>4. chain'.status[s] = "none" \/ s \in chain'.direct
      <4>1. s \in chain.direct => s \in chain'.direct
        BY DEF Kept
      <4>2. chain.status[s] = "none" /\ chain'.status[s] # "none" => Usable(sale[s].listing) \/ s \in chain'.direct
        BY DEF Kept
      <4> QED BY <2>2, <4>1, <4>2, Zenon
    <3> QED BY <2>2, <3>3, <3>4 DEF Over
  <2> QED BY <1>3, <2>1, <2>2 DEF Over
<1> QED BY <1>2, <1>3

LEMMA JobsAreKept ==
  ASSUME RecordsTypeOK, Kept, NEW todo, JobsAreSound(todo)
  PROVE  JobsAreSound(todo)'
<1>1. ASSUME NEW i \in 1 .. Len(todo) PROVE JobIsSound(todo[i])'
  <2>1. PICK j \in Job : j = todo[i]
    BY ElementOfSeq DEF JobsAreSound
  <2>2. j.sale \in Sales /\ JobIsSound(j)
    BY <2>1 DEF Job, JobsAreSound
  <2>3. PICK s \in Sales : s = j.sale
    BY <2>2
  <2>4. Exists(s) /\ (j.doc.status = "complete" => Over(s, j.doc))
    BY <2>2, <2>3 DEF JobIsSound
  <2>5. Exists(s)' /\ (Over(s, j.doc) => Over(s, j.doc)')
    BY <2>4, OverIsKept
  <2>6. JobIsSound(j)'
    BY <2>3, <2>4, <2>5 DEF JobIsSound
  <2> QED BY <2>1, <2>6
<1> QED BY <1>1 DEF JobsAreSound

LEMMA ReadsAreKept ==
  ASSUME RecordsTypeOK, Kept, NEW p, NEW s \in Sales, Exists(s), ReadsStand(p, s)
  PROVE  ReadsStand(p, s)'
<1>1. PICK l \in Listings : l = sale[s].listing
  BY OfSale
<1>2. sale'[s].listing = l
  BY <1>1 DEF Kept
<1>3. ~Usable(sale[s].listing) => ~(Usable(sale[s].listing)')
  <2>1. ~Usable(l) => ~(Usable(l)')
    BY DEF Kept
  <2> QED BY <1>1, <1>2, <2>1 DEF Usable, Used
<1>4. sale[s].listing \in chain.revoked => (sale[s].listing \in chain.revoked)'
  BY <1>1, <1>2 DEF Kept
<1>5. /\ chain.status[s] \in {"finalized", "refunded"} => chain'.status[s] = chain.status[s]
      /\ chain.status[s] # "none" => chain'.status[s] # "none"
  BY DEF Kept
<1>6. ReadsStand(p, s)' <=>
       /\ p.offer.status = "refunded" => chain'.status[s] = "refunded"
       /\ p.pc = "funded" => chain'.status[s] # "none"
       /\ p.pc = "recheck" => ~(Usable(sale[s].listing)')
       /\ p.pc \in {"recheck", "close"} /\ p.void = "revoked" => (sale[s].listing \in chain.revoked)'
       /\ p.pc = "sold" => chain'.status[s] = "finalized"
       /\ p.pc = "call" => /\ p.op \in Op /\ p.op.sale = s /\ p.next \in Continues
                           /\ p.next = "sold" => chain'.status[s] = "finalized"
  BY DEF ReadsStand
<1> QED BY <1>3, <1>4, <1>5, <1>6 DEF ReadsStand

LEMMA HeadIsSound ==
  ASSUME NEW todo, JobsAreSound(todo), todo # <<>>
  PROVE  /\ Head(todo) \in Job /\ Head(todo).sale \in Sales /\ Exists(Head(todo).sale) /\ Head(todo).doc \in Doc
         /\ Head(todo).doc.status = "complete" => Over(Head(todo).sale, Head(todo).doc)
<1>1. Len(todo) \in Nat \ {0} /\ Head(todo) = todo[1]
  BY EmptySeq DEF JobsAreSound
<1>2. Head(todo) \in Job /\ JobIsSound(Head(todo))
  BY <1>1, ElementOfSeq DEF JobsAreSound
<1> QED BY <1>2 DEF JobIsSound, Job

LEMMA PlaceIsKept ==
  ASSUME RecordsTypeOK, Kept, NEW p, PlaceIsSound(p)
  PROVE  PlaceIsSound(p)'
<1>1. p \in Place /\ JobsAreSound(p.todo)
  BY DEF PlaceIsSound
<1>2. JobsAreSound(p.todo)'
  BY <1>1, JobsAreKept
<1>3. ASSUME p.pc \notin Resting PROVE AtAJob(p)'
  <2>1. p.todo # <<>> /\ ReadsStand(p, Head(p.todo).sale)
    BY <1>3 DEF PlaceIsSound, AtAJob
  <2>2. PICK s \in Sales : s = Head(p.todo).sale /\ Exists(s)
    BY <1>1, <2>1, HeadIsSound
  <2>3. ReadsStand(p, s)'
    BY <2>1, <2>2, ReadsAreKept
  <2> QED BY <2>1, <2>2, <2>3 DEF AtAJob
<1> QED BY <1>1, <1>2, <1>3 DEF PlaceIsSound

\* A worker moves to a sound place and the others stay where they are.
LEMMA WorkerMoves ==
  ASSUME RecordsTypeOK, Kept, WorkersAreSound, NEW w \in Workers, NEW p, PlaceIsSound(p)', at' = [at EXCEPT ![w] = p]
  PROVE  WorkersAreSound'
<1>1. p \in Place
  BY DEF PlaceIsSound
<1>2. at' \in [Workers -> Place] /\ at'[w] = p /\ \A v \in Workers : v # w => at'[v] = at[v]
  BY <1>1 DEF WorkersAreSound
<1>3. ASSUME NEW v \in Workers PROVE PlaceIsSound(at[v])'
  <2>1. PICK q : q = at'[v]
    OBVIOUS
  <2>2. PlaceIsSound(q)'
    <3>1. CASE v = w
      BY <1>2, <2>1, <3>1
    <3>2. CASE v # w
      <4>1. PlaceIsSound(q)
        BY <1>2, <2>1, <3>2 DEF WorkersAreSound
      <4> QED BY <4>1, PlaceIsKept
    <3> QED BY <3>1, <3>2
  <2> QED BY <2>1, <2>2
<1> QED BY <1>2, <1>3 DEF WorkersAreSound

LEMMA WorkersStay ==
  ASSUME RecordsTypeOK, Kept, WorkersAreSound, at' = at
  PROVE  WorkersAreSound'
<1>1. ASSUME NEW v \in Workers PROVE PlaceIsSound(at[v])'
  <2>1. PICK q : q = at[v]
    OBVIOUS
  <2>2. PlaceIsSound(q)'
    BY <2>1, PlaceIsKept DEF WorkersAreSound
  <2> QED BY <2>1, <2>2
<1> QED BY <1>1 DEF WorkersAreSound

(***************************************************************************)
(* What one transaction may do to the chain.                                  *)
(***************************************************************************)
ChainStep ==
  /\ sale' = sale /\ chain' \in Chain
  /\ chain.revoked \subseteq chain'.revoked
  /\ \A s \in Sales : chain.status[s] # "none" => chain'.status[s] # "none"
  /\ \A s \in Sales : chain.status[s] \in {"finalized", "refunded"} => chain'.status[s] = chain.status[s]
  /\ \A s \in Sales : chain.status[s] = "none" /\ chain'.status[s] # "none" =>
                        Exists(s) /\ (Usable(sale[s].listing) \/ s \in chain'.direct)
  /\ chain.direct \subseteq chain'.direct
  /\ \A s \in chain'.direct \ chain.direct : chain.status[s] = "none" /\ Exists(s) /\ ~Treasury(s)
  /\ \A l \in chain'.revoked \ chain.revoked : Usable(l)
  /\ chain'.revoked = chain.revoked \/ chain'.status = chain.status

LEMMA UsesStay ==
  ASSUME ChainStep, NEW l
  PROVE  /\ Used(l) => Used(l)'
         /\ chain'.status = chain.status => (Used(l)' => Used(l))
         /\ Used(l)' /\ ~Used(l) => Usable(l)
<1>1. Used(l) => Used(l)'
  <2>1. ASSUME Used(l) PROVE Used(l)'
    <3>1. PICK s \in Sales \ chain.direct : Exists(s) /\ sale[s].listing = l /\ chain.status[s] # "none"
      BY <2>1 DEF Used
    <3>2. Exists(s)' /\ sale'[s].listing = l /\ chain'.status[s] # "none" /\ s \notin chain'.direct
      BY <3>1 DEF ChainStep, Exists
    <3> QED BY <3>2 DEF Used
  <2> QED BY <2>1
<1>2. ASSUME Used(l)' PROVE (chain'.status = chain.status => Used(l)) /\ (~Used(l) => Usable(l))
  <2>1. PICK s \in Sales \ chain'.direct : Exists(s)' /\ sale'[s].listing = l /\ chain'.status[s] # "none"
    BY <1>2 DEF Used
  <2>2. Exists(s) /\ sale[s].listing = l /\ s \notin chain.direct
    BY <2>1 DEF ChainStep, Exists
  <2>3. chain.status[s] # "none" => Used(l)
    BY <2>2 DEF Used
  <2>4. chain.status[s] = "none" => Usable(l)
    <3>1. chain.status[s] = "none" => Usable(sale[s].listing)
      BY <2>1 DEF ChainStep
    <3> QED BY <2>2, <3>1
  <2>5. chain'.status = chain.status => chain.status[s] # "none"
    BY <2>1
  <2> QED BY <2>3, <2>4, <2>5
<1> QED BY <1>1, <1>2

LEMMA ChainStepKeeps ==
  ASSUME RecordsAreInOrder, ChainStep
  PROVE  Kept /\ UnknownIsUnfunded' /\ RevokedIsUnused' /\ DirectIsOrdinary'
<1>1. Kept
  <2>1. ASSUME NEW l \in Listings, ~Usable(l) PROVE ~(Usable(l)')
    <3>1. Used(l) => Used(l)'
      BY UsesStay
    <3>2. l \in chain.revoked => l \in chain'.revoked
      BY DEF ChainStep
    <3> QED BY <2>1, <3>1, <3>2 DEF Usable
  <2> QED BY <2>1 DEF Kept, ChainStep
<1>2. UnknownIsUnfunded'
  <2>1. ASSUME NEW s \in Sales, ~(Exists(s)') PROVE chain'.status[s] = "none"
    <3>1. ~Exists(s)
      BY <2>1 DEF Exists, ChainStep
    <3>2. chain.status[s] = "none"
      BY <3>1 DEF RecordsAreInOrder, UnknownIsUnfunded
    <3> QED BY <3>1, <3>2 DEF ChainStep
  <2> QED BY <2>1 DEF UnknownIsUnfunded
<1>3. RevokedIsUnused'
  <2>1. ASSUME NEW l \in chain'.revoked PROVE ~(Used(l)')
    <3>1. CASE l \in chain.revoked
      <4>1. ~Used(l) /\ ~Usable(l)
        BY <3>1 DEF RecordsAreInOrder, RevokedIsUnused, Usable
      <4> QED BY <4>1, UsesStay
    <3>2. CASE l \notin chain.revoked
      <4>1. Usable(l) /\ chain'.status = chain.status
        BY <2>1, <3>2 DEF ChainStep
      <4>2. ~Used(l)
        BY <4>1 DEF Usable
      <4> QED BY <4>1, <4>2, UsesStay
    <3> QED BY <3>1, <3>2
  <2> QED BY <2>1 DEF RevokedIsUnused
<1>4. DirectIsOrdinary'
  BY DEF RecordsAreInOrder, DirectIsOrdinary, ChainStep, Exists, Treasury
<1> QED BY <1>1, <1>2, <1>3, <1>4

LEMMA HoldingIsKept ==
  ASSUME RecordsAreInOrder, ChainStep, claims' = claims
  PROVE  AliveSalesHold'
<1>1. ASSUME NEW s \in Sales, Treasury(s)', Alive(s)' PROVE Holds(s)'
  <2>1. Exists(s) /\ Treasury(s) /\ sale'[s] = sale[s]
    BY <1>1 DEF Treasury, Exists, ChainStep
  <2>2. PICK l : l = sale[s].listing
    OBVIOUS
  <2>3. Alive(s)
    <3>1. CASE chain.status[s] # "none"
      BY <3>1 DEF Alive
    <3>2. CASE chain.status[s] = "none" /\ chain'.status[s] # "none"
      <4>1. s \notin chain'.direct
        BY <2>1 DEF ChainStep, RecordsAreInOrder, DirectIsOrdinary
      <4> QED BY <3>2, <4>1 DEF Alive, ChainStep
    <3>3. CASE chain'.status[s] = "none"
      <4>1. Usable(sale[s].listing)'
        BY <1>1, <3>3 DEF Alive
      <4>2. Usable(l)'
        BY <2>1, <2>2, <4>1 DEF Usable, Used
      <4>3. Usable(l)
        BY <4>2, UsesStay DEF Usable, ChainStep
      <4> QED BY <2>2, <4>3 DEF Alive
    <3> QED BY <3>1, <3>2, <3>3
  <2>4. Holds(s)
    BY <2>1, <2>3 DEF RecordsAreInOrder, AliveSalesHold
  <2> QED BY <2>1, <2>4 DEF Holds
<1> QED BY <1>1 DEF AliveSalesHold

LEMMA DocumentsAreKept ==
  ASSUME RecordsAreInOrder, Kept, jobs' = jobs, sale' = sale
  PROVE  DocumentsAreOver'
<1>1. ASSUME NEW s \in Sales, Exists(s)', jobs'[s].status = "complete" PROVE Over(s, jobs[s])'
  <2>1. Exists(s) /\ jobs[s].status = "complete"
    BY <1>1 DEF Exists
  <2>2. Over(s, jobs[s]) /\ RecordsTypeOK
    BY <2>1 DEF RecordsAreInOrder, DocumentsAreOver
  <2>3. PICK doc : doc = jobs[s]
    OBVIOUS
  <2>4. Over(s, doc)'
    BY <2>1, <2>2, <2>3, OverIsKept
  <2> QED BY <2>3, <2>4 DEF Over
<1> QED BY <1>1 DEF DocumentsAreOver

LEMMA RowsAreKept ==
  ASSUME RecordsAreInOrder, sale' = sale, journal' = journal
  PROVE  RowsAreOfSales'
BY DEF RecordsAreInOrder, RowsAreOfSales, Exists

\* A transaction of anybody, between two steps of the workers.
LEMMA TransactionKeeps ==
  ASSUME RecordsAreInOrder, ChainStep, UNCHANGED <<scenario, jobs, claims, era>>, journal' \in Seq(Row), RowsAreOfSales'
  PROVE  RecordsAreInOrder' /\ Kept
<1>1. Kept /\ UnknownIsUnfunded' /\ RevokedIsUnused' /\ DirectIsOrdinary'
  BY ChainStepKeeps
<1>2. AliveSalesHold' /\ DocumentsAreOver'
  BY <1>1, HoldingIsKept, DocumentsAreKept DEF ChainStep
<1>3. RecordsTypeOK'
  BY DEF RecordsAreInOrder, RecordsTypeOK, ChainStep
<1> QED BY <1>1, <1>2, <1>3 DEF RecordsAreInOrder

LEMMA ChainIs ==
  ASSUME RecordsTypeOK
  PROVE  /\ chain = [status |-> chain.status, due |-> chain.due, direct |-> chain.direct, revoked |-> chain.revoked,
                     owed |-> chain.owed]
         /\ chain.status \in [Sales -> Statuses] /\ chain.due \subseteq Sales /\ chain.direct \subseteq Sales
         /\ chain.revoked \subseteq Listings
         /\ chain.owed \subseteq Accounts
BY DEF RecordsTypeOK, Chain

LEMMA AccountsOf ==
  ASSUME RecordsTypeOK, NEW s \in Sales, Exists(s)
  PROVE  Seller(s) \in Accounts /\ Buyer(s) \in Accounts
BY OfSale DEF Seller, Buyer, Accounts

LEMMA BecomesSteps ==
  ASSUME RecordsTypeOK, NEW s \in Sales, Exists(s), NEW status \in Statuses \ {"none"}, NEW owed \in SUBSET Accounts,
         chain.status[s] \notin {"finalized", "refunded"}, chain.status[s] = "none" => Usable(sale[s].listing),
         sale' = sale, chain' = Becomes(s, status, owed)
  PROVE  ChainStep
<1>1. chain' = [status |-> [chain.status EXCEPT ![s] = status], due |-> chain.due \ {s}, direct |-> chain.direct,
                revoked |-> chain.revoked, owed |-> chain.owed \cup owed]
  BY ChainIs DEF Becomes
<1>2. /\ chain'.status \in [Sales -> Statuses] /\ chain'.status[s] = status
      /\ \A t \in Sales : t # s => chain'.status[t] = chain.status[t]
  BY <1>1, ChainIs
<1>3. chain' \in Chain /\ chain'.revoked = chain.revoked /\ chain'.direct = chain.direct
  BY <1>1, <1>2, ChainIs DEF Chain
<1> QED BY <1>2, <1>3 DEF ChainStep

\* An offer that needs no authorization.
LEMMA CreateOfferSteps ==
  ASSUME RecordsTypeOK, NEW s \in Sales, CreateOffer(s)
  PROVE  ChainStep
<1>1. /\ Exists(s) /\ ~Treasury(s) /\ chain.status[s] = "none" /\ sale' = sale
      /\ chain' = [chain EXCEPT !.status[s] = "offered", !.direct = @ \cup {s}]
  BY DEF CreateOffer, OnChain, Treasury
<1>2. chain' = [status |-> [chain.status EXCEPT ![s] = "offered"], due |-> chain.due, direct |-> chain.direct \cup {s},
                revoked |-> chain.revoked, owed |-> chain.owed]
  BY <1>1, ChainIs
<1>3. /\ chain'.status \in [Sales -> Statuses] /\ chain'.status[s] = "offered"
      /\ \A t \in Sales : t # s => chain'.status[t] = chain.status[t]
  BY <1>2, ChainIs DEF Statuses
<1>4. chain' \in Chain /\ chain'.revoked = chain.revoked /\ chain'.direct = chain.direct \cup {s}
  BY <1>2, <1>3, ChainIs DEF Chain
<1> QED BY <1>1, <1>3, <1>4 DEF ChainStep

LEMMA SameStatusSteps ==
  ASSUME RecordsTypeOK, NEW due \in SUBSET Sales, NEW owed \in SUBSET Accounts, NEW revoked \in SUBSET Listings,
         \A l \in revoked \ chain.revoked : Usable(l), chain.revoked \subseteq revoked,
         sale' = sale,
         chain' = [status |-> chain.status, due |-> due, direct |-> chain.direct, revoked |-> revoked, owed |-> owed]
  PROVE  ChainStep
<1>1. chain' \in Chain /\ chain'.status = chain.status /\ chain'.revoked = revoked /\ chain'.direct = chain.direct
  BY ChainIs DEF Chain
<1> QED BY <1>1 DEF ChainStep

LEMMA ExecutionSteps ==
  ASSUME RecordsTypeOK, NEW op \in Op, Exists(op.sale), Executable(op), sale' = sale, chain' = After(op)
  PROVE  ChainStep
<1>1. PICK s \in Sales : s = op.sale /\ Exists(s)
  BY DEF Op
<1>2. Seller(s) \in Accounts /\ Buyer(s) \in Accounts
  BY <1>1, AccountsOf
<1>3. CASE op.name = "purchase"
  <2>1. chain.status[s] = "none" /\ Usable(sale[s].listing) /\ chain' = Becomes(s, "accepted", {})
    BY <1>1, <1>3 DEF Executable, After
  <2> QED BY <1>1, <2>1, BecomesSteps DEF Statuses
<1>4. CASE op.name = "deliver"
  <2>1. chain.status[s] = "accepted" /\ chain' = Becomes(s, "delivered", {})
    BY <1>1, <1>4 DEF Executable, After
  <2> QED BY <1>1, <2>1, BecomesSteps DEF Statuses
<1>5. CASE op.name \in {"expire", "refund"}
  <2>1. chain.status[s] \in {"offered", "accepted"} /\ chain' = Becomes(s, "refunded", {Buyer(s)})
    BY <1>1, <1>5 DEF Executable, After
  <2>2. {Buyer(s)} \in SUBSET Accounts
    BY <1>2
  <2> QED BY <1>1, <2>1, <2>2, BecomesSteps DEF Statuses
<1>6. CASE op.name = "uphold"
  <2>1. chain.status[s] = "disputed" /\ chain' = Becomes(s, "upheld", {})
    BY <1>1, <1>6 DEF Executable, After
  <2> QED BY <1>1, <2>1, BecomesSteps DEF Statuses
<1>7. CASE op.name = "finalize"
  <2>1. chain.status[s] \in Delivered /\ chain' = Becomes(s, "finalized", {Seller(s)})
    BY <1>1, <1>7 DEF Executable, After
  <2>2. {Seller(s)} \in SUBSET Accounts
    BY <1>2
  <2> QED BY <1>1, <2>1, <2>2, BecomesSteps DEF Statuses, Delivered
<1>8. CASE op.name = "payBuyer"
  <2>1. chain' = [chain EXCEPT !.owed = @ \ {Buyer(s)}]
    BY <1>1, <1>8 DEF After
  <2>2. chain' = [status |-> chain.status, due |-> chain.due, direct |-> chain.direct, revoked |-> chain.revoked,
                  owed |-> chain.owed \ {Buyer(s)}]
    BY <2>1, ChainIs
  <2>3. chain.owed \ {Buyer(s)} \in SUBSET Accounts
    BY ChainIs
  <2> QED BY <2>2, <2>3, ChainIs, SameStatusSteps
<1>9. CASE op.name = "paySeller"
  <2>1. chain' = [chain EXCEPT !.owed = @ \ {Seller(s)}]
    BY <1>1, <1>9 DEF After
  <2>2. chain' = [status |-> chain.status, due |-> chain.due, direct |-> chain.direct, revoked |-> chain.revoked,
                  owed |-> chain.owed \ {Seller(s)}]
    BY <2>1, ChainIs
  <2>3. chain.owed \ {Seller(s)} \in SUBSET Accounts
    BY ChainIs
  <2> QED BY <2>2, <2>3, ChainIs, SameStatusSteps
<1> QED BY <1>3, <1>4, <1>5, <1>6, <1>7, <1>8, <1>9 DEF Op, Names

LEMMA NothingSteps ==
  ASSUME RecordsTypeOK, sale' = sale, chain' = chain
  PROVE  ChainStep
BY DEF ChainStep, RecordsTypeOK

(***************************************************************************)
(* What buyers, sellers, jurors, time and the chain do.                        *)
(***************************************************************************)
LEMMA OnChainKeeps ==
  ASSUME RecordsAreInOrder, WorkersAreSound, ChainStep, OnChain
  PROVE  RecordsAreInOrder' /\ WorkersAreSound'
<1>1. RowsAreOfSales' /\ journal' \in Seq(Row)
  BY RowsAreKept DEF OnChain, RecordsAreInOrder, RecordsTypeOK
<1>2. RecordsAreInOrder' /\ Kept
  BY <1>1, TransactionKeeps DEF OnChain
<1>3. WorkersAreSound'
  BY <1>2, WorkersStay DEF OnChain, RecordsAreInOrder
<1> QED BY <1>2, <1>3

LEMMA UsersOnChainKeep ==
  ASSUME RecordsAreInOrder, WorkersAreSound,
         \/ \E s \in Sales : Fund(s) \/ CreateOffer(s) \/ AcceptOffer(s) \/ CancelOffer(s)
         \/ \E s \in Sales : PassDeadline(s) \/ Dispute(s) \/ Vote(s)
         \/ \E l \in Listings : Revoke(l)
         \/ \E op \in Op : ByHand(op)
  PROVE  RecordsAreInOrder' /\ WorkersAreSound'
<1>1. RecordsTypeOK
  BY DEF RecordsAreInOrder
<1>2. ASSUME NEW s \in Sales, chain.status[s] # "none" PROVE Exists(s)
  BY <1>2 DEF RecordsAreInOrder, UnknownIsUnfunded
<1>3. ASSUME NEW s \in Sales, Fund(s) PROVE ChainStep /\ OnChain
  <2>1. PICK op : op = [name |-> "purchase", sale |-> s]
    OBVIOUS
  <2>2. op \in Op /\ op.sale = s
    BY <2>1 DEF Op, Names
  <2>3. Exists(op.sale) /\ Executable(op) /\ chain' = After(op) /\ OnChain
    BY <1>3, <2>1, <2>2 DEF Fund
  <2> QED BY <1>1, <2>2, <2>3, ExecutionSteps DEF OnChain
<1>4. ASSUME NEW s \in Sales, PassDeadline(s) PROVE ChainStep /\ OnChain
  <2>1. OnChain /\ chain' = [chain EXCEPT !.due = @ \cup {s}]
    BY <1>4 DEF PassDeadline
  <2>2. chain' = [status |-> chain.status, due |-> chain.due \cup {s}, direct |-> chain.direct, revoked |-> chain.revoked,
                  owed |-> chain.owed]
    BY <1>1, <2>1, ChainIs
  <2>3. chain.due \cup {s} \in SUBSET Sales
    BY <1>1, ChainIs
  <2> QED BY <1>1, <2>1, <2>2, <2>3, ChainIs, SameStatusSteps DEF OnChain
<1>5. ASSUME NEW s \in Sales, Dispute(s) PROVE ChainStep /\ OnChain
  <2>1. OnChain /\ chain.status[s] = "delivered" /\ chain' = Becomes(s, "disputed", {})
    BY <1>5 DEF Dispute
  <2> QED BY <1>1, <1>2, <2>1, BecomesSteps DEF OnChain, Statuses
<1>6. ASSUME NEW s \in Sales, Vote(s) PROVE ChainStep /\ OnChain
  <2>1. OnChain /\ chain.status[s] = "disputed"
    BY <1>6 DEF Vote
  <2>2. Exists(s)
    BY <1>2, <2>1
  <2>3. CASE chain' = Becomes(s, "upheld", {})
    BY <1>1, <2>1, <2>2, <2>3, BecomesSteps DEF OnChain, Statuses
  <2>4. CASE chain' = Becomes(s, "refunded", {Buyer(s)})
    <3>1. {Buyer(s)} \in SUBSET Accounts
      BY <1>1, <2>2, AccountsOf
    <3> QED BY <1>1, <2>1, <2>2, <2>4, <3>1, BecomesSteps DEF OnChain, Statuses
  <2> QED BY <1>6, <2>3, <2>4 DEF Vote
<1>7. ASSUME NEW l \in Listings, Revoke(l) PROVE ChainStep /\ OnChain
  <2>1. OnChain /\ Usable(l) /\ chain' = [chain EXCEPT !.revoked = @ \cup {l}]
    BY <1>7 DEF Revoke
  <2>2. chain' = [status |-> chain.status, due |-> chain.due, direct |-> chain.direct, revoked |-> chain.revoked \cup {l},
                  owed |-> chain.owed]
    BY <1>1, <2>1, ChainIs
  <2>3. chain.revoked \cup {l} \in SUBSET Listings /\ \A k \in (chain.revoked \cup {l}) \ chain.revoked : Usable(k)
    BY <1>1, <2>1, ChainIs
  <2> QED BY <1>1, <2>1, <2>2, <2>3, ChainIs, SameStatusSteps DEF OnChain
<1>8. ASSUME NEW op \in Op, ByHand(op) PROVE ChainStep /\ OnChain
  BY <1>1, <1>8, ExecutionSteps DEF ByHand, OnChain
<1>9. ASSUME NEW s \in Sales, CreateOffer(s) \/ AcceptOffer(s) \/ CancelOffer(s) PROVE ChainStep /\ OnChain
  <2>1. CASE CreateOffer(s)
    BY <1>1, <2>1, CreateOfferSteps DEF CreateOffer
  <2>2. CASE AcceptOffer(s) \/ CancelOffer(s)
    <3>1. OnChain /\ chain.status[s] = "offered" /\ (chain' = Becomes(s, "accepted", {}) \/ chain' = Becomes(s, "refunded", {Buyer(s)}))
      BY <2>2 DEF AcceptOffer, CancelOffer
    <3>2. Exists(s)
      BY <1>2, <3>1
    <3>3. {Buyer(s)} \in SUBSET Accounts
      BY <1>1, <3>2, AccountsOf
    <3>4. CASE chain' = Becomes(s, "accepted", {})
      BY <1>1, <3>1, <3>2, <3>4, BecomesSteps DEF OnChain, Statuses
    <3>5. CASE chain' = Becomes(s, "refunded", {Buyer(s)})
      BY <1>1, <3>1, <3>2, <3>3, <3>5, BecomesSteps DEF OnChain, Statuses
    <3> QED BY <3>1, <3>4, <3>5
  <2> QED BY <1>9, <2>1, <2>2
<1>10. ChainStep /\ OnChain
  BY <1>3, <1>4, <1>5, <1>6, <1>7, <1>8, <1>9
<1> QED BY <1>10, OnChainKeeps

LEMMA PrepareKeeps ==
  ASSUME RecordsAreInOrder, WorkersAreSound, NEW s \in Sales, NEW kind \in Kinds, NEW l \in Listings, Prepare(s, kind, l)
  PROVE  RecordsAreInOrder' /\ WorkersAreSound'
<1>1. RecordsTypeOK
  BY DEF RecordsAreInOrder
<1>2. /\ ~Exists(s) /\ Usable(l)
      /\ kind # "ordinary" => Free(ContentOf[l])
      /\ sale' = [sale EXCEPT ![s] = [kind |-> kind, listing |-> l]]
      /\ jobs' = [jobs EXCEPT ![s] = NewJob(kind)]
      /\ claims' = IF kind = "ordinary" THEN claims
                   ELSE [claims EXCEPT ![ContentOf[l]] = [sale |-> s, status |-> "queued"]]
      /\ UNCHANGED <<scenario, cursor, chain, fork, era, journal, at>>
  BY DEF Prepare
<1>3. chain.status[s] = "none"
  BY <1>2 DEF RecordsAreInOrder, UnknownIsUnfunded
<1>4. PICK deal \in Sale : deal = [kind |-> kind, listing |-> l]
  BY DEF Sale
<1>5. sale' \in [Sales -> Sale \cup {NoSale}] /\ sale'[s] = deal /\ deal.kind = kind /\ deal.listing = l
  BY <1>1, <1>2, <1>4 DEF RecordsTypeOK
<1>6. \A t \in Sales : t # s => sale'[t] = sale[t]
  BY <1>1, <1>2 DEF RecordsTypeOK
<1>7. deal # NoSale
  BY <1>5 DEF NoSale, Kinds
<1>8. \A t \in Sales : /\ Exists(t) => t # s /\ sale'[t] = sale[t]
                       /\ Exists(t)' <=> t = s \/ Exists(t)
  BY <1>2, <1>5, <1>6, <1>7 DEF Exists
<1>9. ASSUME NEW k PROVE Used(k)' <=> Used(k)
  <2>1. \A t \in Sales : (Exists(t)' /\ sale'[t].listing = k /\ chain'.status[t] # "none")
                         <=> (Exists(t) /\ sale[t].listing = k /\ chain.status[t] # "none")
    BY <1>2, <1>3, <1>6, <1>8
  <2>2. chain' = chain
    BY <1>2
  <2> QED BY <2>1, <2>2 DEF Used
<1>10. Kept
  <2>1. \A k \in Listings : ~Usable(k) => ~(Usable(k)')
    BY <1>2, <1>9 DEF Usable
  <2> QED BY <1>2, <1>8, <2>1 DEF Kept
<1>11. /\ NewJob(kind) \in Doc /\ NewJob(kind).status # "complete"
  BY DEF NewJob, Doc, JobStatuses, NoBlock
<1>12. jobs' \in [Sales -> Doc] /\ jobs'[s].status # "complete" /\ \A t \in Sales : t # s => jobs'[t] = jobs[t]
  BY <1>1, <1>2, <1>11 DEF RecordsTypeOK
<1>13. ContentOf[l] \in Contents
  BY DEF Contents
<1>14. PICK held \in ContentClaim : held = [sale |-> s, status |-> "queued"]
  BY DEF ContentClaim
<1>15. /\ claims' \in [Contents -> ContentClaim \cup {NoClaim}]
       /\ kind # "ordinary" => claims'[ContentOf[l]] = held
       /\ \A c \in Contents : kind = "ordinary" \/ c # ContentOf[l] => claims'[c] = claims[c]
  BY <1>1, <1>2, <1>13, <1>14 DEF RecordsTypeOK
<1>16. RecordsTypeOK'
  BY <1>1, <1>2, <1>5, <1>12, <1>15 DEF RecordsTypeOK
<1>17. UnknownIsUnfunded' /\ RevokedIsUnused' /\ DirectIsOrdinary'
  <2>1. UnknownIsUnfunded'
    BY <1>2, <1>8 DEF RecordsAreInOrder, UnknownIsUnfunded
  <2>2. RevokedIsUnused'
    BY <1>2, <1>9 DEF RecordsAreInOrder, RevokedIsUnused
  <2>3. DirectIsOrdinary'
    BY <1>1, <1>2, <1>8, ChainIs DEF RecordsAreInOrder, DirectIsOrdinary, Treasury
  <2> QED BY <2>1, <2>2, <2>3
<1>18. DocumentsAreOver'
  <2>1. ASSUME NEW t \in Sales, Exists(t)', jobs'[t].status = "complete" PROVE Over(t, jobs[t])'
    <3>1. PICK doc : doc = jobs'[t]
      OBVIOUS
    <3>2. Exists(t) /\ doc = jobs[t] /\ Over(t, doc)
      BY <1>8, <1>12, <2>1, <3>1 DEF RecordsAreInOrder, DocumentsAreOver
    <3>3. Over(t, doc)'
      BY <1>1, <1>10, <3>2, OverIsKept
    <3> QED BY <3>1, <3>3 DEF Over
  <2> QED BY <2>1 DEF DocumentsAreOver
<1>19. RowsAreOfSales'
  <2>1. ASSUME NEW r \in DOMAIN journal PROVE journal[r] \in Row /\ Exists(journal[r].op.sale)'
    <3>1. PICK t \in Sales : t = journal[r].op.sale /\ Exists(t) /\ journal[r] \in Row
      BY DEF RecordsAreInOrder, RowsAreOfSales, Row, Op
    <3>2. Exists(t)'
      BY <1>8, <3>1
    <3> QED BY <1>2, <3>1, <3>2 DEF Exists
  <2> QED BY <1>2, <2>1 DEF RowsAreOfSales, Exists
<1>20. AliveSalesHold'
  <2>1. ASSUME NEW t \in Sales, Treasury(t)', Alive(t)', t # s PROVE Holds(t)'
    <3>1. Treasury(t) /\ Exists(t) /\ sale'[t] = sale[t]
      BY <1>6, <1>8, <2>1 DEF Treasury, Exists
    <3>2. PICK k \in Listings : k = sale[t].listing
      BY <1>1, <3>1, OfSale
    <3>3. Alive(t)
      <4>1. Usable(sale[t].listing)' => Usable(k)'
        BY <3>1, <3>2 DEF Usable, Used
      <4>2. Usable(k)' => Usable(k)
        BY <1>2, <1>9 DEF Usable
      <4> QED BY <1>2, <2>1, <3>2, <4>1, <4>2 DEF Alive
    <3>4. claims[ContentOf[k]] \in [sale : {t}, status : {"queued", "committed"}] /\ ContentOf[k] \in Contents
      BY <1>1, <3>1, <3>2, <3>3, OfSale DEF RecordsAreInOrder, AliveSalesHold, Holds
    <3>5. claims'[ContentOf[k]] = claims[ContentOf[k]]
      <4>1. ~Free(ContentOf[k])
        BY <3>4 DEF Free
      <4> QED BY <1>2, <1>15, <3>4, <4>1
    <3> QED BY <3>1, <3>2, <3>4, <3>5 DEF Holds
  <2>2. ASSUME Treasury(s)' PROVE Holds(s)'
    <3>1. kind # "ordinary"
      BY <1>5, <2>2 DEF Treasury
    <3>2. claims'[ContentOf[l]] \in [sale : {s}, status : {"queued", "committed"}]
      BY <1>14, <1>15, <3>1
    <3> QED BY <1>5, <3>2 DEF Holds
  <2> QED BY <2>1, <2>2 DEF AliveSalesHold
<1>21. RecordsAreInOrder'
  BY <1>16, <1>17, <1>18, <1>19, <1>20 DEF RecordsAreInOrder
<1> QED BY <1>1, <1>2, <1>10, <1>21, WorkersStay

(***************************************************************************)
(* Settling a row of the journal.                                            *)
(***************************************************************************)
LEMMA FirstIsUnsettled ==
  ASSUME RecordsTypeOK, Unsettled # {}
  PROVE  First(Unsettled) \in Unsettled
<1>1. Unsettled \in SUBSET Nat
  BY LenProperties DEF Unsettled, RecordsTypeOK
<1>2. \E r \in Unsettled : \A q \in Unsettled : r <= q
  BY <1>1, LeastOf
<1> HIDE DEF Unsettled
<1> QED BY <1>2 DEF First

LEMMA RowSettledKeeps ==
  ASSUME RecordsAreInOrder, NEW r \in Unsettled, SettleRow(r), UNCHANGED <<scenario, sale, jobs, claims, era>>
  PROVE  RecordsAreInOrder' /\ Kept
<1>1. RecordsTypeOK
  BY DEF RecordsAreInOrder
<1>2. r \in DOMAIN journal /\ r \in 1 .. Len(journal)
  BY <1>1, LenProperties DEF Unsettled, RecordsTypeOK
<1>3. PICK row \in Row : row = journal[r] /\ Exists(row.op.sale)
  BY <1>2 DEF RecordsAreInOrder, RowsAreOfSales
<1>4. row.op \in Op
  BY DEF Row
<1>5. ChainStep
  <2>1. CASE Executable(row.op)
    <3>1. chain' = After(row.op)
      BY <1>3, <2>1 DEF SettleRow
    <3> QED BY <1>1, <1>3, <1>4, <2>1, <3>1, ExecutionSteps
  <2>2. CASE ~Executable(row.op)
    <3>1. chain' = chain
      BY <1>3, <2>2 DEF SettleRow
    <3> QED BY <1>1, <3>1, NothingSteps
  <2> QED BY <2>1, <2>2
<1>6. PICK result \in {"done", "reverted"} : result = IF Executable(row.op) THEN "done" ELSE "reverted"
  OBVIOUS
<1>7. journal' = [journal EXCEPT ![r].result = result, ![r].block = era]
  BY <1>3, <1>6 DEF SettleRow
<1>8. PICK new : new = [op |-> row.op, result |-> result, block |-> era]
  OBVIOUS
<1>9. new \in Row /\ new.op = row.op
  BY <1>1, <1>4, <1>8 DEF Row, RecordsTypeOK, NoBlock
<1>10. journal' = [journal EXCEPT ![r] = new]
  <2>1. row = [op |-> row.op, result |-> row.result, block |-> row.block]
    BY DEF Row
  <2>2. PICK half : half = [row EXCEPT !.result = result]
    OBVIOUS
  <2>3. half = [op |-> row.op, result |-> result, block |-> row.block]
    BY <2>1, <2>2
  <2>4. [half EXCEPT !.block = era] = new
    BY <1>8, <2>3
  <2>5. [journal EXCEPT ![r].result = result] = [journal EXCEPT ![r] = half]
    BY <1>2, <1>3, <2>2
  <2>6. PICK rows : rows = [journal EXCEPT ![r] = half]
    OBVIOUS
  <2>7. rows[r] = half
    BY <1>2, <2>6
  <2>8. [rows EXCEPT ![r].block = era] = [rows EXCEPT ![r] = new]
    BY <2>4, <2>7
  <2>9. journal' = [rows EXCEPT ![r].block = era]
    BY <1>7, <2>5, <2>6
  <2>10. [rows EXCEPT ![r] = new] = [journal EXCEPT ![r] = new]
    BY <2>6
  <2> QED BY <2>8, <2>9, <2>10
<1>11. /\ journal' \in Seq(Row) /\ Len(journal') = Len(journal)
       /\ \A i \in 1 .. Len(journal) : journal'[i] = IF i = r THEN new ELSE journal[i]
  BY <1>1, <1>2, <1>9, <1>10, ExceptSeq DEF RecordsTypeOK
<1>12. DOMAIN journal = 1 .. Len(journal) /\ DOMAIN journal' = 1 .. Len(journal)
  BY <1>1, <1>11, LenProperties DEF RecordsTypeOK
<1>13. RowsAreOfSales'
  <2>1. ASSUME NEW i \in 1 .. Len(journal) PROVE journal'[i] \in Row /\ Exists(journal[i].op.sale)' /\ journal'[i].op = journal[i].op
    <3>1. journal'[i].op = journal[i].op
      BY <1>3, <1>9, <1>11
    <3>2. Exists(journal[i].op.sale) /\ journal[i] \in Row
      BY <1>12 DEF RecordsAreInOrder, RowsAreOfSales
    <3>3. journal'[i] \in Row
      BY <1>9, <1>11, <3>2
    <3> QED BY <3>1, <3>2, <3>3 DEF Exists
  <2> QED BY <1>12, <2>1 DEF RowsAreOfSales, Exists
<1> QED BY <1>5, <1>11, <1>13, TransactionKeeps

(***************************************************************************)
(* Where a worker goes.                                                      *)
(***************************************************************************)
Built(pc, todo, offer, block, void, op, next, stage) ==
  [pc |-> pc, todo |-> todo, offer |-> offer, block |-> block, void |-> void, op |-> op, next |-> next, stage |-> stage]
Unread == [status |-> "none", due |-> FALSE]

LEMMA BuiltIsSound ==
  ASSUME NEW pc \in Pcs, NEW todo, JobsAreSound(todo), NEW offer \in Offer, NEW block \in 0 .. NoBlock,
         NEW void \in {"no", "used", "revoked"}, NEW op \in Op \cup {NoOp}, NEW next \in Pcs, NEW stage \in 1 .. 4,
         pc \notin Resting => AtAJob(Built(pc, todo, offer, block, void, op, next, stage))
  PROVE  PlaceIsSound(Built(pc, todo, offer, block, void, op, next, stage))
<1> DEFINE p == Built(pc, todo, offer, block, void, op, next, stage)
<1>1. p \in Place /\ p.pc = pc /\ p.todo = todo
  BY DEF Built, Place, JobsAreSound
<1> HIDE DEF p
<1>2. pc \notin Resting => AtAJob(p)
  BY DEF p
<1>3. PlaceIsSound(p)
  BY <1>1, <1>2 DEF PlaceIsSound
<1> QED BY <1>3 DEF p

LEMMA IdleIs == Idle = Built("idle", <<>>, Unread, NoBlock, "no", NoOp, "idle", 1)
BY Zenon DEF Idle, Built, Unread
LEMMA GoIs == ASSUME NEW p, NEW pc PROVE Go(p, pc) = Built(pc, p.todo, Unread, NoBlock, "no", NoOp, "idle", 1)
<1>1. PICK i : i = Idle
  OBVIOUS
<1>2. PICK q : q = [i EXCEPT !.pc = pc]
  OBVIOUS
<1>3. q = Built(pc, <<>>, Unread, NoBlock, "no", NoOp, "idle", 1)
  BY <1>1, <1>2, IdleIs DEF Built
<1>4. [q EXCEPT !.todo = p.todo] = Built(pc, p.todo, Unread, NoBlock, "no", NoOp, "idle", 1)
  BY <1>3 DEF Built
<1>5. Go(p, pc) = [i EXCEPT !.pc = pc, !.todo = p.todo]
  BY <1>1 DEF Go
<1>6. [i EXCEPT !.pc = pc, !.todo = p.todo] = [q EXCEPT !.todo = p.todo]
  BY <1>2
<1> QED BY <1>4, <1>5, <1>6

LEMMA IdleIsSound ==
  ASSUME RecordsTypeOK, NEW pc \in Resting
  PROVE  PlaceIsSound([Idle EXCEPT !.pc = pc])
<1>1. [Idle EXCEPT !.pc = pc] = Built(pc, <<>>, Unread, NoBlock, "no", NoOp, "idle", 1)
  BY IdleIs DEF Built
<1>2. Unread \in Offer /\ NoOp \in Op \cup {NoOp} /\ pc \in Pcs /\ "idle" \in Pcs /\ NoBlock \in 0 .. NoBlock /\ 1 \in 1 .. 4
  BY DEF Unread, Offer, Statuses, Pcs, Resting, NoBlock
<1>3. JobsAreSound(<<>>)
  <2>1. <<>> \in Seq(Job) /\ Len(<<>>) = 0
    BY EmptySeq
  <2>2. PICK none \in Seq(Job) : none = <<>> /\ Len(none) = 0
    BY <2>1
  <2>3. JobsAreSound(none)
    BY <2>2 DEF JobsAreSound
  <2> QED BY <2>2, <2>3
<1>4. PlaceIsSound(Built(pc, <<>>, Unread, NoBlock, "no", NoOp, "idle", 1))
  <2>1. "no" \in {"no", "used", "revoked"}
    OBVIOUS
  <2> QED BY <1>2, <1>3, <2>1, BuiltIsSound, Zenon
<1> QED BY <1>1, <1>4

\* On to the next step, with nothing read.
LEMMA GoIsSound ==
  ASSUME NEW p, JobsAreSound(p.todo), p.todo # <<>>, NEW pc \in Pcs \ {"funded", "recheck", "call"}, NEW stage \in 1 .. 4,
         pc = "sold" => chain.status[Head(p.todo).sale] = "finalized"
  PROVE  PlaceIsSound([Go(p, pc) EXCEPT !.stage = stage]) /\ PlaceIsSound(Go(p, pc))
<1>1. /\ Go(p, pc) = Built(pc, p.todo, Unread, NoBlock, "no", NoOp, "idle", 1)
      /\ [Go(p, pc) EXCEPT !.stage = stage] = Built(pc, p.todo, Unread, NoBlock, "no", NoOp, "idle", stage)
  BY GoIs DEF Built
<1>2. Unread \in Offer /\ "idle" \in Pcs /\ NoBlock \in 0 .. NoBlock /\ 1 \in 1 .. 4
  BY DEF Unread, Offer, Statuses, Pcs, NoBlock
<1>3. ASSUME NEW n \in 1 .. 4 PROVE PlaceIsSound(Built(pc, p.todo, Unread, NoBlock, "no", NoOp, "idle", n))
  <2>1. AtAJob(Built(pc, p.todo, Unread, NoBlock, "no", NoOp, "idle", n))
    BY DEF AtAJob, ReadsStand, Built, Unread
  <2> QED BY <1>2, <2>1, BuiltIsSound
<1> QED BY <1>1, <1>2, <1>3

\* With the offer as it was read, from a canonical block.
LEMMA SawIsSound ==
  ASSUME RecordsTypeOK, NEW p, JobsAreSound(p.todo), p.todo # <<>>, NEW pc \in {"funded", "save"}, NEW o \in Offer,
         o.status = "refunded" => chain.status[Head(p.todo).sale] = "refunded",
         pc = "funded" => chain.status[Head(p.todo).sale] # "none"
  PROVE  PlaceIsSound(Saw(p, pc, o))
<1>1. Saw(p, pc, o) = Built(pc, p.todo, o, era, "no", NoOp, "idle", 1)
  <2>1. PICK g : g = Go(p, pc)
    OBVIOUS
  <2>2. PICK q : q = [g EXCEPT !.offer = o]
    OBVIOUS
  <2>3. q = Built(pc, p.todo, o, NoBlock, "no", NoOp, "idle", 1)
    BY <2>1, <2>2, GoIs DEF Built
  <2>4. [q EXCEPT !.block = era] = Built(pc, p.todo, o, era, "no", NoOp, "idle", 1)
    BY <2>3 DEF Built
  <2>5. Saw(p, pc, o) = [g EXCEPT !.offer = o, !.block = era]
    BY <2>1 DEF Saw
  <2>6. [g EXCEPT !.offer = o, !.block = era] = [q EXCEPT !.block = era]
    BY <2>2
  <2> QED BY <2>4, <2>5, <2>6
<1>2. "idle" \in Pcs /\ era \in 0 .. NoBlock /\ 1 \in 1 .. 4 /\ pc \in Pcs
  BY DEF Pcs, NoBlock, RecordsTypeOK
<1>3. AtAJob(Built(pc, p.todo, o, era, "no", NoOp, "idle", 1))
  BY DEF AtAJob, ReadsStand, Built
<1> QED BY <1>1, <1>2, <1>3, BuiltIsSound

\* To a transaction, and where to go after it.
LEMMA CallIsSound ==
  ASSUME NEW p, JobsAreSound(p.todo), p.todo # <<>>, NEW name \in Names, NEW s \in Sales, s = Head(p.todo).sale,
         NEW next \in Continues, NEW stage \in 1 .. 4, next = "sold" => chain.status[s] = "finalized"
  PROVE  PlaceIsSound(Call(p, [name |-> name, sale |-> s], next, stage))
<1>1. PICK op \in Op : op = [name |-> name, sale |-> s]
  BY DEF Op
<1>2. Call(p, op, next, stage) = Built("call", p.todo, Unread, NoBlock, "no", op, next, stage)
  <2>1. PICK g : g = Go(p, "call")
    OBVIOUS
  <2>2. PICK q : q = [g EXCEPT !.op = op]
    OBVIOUS
  <2>3. q = Built("call", p.todo, Unread, NoBlock, "no", op, "idle", 1)
    BY <2>1, <2>2, GoIs DEF Built
  <2>4. PICK h : h = [q EXCEPT !.next = next]
    OBVIOUS
  <2>5. h = Built("call", p.todo, Unread, NoBlock, "no", op, next, 1)
    BY <2>3, <2>4 DEF Built
  <2>6. [h EXCEPT !.stage = stage] = Built("call", p.todo, Unread, NoBlock, "no", op, next, stage)
    BY <2>5 DEF Built
  <2>7. Call(p, op, next, stage) = [g EXCEPT !.op = op, !.next = next, !.stage = stage]
    BY <2>1 DEF Call
  <2>8. [g EXCEPT !.op = op, !.next = next, !.stage = stage] = [h EXCEPT !.stage = stage]
    BY <2>2, <2>4
  <2> QED BY <2>6, <2>7, <2>8
<1>3. Unread \in Offer /\ "call" \in Pcs /\ next \in Pcs /\ NoBlock \in 0 .. NoBlock
  BY DEF Unread, Offer, Statuses, Pcs, Continues, NoBlock
<1>4. op.sale = s
  BY <1>1
<1>5. AtAJob(Built("call", p.todo, Unread, NoBlock, "no", op, next, stage))
  BY <1>4 DEF AtAJob, ReadsStand, Built, Unread
<1>6. PlaceIsSound(Built("call", p.todo, Unread, NoBlock, "no", op, next, stage))
  BY <1>3, <1>5, BuiltIsSound
<1> QED BY <1>1, <1>2, <1>6

\* With a new copy of the document.
LEMMA WithDocIsSound ==
  ASSUME NEW p, p \in Place, JobsAreSound(p.todo), p.todo # <<>>, NEW doc \in Doc,
         doc.status = "complete" => Over(Head(p.todo).sale, doc)
  PROVE  /\ JobsAreSound(WithDoc(p, doc).todo) /\ WithDoc(p, doc).todo # <<>>
         /\ Head(WithDoc(p, doc).todo).sale = Head(p.todo).sale
<1>1. PICK job \in Job : job = [sale |-> Head(p.todo).sale, doc |-> doc]
  BY HeadIsSound DEF Job
<1>2. JobIsSound(job)
  BY <1>1, HeadIsSound DEF JobIsSound
<1>3. /\ p.todo \in Seq(Job) /\ Tail(p.todo) \in Seq(Job) /\ Len(Tail(p.todo)) = Len(p.todo) - 1 /\ Len(p.todo) \in Nat \ {0}
      /\ \A i \in 1 .. Len(Tail(p.todo)) : Tail(p.todo)[i] = p.todo[i + 1]
  BY HeadTailProperties, EmptySeq DEF JobsAreSound
<1>4. WithDoc(p, doc).todo = <<job>> \o Tail(p.todo)
  <2>1. [Head(p.todo) EXCEPT !.doc = doc] = job
    BY <1>1, HeadIsSound DEF Job
  <2>2. WithDoc(p, doc).todo = <<[Head(p.todo) EXCEPT !.doc = doc]>> \o Tail(p.todo)
    BY DEF WithDoc, Place
  <2> QED BY <2>1, <2>2
<1> DEFINE q == <<job>> \o Tail(p.todo)
<1>5. <<job>> \in Seq(Job) /\ Len(<<job>>) = 1 /\ <<job>>[1] = job
  OBVIOUS
<1>6. /\ q \in Seq(Job) /\ Len(q) = 1 + Len(Tail(p.todo))
      /\ \A i \in 1 .. 1 + Len(Tail(p.todo)) : q[i] = IF i <= 1 THEN <<job>>[i] ELSE Tail(p.todo)[i - 1]
  BY <1>3, <1>5, ConcatProperties
<1> HIDE DEF q
<1>7. q # <<>> /\ Head(q) = job
  BY <1>3, <1>5, <1>6, EmptySeq
<1>8. ASSUME NEW i \in 1 .. Len(q) PROVE JobIsSound(q[i])
  <2>1. CASE i = 1
    BY <1>2, <1>3, <1>5, <1>6, <2>1
  <2>2. CASE i # 1
    <3>1. i - 1 \in 1 .. Len(Tail(p.todo)) /\ i \in 1 .. Len(p.todo) /\ i - 1 + 1 = i
      BY <1>3, <1>6, <2>2
    <3>2. q[i] = p.todo[i]
      BY <1>3, <1>6, <2>2, <3>1
    <3> QED BY <3>1, <3>2 DEF JobsAreSound
  <2> QED BY <2>1, <2>2
<1> QED BY <1>1, <1>4, <1>6, <1>7, <1>8 DEF q, JobsAreSound

\* The next job of a list, or none.
LEMMA NextJobIsSound ==
  ASSUME RecordsTypeOK, NEW p, JobsAreSound(Tail(p.todo))
  PROVE  PlaceIsSound(NextJob(p))
<1>1. PICK todo : todo = Tail(p.todo) /\ JobsAreSound(todo)
  OBVIOUS
<1>2. CASE todo = <<>>
  <2>1. [Idle EXCEPT !.pc = "idle"] = Idle
    BY IdleIs DEF Built
  <2>2. PlaceIsSound(Idle)
    BY <2>1, IdleIsSound DEF Resting
  <2>3. NextJob(p) = Idle
    BY <1>1, <1>2 DEF NextJob
  <2> QED BY <2>2, <2>3
<1>3. CASE todo # <<>>
  <2>1. PICK pc \in {"complete", "offer"} : pc = IF Head(todo).doc.status = "complete" THEN "complete" ELSE "offer"
    OBVIOUS
  <2>2. PICK i : i = Idle
    OBVIOUS
  <2>3. NextJob(p) = [i EXCEPT !.todo = todo, !.pc = pc]
    BY <1>1, <1>3, <2>1, <2>2 DEF NextJob
  <2>4. PICK h : h = [i EXCEPT !.todo = todo]
    OBVIOUS
  <2>5. h = Built("idle", todo, Unread, NoBlock, "no", NoOp, "idle", 1)
    BY <2>2, <2>4, IdleIs DEF Built
  <2>6. [i EXCEPT !.todo = todo, !.pc = pc] = [h EXCEPT !.pc = pc]
    BY <2>4
  <2>7. [h EXCEPT !.pc = pc] = Built(pc, todo, Unread, NoBlock, "no", NoOp, "idle", 1)
    BY <2>5 DEF Built
  <2>8. PICK q : q = [todo |-> todo]
    OBVIOUS
  <2>9. q.todo = todo
    BY <2>8
  <2>10. PlaceIsSound(Go(q, pc))
    <3>1. pc \in Pcs \ {"funded", "recheck", "call"} /\ pc # "sold" /\ 1 \in 1 .. 4
      BY DEF Pcs
    <3> QED BY <1>1, <1>3, <2>9, <3>1, GoIsSound
  <2>11. Go(q, pc) = Built(pc, todo, Unread, NoBlock, "no", NoOp, "idle", 1)
    BY <2>9, GoIs
  <2> QED BY <2>3, <2>6, <2>7, <2>10, <2>11
<1> QED BY <1>2, <1>3

LEMMA RestIsSound ==
  ASSUME NEW todo, JobsAreSound(todo), todo # <<>>
  PROVE  JobsAreSound(Tail(todo))
<1>1. /\ todo \in Seq(Job) /\ Tail(todo) \in Seq(Job) /\ Len(Tail(todo)) = Len(todo) - 1 /\ Len(todo) \in Nat \ {0}
      /\ \A i \in 1 .. Len(Tail(todo)) : Tail(todo)[i] = todo[i + 1]
  BY HeadTailProperties, EmptySeq DEF JobsAreSound
<1>2. ASSUME NEW i \in 1 .. Len(Tail(todo)) PROVE JobIsSound(Tail(todo)[i])
  <2>1. i + 1 \in 1 .. Len(todo)
    BY <1>1
  <2> QED BY <1>1, <2>1 DEF JobsAreSound
<1> QED BY <1>1, <1>2 DEF JobsAreSound

LEMMA DispatchIsSound ==
  ASSUME RecordsTypeOK, NEW p, JobsAreSound(p.todo), p.todo # <<>>, NEW k \in 1 .. 4, NEW o \in Offer,
         o.status = "refunded" => chain.status[Head(p.todo).sale] = "refunded"
  PROVE  PlaceIsSound(Dispatch(p, k, o))
<1>1. PICK s \in Sales : s = Head(p.todo).sale
  BY HeadIsSound
<1>2. PICK step : step = Check(k, o)
  OBVIOUS
<1>3. step \in {"refunding", "deliver", "uphold", "finalizing", "save"}
  BY <1>2 DEF Check
<1>4. Dispatch(p, k, o) = CASE step = "deliver" -> Call(p, [name |-> "deliver", sale |-> s], "reread", 3)
                            [] step = "uphold" -> Call(p, [name |-> "uphold", sale |-> s], "reread", 4)
                            [] step = "save" -> Saw(p, "save", o)
                            [] OTHER -> Go(p, step)
  BY <1>1, <1>2 DEF Dispatch
<1>5. CASE step = "deliver"
  <2>1. PlaceIsSound(Call(p, [name |-> "deliver", sale |-> s], "reread", 3))
    <3>1. "deliver" \in Names /\ "reread" \in Continues /\ 3 \in 1 .. 4
      BY DEF Names, Continues
    <3> QED BY <1>1, <3>1, CallIsSound
  <2> QED BY <1>4, <1>5, <2>1
<1>6. CASE step = "uphold"
  <2>1. PlaceIsSound(Call(p, [name |-> "uphold", sale |-> s], "reread", 4))
    <3>1. "uphold" \in Names /\ "reread" \in Continues /\ 4 \in 1 .. 4
      BY DEF Names, Continues
    <3> QED BY <1>1, <3>1, CallIsSound
  <2> QED BY <1>4, <1>6, <2>1
<1>7. CASE step = "save"
  <2>1. PlaceIsSound(Saw(p, "save", o))
    BY SawIsSound
  <2> QED BY <1>4, <1>7, <2>1
<1>8. CASE step \in {"refunding", "finalizing"}
  <2>1. PlaceIsSound(Go(p, step))
    <3>1. step \in Pcs \ {"funded", "recheck", "call"} /\ step # "sold" /\ 1 \in 1 .. 4
      BY <1>8 DEF Pcs
    <3> QED BY <3>1, GoIsSound
  <2> QED BY <1>4, <1>8, <2>1
<1> QED BY <1>3, <1>5, <1>6, <1>7, <1>8

(***************************************************************************)
(* A worker's steps.  Where a worker is that has a job.                        *)
(***************************************************************************)
LEMMA AtWork ==
  ASSUME RecordsAreInOrder, WorkersAreSound, NEW w \in Workers, at[w].pc \notin Resting
  PROVE  /\ at[w] \in Place /\ JobsAreSound(at[w].todo) /\ at[w].todo # <<>>
         /\ This(w) \in Sales /\ Exists(This(w)) /\ This(w) = Head(at[w].todo).sale
         /\ TheDoc(w) \in Doc /\ (TheDoc(w).status = "complete" => Over(This(w), TheDoc(w)))
         /\ ReadsStand(at[w], This(w))
         /\ JobsAreSound(Tail(at[w].todo))
<1>1. at[w] \in Place /\ JobsAreSound(at[w].todo) /\ at[w].todo # <<>> /\ ReadsStand(at[w], Head(at[w].todo).sale)
  BY DEF WorkersAreSound, PlaceIsSound, AtAJob
<1> QED BY <1>1, HeadIsSound, RestIsSound DEF This, TheDoc

LEMMA ReadIsOffer ==
  ASSUME RecordsTypeOK, NEW s \in Sales
  PROVE  Read(s) \in Offer /\ Read(s).status = chain.status[s]
<1>1. PICK due \in BOOLEAN : due = (s \in chain.due)
  <2>1. (s \in chain.due) \in BOOLEAN
    OBVIOUS
  <2> QED BY <2>1, Zenon
<1>2. Read(s) = [status |-> chain.status[s], due |-> due]
  BY <1>1 DEF Read
<1> QED BY <1>2, ChainIs DEF Offer

LEMMA NothingIsTaken ==
  ASSUME RecordsTypeOK, sale' = sale, chain' = chain
  PROVE  Kept
<1>1. \A l \in Listings : ~Usable(l) => ~(Usable(l)')
  BY DEF Usable, Used, Exists
<1> QED BY <1>1 DEF Kept

LEMMA BecomingKeeps ==
  ASSUME RecordsTypeOK, Kept, WorkersAreSound, NEW w \in Workers, NEW p, PlaceIsSound(p), Becoming(w, p)
  PROVE  WorkersAreSound'
BY PlaceIsKept, WorkerMoves DEF Becoming

\* A step that only reads.
LEMMA LocalKeeps ==
  ASSUME RecordsAreInOrder, WorkersAreSound, NEW w \in Workers, NEW p, PlaceIsSound(p), Becoming(w, p), 
         UNCHANGED <<scenario, sale, jobs, claims, chain, era, journal>>
  PROVE  RecordsAreInOrder' /\ WorkersAreSound'
<1>1. RecordsTypeOK
  BY DEF RecordsAreInOrder
<1>2. ChainStep /\ RowsAreOfSales' /\ journal' \in Seq(Row)
  BY <1>1, NothingSteps, RowsAreKept DEF RecordsTypeOK
<1>3. RecordsAreInOrder' /\ Kept
  BY <1>2, TransactionKeeps
<1> QED BY <1>1, <1>3, BecomingKeeps

\* A step that writes the documents and the claims.
LEMMA WritesKeep ==
  ASSUME RecordsAreInOrder, WorkersAreSound, NEW w \in Workers, NEW p, PlaceIsSound(p), Becoming(w, p), Writes,
         jobs' \in [Sales -> Doc], DocumentsAreOver', claims' \in [Contents -> ContentClaim \cup {NoClaim}], AliveSalesHold'
  PROVE  RecordsAreInOrder' /\ WorkersAreSound'
<1>1. RecordsTypeOK
  BY DEF RecordsAreInOrder
<1>2. ChainStep /\ RowsAreOfSales' /\ Kept
  BY <1>1, NothingSteps, RowsAreKept, NothingIsTaken DEF Writes
<1>3. UnknownIsUnfunded' /\ RevokedIsUnused' /\ DirectIsOrdinary'
  BY <1>2, ChainStepKeeps
<1>4. RecordsTypeOK'
  BY <1>1 DEF RecordsTypeOK, Writes
<1> QED BY <1>1, <1>2, <1>3, <1>4, BecomingKeeps DEF RecordsAreInOrder

LEMMA JobWritten ==
  ASSUME RecordsAreInOrder, NEW s \in Sales, NEW doc \in Doc, doc.status = "complete" => Over(s, doc), Exists(s), Writes,
         jobs' = [jobs EXCEPT ![s] = doc]
  PROVE  jobs' \in [Sales -> Doc] /\ DocumentsAreOver'
<1>1. RecordsTypeOK /\ Kept /\ sale' = sale
  BY NothingIsTaken DEF RecordsAreInOrder, Writes
<1>2. jobs' \in [Sales -> Doc] /\ jobs'[s] = doc /\ \A t \in Sales : t # s => jobs'[t] = jobs[t]
  BY <1>1 DEF RecordsTypeOK
<1>3. ASSUME NEW t \in Sales, Exists(t)', jobs'[t].status = "complete" PROVE Over(t, jobs[t])'
  <2>1. Exists(t)
    BY <1>1, <1>3 DEF Exists
  <2>2. PICK written : written = jobs'[t]
    OBVIOUS
  <2>3. Over(t, written)
    BY <1>2, <1>3, <2>1, <2>2 DEF RecordsAreInOrder, DocumentsAreOver
  <2>4. Over(t, written)'
    BY <1>1, <2>1, <2>3, OverIsKept
  <2> QED BY <2>2, <2>4 DEF Over
<1> QED BY <1>2, <1>3 DEF DocumentsAreOver

LEMMA ClaimsStay ==
  ASSUME RecordsAreInOrder, Writes, claims' = claims
  PROVE  claims' \in [Contents -> ContentClaim \cup {NoClaim}] /\ AliveSalesHold'
<1>1. RecordsTypeOK /\ ChainStep
  BY NothingSteps DEF RecordsAreInOrder, Writes
<1> QED BY <1>1, HoldingIsKept DEF RecordsTypeOK

LEMMA DocWith ==
  ASSUME NEW doc \in Doc, NEW status \in JobStatuses, NEW block \in 0 .. NoBlock
  PROVE  /\ [doc EXCEPT !.status = status] \in Doc /\ [doc EXCEPT !.status = status].status = status
         /\ [doc EXCEPT !.status = status, !.block = block] \in Doc
         /\ [doc EXCEPT !.status = status, !.block = block].status = status
<1>1. PICK closed \in BOOLEAN : closed = doc.closed
  BY DEF Doc
<1>2. doc = [status |-> doc.status, block |-> doc.block, closed |-> closed] /\ doc.block \in 0 .. NoBlock
  BY <1>1 DEF Doc
<1>3. PICK half : half = [doc EXCEPT !.status = status]
  OBVIOUS
<1>4. half = [status |-> status, block |-> doc.block, closed |-> closed]
  BY <1>2, <1>3
<1>5. half \in Doc /\ half.status = status
  BY <1>2, <1>4 DEF Doc
<1>6. [half EXCEPT !.block = block] = [status |-> status, block |-> block, closed |-> closed]
  BY <1>4
<1>7. [doc EXCEPT !.status = status, !.block = block] = [half EXCEPT !.block = block]
  BY <1>3
<1>8. PICK new : new = [status |-> status, block |-> block, closed |-> closed]
  OBVIOUS
<1>9. new \in Doc /\ new.status = status
  BY <1>8 DEF Doc
<1> QED BY <1>3, <1>5, <1>6, <1>7, <1>8, <1>9

LEMMA CheckCompleteKeeps ==
  ASSUME RecordsAreInOrder, WorkersAreSound, NEW w \in Workers, CheckComplete(w)
  PROVE  RecordsAreInOrder' /\ WorkersAreSound'
<1>1. at[w].pc \notin Resting /\ RecordsTypeOK
  BY DEF CheckComplete, Resting, RecordsAreInOrder
<1>2. PICK reopened \in Doc : reopened = [status |-> "awaiting_reconciliation", block |-> NoBlock, closed |-> FALSE]
  <2>1. [status |-> "awaiting_reconciliation", block |-> NoBlock, closed |-> FALSE] \in Doc
    BY DEF Doc, JobStatuses, NoBlock
  <2> QED BY <2>1, Zenon
<1>3. PICK p : p = IF IsCanonicalBlock(TheDoc(w).block) THEN NextJob(at[w]) ELSE Go(WithDoc(at[w], reopened), "offer")
  OBVIOUS
<1>4. PlaceIsSound(NextJob(at[w]))
  BY <1>1, AtWork, NextJobIsSound
<1>5. PlaceIsSound(Go(WithDoc(at[w], reopened), "offer"))
  <2>1. reopened.status # "complete"
    BY <1>2
  <2>2. JobsAreSound(WithDoc(at[w], reopened).todo) /\ WithDoc(at[w], reopened).todo # <<>>
    BY <1>1, <2>1, AtWork, WithDocIsSound
  <2>3. "offer" \in Pcs \ {"funded", "recheck", "call"} /\ 1 \in 1 .. 4
    BY DEF Pcs
  <2> QED BY <2>2, <2>3, GoIsSound
<1>6. Becoming(w, p) /\ Local
  BY <1>2, <1>3 DEF CheckComplete
<1>7. PlaceIsSound(p)
  BY <1>3, <1>4, <1>5
<1> QED BY <1>6, <1>7, LocalKeeps DEF Local

\* The four readings of an offer: nothing is there, or it is funded as it was read.
LEMMA ReadIsSound ==
  ASSUME RecordsAreInOrder, WorkersAreSound, NEW w \in Workers, at[w].pc \notin Resting, NEW empty, PlaceIsSound(empty),
         NEW p, p = IF Read(This(w)).status = "none" THEN empty ELSE Saw(at[w], "funded", Read(This(w)))
  PROVE  PlaceIsSound(p)
<1>1. RecordsTypeOK
  BY DEF RecordsAreInOrder
<1>2. PICK o \in Offer : o = Read(This(w)) /\ o.status = chain.status[This(w)]
  BY <1>1, AtWork, ReadIsOffer
<1>3. o.status # "none" => PlaceIsSound(Saw(at[w], "funded", o))
  BY <1>1, <1>2, AtWork, SawIsSound
<1> QED BY <1>2, <1>3

LEMMA ReadOfferKeeps ==
  ASSUME RecordsAreInOrder, WorkersAreSound, NEW w \in Workers, ReadOffer(w)
  PROVE  RecordsAreInOrder' /\ WorkersAreSound'
<1>1. at[w].pc \notin Resting
  BY DEF ReadOffer, Resting
<1>2. PICK p : p = IF Read(This(w)).status = "none" THEN Go(at[w], "authorization") ELSE Saw(at[w], "funded", Read(This(w)))
  OBVIOUS
<1>3. PlaceIsSound(Go(at[w], "authorization"))
  <2>1. "authorization" \in Pcs \ {"funded", "recheck", "call"} /\ 1 \in 1 .. 4
    BY DEF Pcs
  <2> QED BY <1>1, <2>1, AtWork, GoIsSound
<1>4. Becoming(w, p) /\ Local
  BY <1>2 DEF ReadOffer
<1>5. PlaceIsSound(p)
  BY <1>1, <1>2, <1>3, ReadIsSound
<1> QED BY <1>4, <1>5, LocalKeeps DEF Local

LEMMA ReadBoughtKeeps ==
  ASSUME RecordsAreInOrder, WorkersAreSound, NEW w \in Workers, ReadBought(w)
  PROVE  RecordsAreInOrder' /\ WorkersAreSound'
<1>1. at[w].pc \notin Resting
  BY DEF ReadBought, Resting
<1>2. PICK p : p = IF Read(This(w)).status = "none" THEN Go(at[w], "wait") ELSE Saw(at[w], "funded", Read(This(w)))
  OBVIOUS
<1>3. PlaceIsSound(Go(at[w], "wait"))
  <2>1. "wait" \in Pcs \ {"funded", "recheck", "call"} /\ 1 \in 1 .. 4
    BY DEF Pcs
  <2> QED BY <1>1, <2>1, AtWork, GoIsSound
<1>4. Becoming(w, p) /\ Local
  BY <1>2 DEF ReadBought
<1>5. PlaceIsSound(p)
  BY <1>1, <1>2, <1>3, ReadIsSound
<1> QED BY <1>4, <1>5, LocalKeeps DEF Local

LEMMA ReadAuthorizationKeeps ==
  ASSUME RecordsAreInOrder, WorkersAreSound, NEW w \in Workers, ReadAuthorization(w)
  PROVE  RecordsAreInOrder' /\ WorkersAreSound'
<1>1. at[w].pc \notin Resting /\ RecordsTypeOK
  BY DEF ReadAuthorization, Resting, RecordsAreInOrder
<1>2. PICK l : l = sale[This(w)].listing
  OBVIOUS
<1>3. PICK pc \in {"claim", "wait"} : pc = IF sale[This(w)].kind = "auto" /\ TheDoc(w).status # "blocked" THEN "claim" ELSE "wait"
  OBVIOUS
<1>4. PICK void \in {"revoked", "used"} : void = IF l \in chain.revoked THEN "revoked" ELSE "used"
  OBVIOUS
<1>5. PICK g : g = Go(at[w], "recheck")
  OBVIOUS
<1>6. PICK p : p = IF Usable(l) THEN Go(at[w], pc) ELSE [g EXCEPT !.block = era, !.void = void]
  OBVIOUS
<1>7. Becoming(w, p) /\ Local
  BY <1>2, <1>3, <1>4, <1>5, <1>6 DEF ReadAuthorization
<1>8. PlaceIsSound(Go(at[w], pc))
  <2>1. pc \in Pcs \ {"funded", "recheck", "call"} /\ pc # "sold" /\ 1 \in 1 .. 4
    BY DEF Pcs
  <2> QED BY <1>1, <2>1, AtWork, GoIsSound
<1>9. [g EXCEPT !.block = era, !.void = void] = Built("recheck", at[w].todo, Unread, era, void, NoOp, "idle", 1)
  <2>1. PICK q : q = [g EXCEPT !.block = era]
    OBVIOUS
  <2>2. q = Built("recheck", at[w].todo, Unread, era, "no", NoOp, "idle", 1)
    BY <1>5, <2>1, GoIs DEF Built
  <2>3. [q EXCEPT !.void = void] = Built("recheck", at[w].todo, Unread, era, void, NoOp, "idle", 1)
    BY <2>2 DEF Built
  <2>4. [g EXCEPT !.block = era, !.void = void] = [q EXCEPT !.void = void]
    BY <2>1
  <2> QED BY <2>3, <2>4
<1>10. ASSUME ~Usable(l) PROVE PlaceIsSound(Built("recheck", at[w].todo, Unread, era, void, NoOp, "idle", 1))
  <2>1. /\ Unread \in Offer /\ "idle" \in Pcs /\ "recheck" \in Pcs /\ era \in 0 .. NoBlock /\ 1 \in 1 .. 4
        /\ NoOp \in Op \cup {NoOp} /\ void \in {"no", "used", "revoked"}
    BY <1>1 DEF Unread, Offer, Statuses, Pcs, NoBlock, RecordsTypeOK
  <2>2. JobsAreSound(at[w].todo) /\ at[w].todo # <<>> /\ This(w) = Head(at[w].todo).sale
    BY <1>1, AtWork
  <2>3. AtAJob(Built("recheck", at[w].todo, Unread, era, void, NoOp, "idle", 1))
    BY <1>2, <1>4, <1>10, <2>2 DEF AtAJob, ReadsStand, Built, Unread
  <2> QED BY <2>1, <2>2, <2>3, BuiltIsSound
<1>11. PlaceIsSound(p)
  BY <1>6, <1>8, <1>9, <1>10
<1> QED BY <1>7, <1>11, LocalKeeps DEF Local

LEMMA RecheckKeeps ==
  ASSUME RecordsAreInOrder, WorkersAreSound, NEW w \in Workers, Recheck(w)
  PROVE  RecordsAreInOrder' /\ WorkersAreSound'
<1>1. at[w].pc \notin Resting /\ RecordsTypeOK /\ at[w].pc = "recheck"
  BY DEF Recheck, Resting, RecordsAreInOrder
<1>2. /\ This(w) \in Sales /\ ~Usable(sale[This(w)].listing) /\ at[w] \in Place
      /\ at[w].void = "revoked" => sale[This(w)].listing \in chain.revoked
  BY <1>1, AtWork DEF ReadsStand
<1>3. PICK closed \in Doc : closed = [status |-> "complete", block |-> at[w].block, closed |-> TRUE]
  <2>1. [status |-> "complete", block |-> at[w].block, closed |-> TRUE] \in Doc
    BY <1>2 DEF Doc, JobStatuses, Place
  <2> QED BY <2>1, Zenon
<1>4. PICK void \in {"no", "used", "revoked"} : void = at[w].void
  BY <1>2 DEF Place
<1>5. PICK q : q = WithDoc(at[w], closed)
  OBVIOUS
<1>6. Closing(w) = Built("close", q.todo, Unread, NoBlock, void, NoOp, "idle", 1)
  <2>1. PICK g : g = Go(q, "close")
    OBVIOUS
  <2>2. [g EXCEPT !.void = void] = Built("close", q.todo, Unread, NoBlock, void, NoOp, "idle", 1)
    BY <2>1, GoIs DEF Built
  <2>3. Closing(w) = [g EXCEPT !.void = void]
    BY <1>3, <1>4, <1>5, <2>1 DEF Closing
  <2> QED BY <2>2, <2>3
<1>7. ASSUME chain.status[This(w)] = "none" PROVE PlaceIsSound(Built("close", q.todo, Unread, NoBlock, void, NoOp, "idle", 1))
  <2>1. Over(This(w), closed)
    BY <1>2, <1>3, <1>7 DEF Over
  <2>2. JobsAreSound(q.todo) /\ q.todo # <<>> /\ Head(q.todo).sale = This(w)
    BY <1>1, <1>5, <2>1, AtWork, WithDocIsSound
  <2>3. /\ Unread \in Offer /\ "idle" \in Pcs /\ "close" \in Pcs /\ NoBlock \in 0 .. NoBlock /\ 1 \in 1 .. 4
        /\ NoOp \in Op \cup {NoOp}
    BY DEF Unread, Offer, Statuses, Pcs, NoBlock
  <2>4. AtAJob(Built("close", q.todo, Unread, NoBlock, void, NoOp, "idle", 1))
    BY <1>2, <1>4, <2>2 DEF AtAJob, ReadsStand, Built, Unread
  <2> QED BY <2>2, <2>3, <2>4, BuiltIsSound
<1>8. PICK p : p = IF Read(This(w)).status = "none" THEN Closing(w) ELSE Saw(at[w], "funded", Read(This(w)))
  OBVIOUS
<1>9. Becoming(w, p) /\ Local
  BY <1>8 DEF Recheck
<1>10. PlaceIsSound(p)
  <2>1. Read(This(w)).status = chain.status[This(w)]
    BY <1>1, <1>2, ReadIsOffer
  <2>2. CASE chain.status[This(w)] = "none"
    BY <1>6, <1>7, <1>8, <2>1, <2>2
  <2>3. CASE chain.status[This(w)] # "none"
    <3>1. PICK o \in Offer : o = Read(This(w)) /\ o.status = chain.status[This(w)]
      BY <1>1, <1>2, ReadIsOffer
    <3>2. PlaceIsSound(Saw(at[w], "funded", o))
      BY <1>1, <2>3, <3>1, AtWork, SawIsSound
    <3> QED BY <1>8, <2>3, <3>1, <3>2
  <2> QED BY <2>2, <2>3
<1> QED BY <1>9, <1>10, LocalKeeps DEF Local

LEMMA ClaimWritten ==
  ASSUME RecordsAreInOrder, Writes, NEW c \in Contents, NEW new \in ContentClaim, claims' = [claims EXCEPT ![c] = new],
         \A t \in Sales : Treasury(t) /\ Alive(t) /\ ContentOf[sale[t].listing] = c =>
                            new \in [sale : {t}, status : {"queued", "committed"}]
  PROVE  claims' \in [Contents -> ContentClaim \cup {NoClaim}] /\ AliveSalesHold'
<1>1. /\ claims' \in [Contents -> ContentClaim \cup {NoClaim}] /\ claims'[c] = new
      /\ \A d \in Contents : d # c => claims'[d] = claims[d]
  BY DEF RecordsAreInOrder, RecordsTypeOK
<1>2. ASSUME NEW t \in Sales, Treasury(t)', Alive(t)' PROVE Holds(t)'
  <2>1. Treasury(t) /\ Alive(t) /\ sale' = sale
    BY <1>2 DEF Treasury, Alive, Usable, Used, Exists, Writes
  <2>2. ContentOf[sale[t].listing] \in Contents
    BY <2>1, OfSale DEF Treasury, RecordsAreInOrder
  <2>3. claims[ContentOf[sale[t].listing]] \in [sale : {t}, status : {"queued", "committed"}]
    BY <2>1 DEF RecordsAreInOrder, AliveSalesHold, Holds
  <2>4. claims'[ContentOf[sale[t].listing]] \in [sale : {t}, status : {"queued", "committed"}]
    BY <1>1, <2>1, <2>2, <2>3
  <2> QED BY <2>1, <2>4 DEF Holds
<1> QED BY <1>1, <1>2 DEF AliveSalesHold

\* Two sales that are alive and hold the same content are one.
LEMMA OneHolds ==
  ASSUME RecordsAreInOrder, NEW t \in Sales, Treasury(t), Alive(t), NEW s, claims[ContentOf[sale[t].listing]].sale = s
  PROVE  t = s
BY DEF RecordsAreInOrder, AliveSalesHold, Holds

LEMMA CloseKeeps ==
  ASSUME RecordsAreInOrder, WorkersAreSound, NEW w \in Workers, Close(w)
  PROVE  RecordsAreInOrder' /\ WorkersAreSound'
<1>1. at[w].pc \notin Resting /\ RecordsTypeOK /\ at[w].pc = "close" /\ Writes
  BY DEF Close, Resting, RecordsAreInOrder
<1>2. PICK s \in Sales : s = This(w) /\ Exists(s)
  BY <1>1, AtWork
<1>3. PICK l \in Listings : l = sale[s].listing /\ ContentOf[l] \in Contents
  BY <1>1, <1>2, OfSale
<1>4. at[w].void = "revoked" => l \in chain.revoked
  BY <1>1, <1>2, <1>3, AtWork DEF ReadsStand
<1>5. jobs' \in [Sales -> Doc] /\ DocumentsAreOver'
  <2>1. jobs' = [jobs EXCEPT ![s] = TheDoc(w)]
    BY <1>2 DEF Close
  <2> QED BY <1>1, <1>2, <2>1, AtWork, JobWritten
<1>6. claims' \in [Contents -> ContentClaim \cup {NoClaim}] /\ AliveSalesHold'
  <2>1. CASE Treasury(s) /\ claims[ContentOf[l]] = [sale |-> s, status |-> "queued"]
    <3>1. PICK status \in {"released", "committed"} : status = IF at[w].void = "revoked" THEN "released" ELSE "committed"
      OBVIOUS
    <3>2. PICK new \in ContentClaim : new = [sale |-> s, status |-> status]
      BY DEF ContentClaim
    <3>3. claims' = [claims EXCEPT ![ContentOf[l]].status = status]
      BY <1>2, <1>3, <2>1, <3>1 DEF Close
    <3>4. claims' = [claims EXCEPT ![ContentOf[l]] = new]
      <4>1. PICK held : held = [sale |-> s, status |-> "queued"]
        OBVIOUS
      <4>2. [held EXCEPT !.status = status] = new
        BY <3>2, <4>1
      <4>3. PICK c : c = ContentOf[l]
        OBVIOUS
      <4>4. claims[c] = held
        BY <2>1, <4>1, <4>3
      <4>5. [claims EXCEPT ![c].status = status] = [claims EXCEPT ![c] = new]
        BY <4>2, <4>4
      <4> QED BY <3>3, <4>3, <4>5
    <3>5. ASSUME NEW t \in Sales, Treasury(t), Alive(t), ContentOf[sale[t].listing] = ContentOf[l]
          PROVE  new \in [sale : {t}, status : {"queued", "committed"}]
      <4>1. t = s
        BY <2>1, <3>5, OneHolds
      <4>2. ASSUME status = "released" PROVE FALSE
        <5>1. l \in chain.revoked
          BY <1>4, <3>1, <4>2
        <5>2. ~Used(l)
          BY <5>1 DEF RecordsAreInOrder, RevokedIsUnused
        <5>3. s \notin chain.direct
          BY <2>1 DEF RecordsAreInOrder, DirectIsOrdinary
        <5>4. ~Usable(sale[s].listing) /\ chain.status[s] = "none"
          BY <1>2, <1>3, <5>1, <5>2, <5>3 DEF Usable, Used
        <5> QED BY <3>5, <4>1, <5>4 DEF Alive
      <4> QED BY <3>2, <4>1, <4>2
    <3> QED BY <1>1, <1>3, <3>4, <3>5, ClaimWritten
  <2>2. CASE ~(Treasury(s) /\ claims[ContentOf[l]] = [sale |-> s, status |-> "queued"])
    <3>1. claims' = claims
      BY <1>2, <1>3, <2>2 DEF Close
    <3> QED BY <1>1, <3>1, ClaimsStay
  <2> QED BY <2>1, <2>2
<1>7. PlaceIsSound(NextJob(at[w])) /\ Becoming(w, NextJob(at[w]))
  BY <1>1, AtWork, NextJobIsSound DEF Close
<1> QED BY <1>1, <1>5, <1>6, <1>7, WritesKeep

LEMMA DocumentsStay ==
  ASSUME RecordsAreInOrder, Writes, jobs' = jobs
  PROVE  jobs' \in [Sales -> Doc] /\ DocumentsAreOver'
BY NothingIsTaken, DocumentsAreKept DEF RecordsAreInOrder, RecordsTypeOK, Writes

LEMMA ClaimContentKeeps ==
  ASSUME RecordsAreInOrder, WorkersAreSound, NEW w \in Workers, ClaimContent(w)
  PROVE  RecordsAreInOrder' /\ WorkersAreSound'
<1>1. at[w].pc \notin Resting /\ RecordsTypeOK /\ Writes /\ jobs' = jobs
  BY DEF ClaimContent, Resting, RecordsAreInOrder
<1>2. PICK s \in Sales : s = This(w) /\ Exists(s)
  BY <1>1, AtWork
<1>3. PICK c \in Contents : c = ContentOf[sale[s].listing]
  BY <1>1, <1>2, OfSale
<1>4. jobs' \in [Sales -> Doc] /\ DocumentsAreOver'
  BY <1>1, DocumentsStay
<1>5. CASE /\ claims[c].status = "none" \/ claims[c] = [sale |-> s, status |-> "queued"]
           /\ claims' = [claims EXCEPT ![c] = [sale |-> s, status |-> "queued"]]
           /\ Becoming(w, Call(at[w], [name |-> "purchase", sale |-> s], "bought", 1))
  <2>1. PICK new \in ContentClaim : new = [sale |-> s, status |-> "queued"]
    BY DEF ContentClaim
  <2>2. ASSUME NEW t \in Sales, Treasury(t), Alive(t), ContentOf[sale[t].listing] = c
        PROVE  new \in [sale : {t}, status : {"queued", "committed"}]
    <3>1. claims[c].status # "none"
      BY <2>2 DEF RecordsAreInOrder, AliveSalesHold, Holds
    <3>2. claims[c].sale = s
      BY <1>5, <3>1
    <3>3. t = s
      BY <2>2, <3>2, OneHolds
    <3> QED BY <2>1, <3>3
  <2>3. claims' \in [Contents -> ContentClaim \cup {NoClaim}] /\ AliveSalesHold'
    BY <1>1, <1>5, <2>1, <2>2, ClaimWritten
  <2>4. PlaceIsSound(Call(at[w], [name |-> "purchase", sale |-> s], "bought", 1))
    <3>1. "purchase" \in Names /\ "bought" \in Continues /\ 1 \in 1 .. 4
      BY DEF Names, Continues
    <3> QED BY <1>1, <1>2, <3>1, AtWork, CallIsSound
  <2> QED BY <1>1, <1>4, <1>5, <2>3, <2>4, WritesKeep
<1>6. CASE Becoming(w, Go(at[w], "assess")) /\ claims' = claims
  <2>1. PlaceIsSound(Go(at[w], "assess"))
    <3>1. "assess" \in Pcs \ {"funded", "recheck", "call"} /\ 1 \in 1 .. 4
      BY DEF Pcs
    <3> QED BY <1>1, <3>1, AtWork, GoIsSound
  <2>2. claims' \in [Contents -> ContentClaim \cup {NoClaim}] /\ AliveSalesHold'
    BY <1>1, <1>6, ClaimsStay
  <2> QED BY <1>1, <1>4, <1>6, <2>1, <2>2, WritesKeep
<1>7. \/ /\ claims[c].status = "none" \/ claims[c] = [sale |-> s, status |-> "queued"]
         /\ claims' = [claims EXCEPT ![c] = [sale |-> s, status |-> "queued"]]
         /\ Becoming(w, Call(at[w], [name |-> "purchase", sale |-> s], "bought", 1))
      \/ Becoming(w, Go(at[w], "assess")) /\ claims' = claims
  BY <1>2, <1>3 DEF ClaimContent
<1> QED BY <1>5, <1>6, <1>7

LEMMA FundedKeeps ==
  ASSUME RecordsAreInOrder, WorkersAreSound, NEW w \in Workers, Funded(w)
  PROVE  RecordsAreInOrder' /\ WorkersAreSound'
<1>1. at[w].pc \notin Resting /\ RecordsTypeOK /\ Writes /\ jobs' = jobs /\ at[w].pc = "funded"
  BY DEF Funded, Resting, RecordsAreInOrder
<1>2. PICK s \in Sales : s = This(w) /\ Exists(s) /\ chain.status[s] # "none"
  BY <1>1, AtWork DEF ReadsStand
<1>3. PICK c \in Contents : c = ContentOf[sale[s].listing]
  BY <1>1, <1>2, OfSale
<1>4. jobs' \in [Sales -> Doc] /\ DocumentsAreOver'
  BY <1>1, DocumentsStay
<1>5. claims' \in [Contents -> ContentClaim \cup {NoClaim}] /\ AliveSalesHold'
  <2>1. CASE Treasury(s)
    <3>1. PICK new \in ContentClaim : new = [sale |-> s, status |-> "committed"]
      BY DEF ContentClaim
    <3>2. claims' = [claims EXCEPT ![c] = new]
      BY <1>2, <1>3, <2>1, <3>1 DEF Funded
    <3>3. claims[c].sale = s
      BY <1>2, <1>3, <2>1 DEF RecordsAreInOrder, AliveSalesHold, Alive, Holds
    <3>4. ASSUME NEW t \in Sales, Treasury(t), Alive(t), ContentOf[sale[t].listing] = c
          PROVE  new \in [sale : {t}, status : {"queued", "committed"}]
      <4>1. t = s
        BY <3>3, <3>4, OneHolds
      <4> QED BY <3>1, <4>1
    <3> QED BY <1>1, <3>2, <3>4, ClaimWritten
  <2>2. CASE ~Treasury(s)
    <3>1. claims' = claims
      BY <1>2, <2>2 DEF Funded
    <3> QED BY <1>1, <3>1, ClaimsStay
  <2> QED BY <2>1, <2>2
<1>6. PlaceIsSound(Dispatch(at[w], 1, at[w].offer)) /\ Becoming(w, Dispatch(at[w], 1, at[w].offer))
  <2>1. at[w].offer \in Offer /\ (at[w].offer.status = "refunded" => chain.status[Head(at[w].todo).sale] = "refunded")
    BY <1>1, AtWork DEF Place, ReadsStand
  <2> QED BY <1>1, <2>1, AtWork, DispatchIsSound DEF Funded
<1> QED BY <1>1, <1>4, <1>5, <1>6, WritesKeep

\* A step that writes the copy back and takes the next job.
LEMMA JobIsWritten ==
  ASSUME RecordsAreInOrder, WorkersAreSound, NEW w \in Workers, at[w].pc \notin Resting, Writes, claims' = claims,
         NEW doc \in Doc, doc.status = "complete" => Over(This(w), doc), jobs' = [jobs EXCEPT ![This(w)] = doc],
         Becoming(w, NextJob(at[w]))
  PROVE  RecordsAreInOrder' /\ WorkersAreSound'
<1>1. RecordsTypeOK
  BY DEF RecordsAreInOrder
<1>2. jobs' \in [Sales -> Doc] /\ DocumentsAreOver'
  BY AtWork, JobWritten
<1>3. claims' \in [Contents -> ContentClaim \cup {NoClaim}] /\ AliveSalesHold'
  BY ClaimsStay
<1>4. PlaceIsSound(NextJob(at[w]))
  BY <1>1, AtWork, NextJobIsSound
<1> QED BY <1>2, <1>3, <1>4, WritesKeep

LEMMA WaitKeeps ==
  ASSUME RecordsAreInOrder, WorkersAreSound, NEW w \in Workers, Wait(w)
  PROVE  RecordsAreInOrder' /\ WorkersAreSound'
<1>1. at[w].pc \notin Resting
  BY DEF Wait, Resting
<1>2. PICK status \in {"blocked", "queued", "awaiting_funding"} :
        status = IF TheDoc(w).status = "blocked" THEN "blocked"
                 ELSE IF sale[This(w)].kind = "auto" THEN "queued" ELSE "awaiting_funding"
  OBVIOUS
<1>3. PICK doc : doc = [TheDoc(w) EXCEPT !.status = status]
  OBVIOUS
<1>4. doc \in Doc /\ doc.status # "complete"
  <2>1. TheDoc(w) \in Doc /\ status \in JobStatuses /\ 0 \in 0 .. NoBlock
    BY <1>1, AtWork DEF JobStatuses, NoBlock
  <2> QED BY <1>3, <2>1, DocWith
<1>5. jobs' = [jobs EXCEPT ![This(w)] = doc] /\ Writes /\ claims' = claims /\ Becoming(w, NextJob(at[w]))
  BY <1>2, <1>3 DEF Wait
<1> QED BY <1>1, <1>4, <1>5, JobIsWritten

LEMMA RecordErrorKeeps ==
  ASSUME RecordsAreInOrder, WorkersAreSound, NEW w \in Workers, RecordError(w)
  PROVE  RecordsAreInOrder' /\ WorkersAreSound'
<1>1. at[w].pc \notin Resting
  BY DEF RecordError, Resting
<1>2. jobs' = [jobs EXCEPT ![This(w)] = TheDoc(w)] /\ Writes /\ claims' = claims /\ Becoming(w, NextJob(at[w]))
  BY DEF RecordError
<1> QED BY <1>1, <1>2, AtWork, JobIsWritten

LEMMA SaveKeeps ==
  ASSUME RecordsAreInOrder, WorkersAreSound, NEW w \in Workers, Save(w)
  PROVE  RecordsAreInOrder' /\ WorkersAreSound'
<1>1. at[w].pc \notin Resting
  BY DEF Save, Resting
<1>2. PICK status : status = CASE TheDoc(w).status = "complete" -> "complete"
                               [] at[w].offer.status = "refunded" -> "complete"
                               [] at[w].offer.status = "disputed" -> "disputed"
                               [] OTHER -> "awaiting_settlement"
  OBVIOUS
<1>3. /\ status \in {"complete", "disputed", "awaiting_settlement"}
      /\ status = "complete" => TheDoc(w).status = "complete" \/ at[w].offer.status = "refunded"
  BY <1>2
<1>4. PICK old \in Doc : old = TheDoc(w) /\ (old.status = "complete" => Over(This(w), old))
  BY <1>1, AtWork
<1>5. PICK block : block = IF status = "complete" THEN at[w].block ELSE old.block
  OBVIOUS
<1>6. PICK doc : doc = [old EXCEPT !.status = status, !.block = block]
  OBVIOUS
<1>7. doc \in Doc /\ doc.status = status /\ doc.closed = old.closed
  <2>1. status \in JobStatuses /\ block \in 0 .. NoBlock
    BY <1>1, <1>3, <1>5, AtWork DEF JobStatuses, Doc, Place
  <2>2. doc.closed = old.closed
    BY <1>6 DEF Doc
  <2> QED BY <1>6, <2>1, <2>2, DocWith
<1>8. status = "complete" => Over(This(w), doc)
  <2>1. at[w].offer.status = "refunded" => Over(This(w), doc)
    BY <1>1, AtWork DEF ReadsStand, Over
  <2>2. old.status = "complete" => Over(This(w), doc)
    BY <1>4, <1>7 DEF Over
  <2> QED BY <1>3, <1>4, <2>1, <2>2
<1>9. jobs' = [jobs EXCEPT ![This(w)] = [old EXCEPT !.status = status, !.block = IF status = "complete" THEN at[w].block ELSE @]]
  BY <1>2, <1>4 DEF Save
<1>10. jobs' = [jobs EXCEPT ![This(w)] = doc] /\ Writes /\ claims' = claims /\ Becoming(w, NextJob(at[w]))
  <2>1. [old EXCEPT !.status = status, !.block = IF status = "complete" THEN at[w].block ELSE @] = doc
    BY <1>5, <1>6
  <2> QED BY <1>9, <2>1 DEF Save
<1> QED BY <1>1, <1>7, <1>8, <1>10, JobIsWritten

LEMMA RefundingKeeps ==
  ASSUME RecordsAreInOrder, WorkersAreSound, NEW w \in Workers, Refunding(w)
  PROVE  RecordsAreInOrder' /\ WorkersAreSound'
<1>1. at[w].pc \notin Resting
  BY DEF Refunding, Resting
<1>2. PICK s \in Sales : s = This(w)
  BY <1>1, AtWork
<1>3. PICK name \in {"expire", "refund"} : name = IF Read(s).status = "offered" THEN "expire" ELSE "refund"
  OBVIOUS
<1>4. PlaceIsSound(Call(at[w], [name |-> name, sale |-> s], "refunded", 2)) /\ PlaceIsSound(Go(at[w], "refunded"))
  <2>1. name \in Names /\ "refunded" \in Continues /\ "refunded" \in Pcs \ {"funded", "recheck", "call"} /\ 2 \in 1 .. 4
    BY DEF Names, Continues, Pcs
  <2>2. PlaceIsSound(Go(at[w], "refunded"))
    BY <1>1, <2>1, AtWork, GoIsSound
  <2> QED BY <1>1, <1>2, <2>1, <2>2, AtWork, CallIsSound
<1>5. PICK p : p = IF Read(s).status \in {"offered", "accepted"} /\ Read(s).due
                   THEN Call(at[w], [name |-> name, sale |-> s], "refunded", 2) ELSE Go(at[w], "refunded")
  OBVIOUS
<1>6. Becoming(w, p) /\ Local
  BY <1>2, <1>3, <1>5, Zenon DEF Refunding
<1>7. PlaceIsSound(p)
  BY <1>4, <1>5
<1> QED BY <1>6, <1>7, LocalKeeps DEF Local

LEMMA FinalizingKeeps ==
  ASSUME RecordsAreInOrder, WorkersAreSound, NEW w \in Workers, Finalizing(w)
  PROVE  RecordsAreInOrder' /\ WorkersAreSound'
<1>1. at[w].pc \notin Resting
  BY DEF Finalizing, Resting
<1>2. PICK s \in Sales : s = This(w)
  BY <1>1, AtWork
<1>3. PICK p : p = IF Read(s).status \in Delivered /\ Read(s).due
                   THEN Call(at[w], [name |-> "finalize", sale |-> s], "finalized", 4) ELSE Go(at[w], "finalized")
  OBVIOUS
<1>4. PlaceIsSound(Call(at[w], [name |-> "finalize", sale |-> s], "finalized", 4)) /\ PlaceIsSound(Go(at[w], "finalized"))
  <2>1. "finalize" \in Names /\ "finalized" \in Continues /\ "finalized" \in Pcs \ {"funded", "recheck", "call"} /\ 4 \in 1 .. 4
    BY DEF Names, Continues, Pcs
  <2>2. PlaceIsSound(Go(at[w], "finalized"))
    BY <1>1, <2>1, AtWork, GoIsSound
  <2> QED BY <1>1, <1>2, <2>1, <2>2, AtWork, CallIsSound
<1>5. Becoming(w, p) /\ Local
  BY <1>2, <1>3, Zenon DEF Finalizing
<1>6. PlaceIsSound(p)
  BY <1>3, <1>4
<1> QED BY <1>5, <1>6, LocalKeeps DEF Local

\* Money is paid only for an offer that was seen over, and what is seen over stays so.
LEMMA PayOutKeeps ==
  ASSUME RecordsAreInOrder, WorkersAreSound, NEW w \in Workers, at[w].pc \notin Resting,
         NEW status, NEW account, NEW name \in Names, NEW next \in Continues \cap Pcs,
         next = "sold" => status = "finalized",
         PayOut(w, status, account, [name |-> name, sale |-> This(w)], next)
  PROVE  RecordsAreInOrder' /\ WorkersAreSound'
<1>1. PICK s \in Sales : s = This(w) /\ s = Head(at[w].todo).sale
  BY AtWork
<1>2. PICK op : op = [name |-> name, sale |-> s]
  OBVIOUS
<1>3. PICK again \in BOOLEAN : again = (\E r \in RowsOf(op) : journal[r].result # "reverted")
  OBVIOUS
<1>4. PICK p : p = IF chain.status[s] # status THEN Go(at[w], "error")
                   ELSE IF account \in chain.owed \/ again THEN Call(at[w], op, next, 2)
                   ELSE [Go(at[w], next) EXCEPT !.stage = 2]
  OBVIOUS
<1>5. Becoming(w, p) /\ Local
  BY <1>1, <1>2, <1>3, <1>4, Zenon DEF PayOut
<1>6. /\ "error" \in Pcs \ {"funded", "recheck", "call"} /\ 2 \in 1 .. 4
      /\ next \in Pcs \ {"funded", "recheck", "call"}
  BY DEF Pcs, Continues
<1>7. PlaceIsSound(Go(at[w], "error"))
  BY <1>6, AtWork, GoIsSound
<1>8. chain.status[s] = status => PlaceIsSound(Call(at[w], op, next, 2))
  BY <1>1, <1>2, <1>6, AtWork, CallIsSound
<1>9. chain.status[s] = status => PlaceIsSound([Go(at[w], next) EXCEPT !.stage = 2])
  BY <1>1, <1>6, AtWork, GoIsSound
<1>10. PlaceIsSound(p)
  BY <1>4, <1>7, <1>8, <1>9
<1> QED BY <1>5, <1>10, LocalKeeps DEF Local

LEMMA PaysKeep ==
  ASSUME RecordsAreInOrder, WorkersAreSound, NEW w \in Workers, PayRefund(w) \/ PaySeller(w)
  PROVE  RecordsAreInOrder' /\ WorkersAreSound'
<1>1. at[w].pc \notin Resting
  BY DEF PayRefund, PaySeller, Resting
<1>2. {"payBuyer", "paySeller"} \subseteq Names /\ {"reread", "sold"} \subseteq Continues \cap Pcs
  BY DEF Names, Continues, Pcs
<1>3. CASE PayRefund(w)
  <2>1. PayOut(w, "refunded", Buyer(This(w)), [name |-> "payBuyer", sale |-> This(w)], "reread")
    BY <1>3, Zenon DEF PayRefund
  <2>2. PICK account : account = Buyer(This(w))
    OBVIOUS
  <2>3. PayOut(w, "refunded", account, [name |-> "payBuyer", sale |-> This(w)], "reread")
    BY <2>1, <2>2
  <2> QED BY <1>1, <1>2, <2>3, PayOutKeeps
<1>4. CASE PaySeller(w)
  <2>1. PayOut(w, "finalized", Seller(This(w)), [name |-> "paySeller", sale |-> This(w)], "sold")
    BY <1>4, Zenon DEF PaySeller
  <2>2. PICK account : account = Seller(This(w))
    OBVIOUS
  <2>3. PayOut(w, "finalized", account, [name |-> "paySeller", sale |-> This(w)], "sold")
    BY <2>1, <2>2
  <2> QED BY <1>1, <1>2, <2>3, PayOutKeeps
<1> QED BY <1>3, <1>4

LEMMA TransactKeeps ==
  ASSUME RecordsAreInOrder, WorkersAreSound, NEW w \in Workers, Transact(w)
  PROVE  RecordsAreInOrder' /\ WorkersAreSound'
<1>1. at[w].pc \notin Resting /\ RecordsTypeOK /\ at[w].pc = "call"
  BY DEF Transact, Resting, RecordsAreInOrder
<1>2. PICK op \in Op : op = at[w].op /\ op.sale = This(w)
  BY <1>1, AtWork DEF ReadsStand
<1>3. PICK next \in Continues : next = at[w].next /\ (next = "sold" => chain.status[This(w)] = "finalized")
  BY <1>1, AtWork DEF ReadsStand
<1>4. PICK stage \in 1 .. 4 : stage = at[w].stage
  BY <1>1, AtWork DEF Place
<1>5. PlaceIsSound(at[w]) /\ PlaceIsSound(Go(at[w], "error")) /\ PlaceIsSound([Go(at[w], next) EXCEPT !.stage = stage])
  <2>1. PlaceIsSound(at[w])
    BY DEF WorkersAreSound
  <2>2. "error" \in Pcs \ {"funded", "recheck", "call"} /\ next \in Pcs \ {"funded", "recheck", "call"}
    BY DEF Pcs, Continues
  <2>3. PlaceIsSound(Go(at[w], "error"))
    BY <1>1, <1>4, <2>2, AtWork, GoIsSound
  <2>4. PlaceIsSound([Go(at[w], next) EXCEPT !.stage = stage])
    BY <1>1, <1>3, <1>4, <2>2, AtWork, GoIsSound
  <2> QED BY <2>1, <2>3, <2>4
<1>6. UNCHANGED <<scenario, sale, jobs, claims, cursor, fork, era>>
  BY DEF Transact
<1>7. CASE Unsettled # {}
  <2>1. PICK r \in Unsettled : r = First(Unsettled)
    BY <1>1, <1>7, FirstIsUnsettled
  <2>2. SettleRow(r) /\ \E p \in {at[w], Go(at[w], "error")} : Becoming(w, p)
    BY <1>7, <2>1, Zenon DEF Transact
  <2>3. RecordsAreInOrder' /\ Kept
    BY <1>6, <2>2, RowSettledKeeps
  <2>4. PICK p : Becoming(w, p) /\ PlaceIsSound(p)
    BY <1>5, <2>2
  <2> QED BY <1>1, <2>3, <2>4, BecomingKeeps
<1>8. CASE Unsettled = {} /\ RowsOf(op) # {}
  <2>1. journal' = journal /\ chain' = chain
    BY <1>2, <1>8 DEF Transact
  <2>2. \E p \in {[Go(at[w], next) EXCEPT !.stage = stage], Go(at[w], "error")} : Becoming(w, p)
    BY <1>2, <1>3, <1>4, <1>8, Zenon DEF Transact
  <2>3. PICK p : Becoming(w, p) /\ PlaceIsSound(p)
    BY <1>5, <2>2
  <2> QED BY <1>6, <2>1, <2>3, LocalKeeps
<1>9. CASE Unsettled = {} /\ RowsOf(op) = {}
  <2>1. \E p \in {at[w], Go(at[w], "error")} : Becoming(w, p)
    BY <1>2, <1>9, Zenon DEF Transact
  <2>2. PICK p : Becoming(w, p) /\ PlaceIsSound(p)
    BY <1>5, <2>1
  <2>3. PICK row : row = [op |-> op, result |-> "pending", block |-> NoBlock]
    OBVIOUS
  <2>4. chain' = chain /\ (journal' = Append(journal, row) \/ journal' = journal)
    BY <1>2, <1>9, <2>3 DEF Transact
  <2>5. CASE journal' = journal
    BY <1>6, <2>2, <2>4, <2>5, LocalKeeps
  <2>6. CASE journal' = Append(journal, row)
    <3>1. row \in Row /\ row.op = op /\ Exists(op.sale)
      BY <1>1, <1>2, <2>3, AtWork DEF Row, NoBlock
    <3>2. /\ journal' \in Seq(Row) /\ Len(journal') = Len(journal) + 1 /\ journal'[Len(journal) + 1] = row
          /\ \A i \in 1 .. Len(journal) : journal'[i] = journal[i]
      BY <1>1, <2>6, <3>1, AppendProperties DEF RecordsTypeOK
    <3>3. DOMAIN journal = 1 .. Len(journal) /\ DOMAIN journal' = 1 .. Len(journal) + 1 /\ Len(journal) \in Nat
      BY <1>1, <3>2, LenProperties DEF RecordsTypeOK
    <3>4. RowsAreOfSales'
      <4>1. ASSUME NEW i \in 1 .. Len(journal) + 1
            PROVE  journal'[i] \in Row /\ \E known \in Sales : known = journal'[i].op.sale /\ Exists(known)
        <5>1. CASE i = Len(journal) + 1
          BY <3>1, <3>2, <5>1 DEF Op
        <5>2. CASE i # Len(journal) + 1
          <6>1. i \in DOMAIN journal /\ journal'[i] = journal[i]
            BY <3>2, <3>3, <5>2
          <6> QED BY <6>1 DEF RecordsAreInOrder, RowsAreOfSales, Row, Op
        <5> QED BY <5>1, <5>2
      <4> QED BY <1>6, <3>3, <4>1 DEF RowsAreOfSales, Exists
    <3>5. ChainStep
      BY <1>1, <1>6, <2>4, NothingSteps
    <3>6. RecordsAreInOrder' /\ Kept
      BY <1>6, <3>2, <3>4, <3>5, TransactionKeeps
    <3> QED BY <1>1, <2>2, <3>6, BecomingKeeps
  <2> QED BY <2>4, <2>5, <2>6
<1> QED BY <1>7, <1>8, <1>9

LEMMA RereadKeeps ==
  ASSUME RecordsAreInOrder, WorkersAreSound, NEW w \in Workers, Reread(w)
  PROVE  RecordsAreInOrder' /\ WorkersAreSound'
<1>1. at[w].pc \notin Resting /\ RecordsTypeOK
  BY DEF Reread, Resting, RecordsAreInOrder
<1>2. PICK o \in Offer : o = Read(This(w)) /\ o.status = chain.status[This(w)]
  BY <1>1, AtWork, ReadIsOffer
<1>3. PICK k \in 1 .. 4 : k = at[w].stage
  BY <1>1, AtWork DEF Place
<1>4. PlaceIsSound(Dispatch(at[w], k, o))
  BY <1>1, <1>2, AtWork, DispatchIsSound
<1>5. Becoming(w, Dispatch(at[w], k, o)) /\ Local
  BY <1>2, <1>3 DEF Reread
<1> QED BY <1>4, <1>5, LocalKeeps DEF Local

LEMMA SoldKeeps ==
  ASSUME RecordsAreInOrder, WorkersAreSound, NEW w \in Workers, Sold(w)
  PROVE  RecordsAreInOrder' /\ WorkersAreSound'
<1>1. at[w].pc \notin Resting /\ RecordsTypeOK /\ at[w].pc = "sold"
  BY DEF Sold, Resting, RecordsAreInOrder
<1>2. PICK o \in Offer : o = Read(This(w)) /\ o.status = chain.status[This(w)]
  BY <1>1, AtWork, ReadIsOffer
<1>3. PICK doc : doc = [TheDoc(w) EXCEPT !.status = "complete"]
  OBVIOUS
<1>4. doc \in Doc
  <2>1. TheDoc(w) \in Doc /\ "complete" \in JobStatuses /\ 0 \in 0 .. NoBlock
    BY <1>1, AtWork DEF JobStatuses, NoBlock
  <2> QED BY <1>3, <2>1, DocWith
<1>5. Over(This(w), doc)
  BY <1>1, AtWork DEF ReadsStand, Over
<1>6. PICK q : q = WithDoc(at[w], doc)
  OBVIOUS
<1>7. JobsAreSound(q.todo) /\ q.todo # <<>> /\ Head(q.todo).sale = This(w)
  BY <1>1, <1>4, <1>5, <1>6, AtWork, WithDocIsSound
<1>8. PlaceIsSound(Saw(q, "save", o))
  BY <1>1, <1>2, <1>7, SawIsSound
<1>9. Becoming(w, Saw(q, "save", o)) /\ Local
  BY <1>2, <1>3, <1>6 DEF Sold
<1> QED BY <1>8, <1>9, LocalKeeps DEF Local

LEMMA AssessKeeps ==
  ASSUME RecordsAreInOrder, WorkersAreSound, NEW w \in Workers, Assess(w)
  PROVE  RecordsAreInOrder' /\ WorkersAreSound'
<1>1. at[w].pc \notin Resting
  BY DEF Assess, Resting
<1>2. PICK status \in {"blocked", "awaiting_settlement", "awaiting_reconciliation"} :
        Becoming(w, Go(WithDoc(at[w], [TheDoc(w) EXCEPT !.status = status]), "error"))
  <2>1. PICK unpaid \in {"blocked", "awaiting_settlement"} :
          unpaid = IF chain.status[This(w)] = "none" THEN "blocked" ELSE "awaiting_settlement"
    OBVIOUS
  <2> QED BY <2>1 DEF Assess
<1>3. PICK doc : doc = [TheDoc(w) EXCEPT !.status = status]
  OBVIOUS
<1>4. doc \in Doc /\ doc.status # "complete"
  <2>1. TheDoc(w) \in Doc /\ status \in JobStatuses /\ 0 \in 0 .. NoBlock
    BY <1>1, AtWork DEF JobStatuses, NoBlock
  <2> QED BY <1>3, <2>1, DocWith
<1>5. JobsAreSound(WithDoc(at[w], doc).todo) /\ WithDoc(at[w], doc).todo # <<>>
  BY <1>1, <1>4, AtWork, WithDocIsSound
<1>6. PlaceIsSound(Go(WithDoc(at[w], doc), "error"))
  <2>1. "error" \in Pcs \ {"funded", "recheck", "call"} /\ 1 \in 1 .. 4
    BY DEF Pcs
  <2> QED BY <1>5, <2>1, GoIsSound
<1>7. Becoming(w, Go(WithDoc(at[w], doc), "error")) /\ Local
  BY <1>2, <1>3 DEF Assess
<1> QED BY <1>6, <1>7, LocalKeeps DEF Local

LEMMA FaultsKeep ==
  ASSUME RecordsAreInOrder, WorkersAreSound, NEW w \in Workers, Fail(w) \/ ProcessDies(w) \/ Restart(w)
  PROVE  RecordsAreInOrder' /\ WorkersAreSound'
<1>1. RecordsTypeOK
  BY DEF RecordsAreInOrder
<1>2. CASE Fail(w)
  <2>1. at[w].pc \notin Resting
    BY <1>2 DEF Fail, Resting
  <2>2. "failed" \in Pcs \ {"funded", "recheck", "call"} /\ 1 \in 1 .. 4
    BY DEF Pcs
  <2>3. PlaceIsSound(Go(at[w], "failed"))
    BY <2>1, <2>2, AtWork, GoIsSound
  <2> QED BY <1>2, <2>3, LocalKeeps DEF Fail, Local
<1>3. CASE ProcessDies(w)
  <2>1. PlaceIsSound([Idle EXCEPT !.pc = "down"])
    BY <1>1, IdleIsSound DEF Resting
  <2> QED BY <1>3, <2>1, LocalKeeps DEF ProcessDies, Local
<1>4. CASE Restart(w)
  <2>1. [Idle EXCEPT !.pc = "idle"] = Idle
    BY IdleIs DEF Built
  <2>2. PlaceIsSound(Idle)
    BY <1>1, <2>1, IdleIsSound DEF Resting
  <2> QED BY <1>4, <2>2, LocalKeeps DEF Restart, Local
<1> QED BY <1>2, <1>3, <1>4

LEMMA ReconcileKeeps ==
  ASSUME RecordsAreInOrder, WorkersAreSound, NEW w \in Workers, Reconcile(w)
  PROVE  RecordsAreInOrder' /\ WorkersAreSound'
<1>1. RecordsTypeOK /\ Unsettled # {}
  BY DEF RecordsAreInOrder, Reconcile
<1>2. PICK r \in Unsettled : r = First(Unsettled)
  BY <1>1, FirstIsUnsettled
<1>3. RecordsAreInOrder' /\ Kept
  BY <1>2, RowSettledKeeps DEF Reconcile
<1> QED BY <1>1, <1>3, WorkersStay DEF Reconcile

LEMMA SelectKeeps ==
  ASSUME RecordsAreInOrder, WorkersAreSound, NEW w \in Workers, Select(w)
  PROVE  RecordsAreInOrder' /\ WorkersAreSound'
<1>1. RecordsTypeOK
  BY DEF RecordsAreInOrder
<1> DEFINE known == {s \in Sales : Exists(s)}
<1>2. PICK taken : /\ taken = Page(Open, cursor.open, PAGE) \o Page(Complete, cursor.done, DONE_PAGE)
                   /\ Take(w, taken)
  BY DEF Select
<1>3. taken \in Seq(known)
  <2>1. Open \subseteq known /\ Complete \subseteq known /\ known \subseteq Sales
    BY DEF Open, Complete
  <2>2. PAGE \in Nat /\ DONE_PAGE \in Nat
    BY SaleWorkerAssumption DEF SaleWorkerAssumption
  <2> HIDE DEF known
  <2>3. Page(Open, cursor.open, PAGE) \in Seq(Open) /\ Page(Complete, cursor.done, DONE_PAGE) \in Seq(Complete)
    BY <2>1, <2>2, PageIsSequence
  <2>4. Page(Open, cursor.open, PAGE) \in Seq(known) /\ Page(Complete, cursor.done, DONE_PAGE) \in Seq(known)
    BY <2>1, <2>3, SeqMonotonic
  <2> QED BY <1>2, <2>4, ConcatProperties
<1> DEFINE todo == [i \in DOMAIN taken |-> [sale |-> taken[i], doc |-> jobs[taken[i]]]]
<1>4. JobsAreSound(todo)
  <2>1. Len(taken) \in Nat /\ DOMAIN taken = 1 .. Len(taken) /\ \A i \in 1 .. Len(taken) : taken[i] \in Sales /\ Exists(taken[i])
    <3>1. Len(taken) \in Nat /\ DOMAIN taken = 1 .. Len(taken)
      BY <1>3, LenProperties
    <3>2. \A i \in 1 .. Len(taken) : taken[i] \in known
      BY <1>3, ElementOfSeq
    <3> QED BY <3>1, <3>2
  <2>2. ASSUME NEW i \in 1 .. Len(taken) PROVE [sale |-> taken[i], doc |-> jobs[taken[i]]] \in Job
    BY <1>1, <2>1 DEF Job, RecordsTypeOK
  <2>3. todo \in [1 .. Len(taken) -> Job]
    BY <2>1, <2>2
  <2>4. todo \in Seq(Job) /\ Len(todo) = Len(taken)
    <3> HIDE DEF todo
    <3> QED BY <2>1, <2>3
  <2>5. ASSUME NEW i \in 1 .. Len(taken) PROVE JobIsSound(todo[i])
    <3>1. PICK s \in Sales : s = taken[i] /\ Exists(s)
      BY <2>1
    <3>2. PICK job : job = todo[i]
      OBVIOUS
    <3>3. job.sale = s /\ job.doc = jobs[s]
      BY <2>1, <3>1, <3>2
    <3> HIDE DEF todo
    <3>4. jobs[s].status = "complete" => Over(s, jobs[s])
      BY <3>1 DEF RecordsAreInOrder, DocumentsAreOver
    <3>5. JobIsSound(job)
      BY <3>1, <3>3, <3>4 DEF JobIsSound
    <3> QED BY <3>2, <3>5
  <2> HIDE DEF todo
  <2> QED BY <2>4, <2>5 DEF JobsAreSound
<1>5. PICK p : p = [Idle EXCEPT !.todo = <<Nothing>> \o todo]
  OBVIOUS
<1>6. Becoming(w, NextJob(p)) /\ UNCHANGED <<scenario, sale, jobs, claims, chain, fork, era, journal>>
  BY <1>2, <1>5 DEF Take
<1> HIDE DEF todo
<1>7. p.todo = <<Nothing>> \o todo
  BY <1>5, IdleIs DEF Built
<1>8. Tail(p.todo) = todo
  <2>1. todo \in Seq(Job)
    BY <1>4 DEF JobsAreSound
  <2> QED BY <1>7, <2>1, RestOfJoined
<1>9. PlaceIsSound(NextJob(p))
  BY <1>1, <1>4, <1>8, NextJobIsSound
<1> QED BY <1>6, <1>9, LocalKeeps

(***************************************************************************)
(* The whole system.                                                         *)
(***************************************************************************)
LEMMA StepKeeps ==
  ASSUME RecordsAreInOrder, WorkersAreSound, NEW w \in Workers, Step(w) \/ Fail(w) \/ ProcessDies(w)
  PROVE  RecordsAreInOrder' /\ WorkersAreSound'
<1>1. CASE Cycle(w)
  BY <1>1, ReconcileKeeps, SelectKeeps, CheckCompleteKeeps DEF Cycle
<1>2. CASE Unfunded(w)
  BY <1>2, ReadOfferKeeps, ReadAuthorizationKeeps, RecheckKeeps, CloseKeeps, ClaimContentKeeps, ReadBoughtKeeps, WaitKeeps
  DEF Unfunded
<1>3. CASE Settlement(w)
  BY <1>3, FundedKeeps, RefundingKeeps, FinalizingKeeps, PaysKeep, TransactKeeps, RereadKeeps, SoldKeeps, SaveKeeps,
     AssessKeeps, RecordErrorKeeps
  DEF Settlement
<1>4. CASE Restart(w) \/ Fail(w) \/ ProcessDies(w)
  BY <1>4, FaultsKeep
<1> QED BY <1>1, <1>2, <1>3, <1>4 DEF Step

LEMMA UsersKeep ==
  ASSUME RecordsAreInOrder, WorkersAreSound, Users
  PROVE  RecordsAreInOrder' /\ WorkersAreSound'
<1>1. CASE \E d \in scenario.deals : Prepare(d.sale, d.kind, d.listing)
  <2>1. PICK d \in scenario.deals : Prepare(d.sale, d.kind, d.listing)
    BY <1>1
  <2>2. d \in Deal
    BY DEF RecordsAreInOrder, RecordsTypeOK, Scenario
  <2>3. PICK s \in Sales, kind \in Kinds, l \in Listings : s = d.sale /\ kind = d.kind /\ l = d.listing
    BY <2>2 DEF Deal, Kinds
  <2>4. Prepare(s, kind, l)
    BY <2>1, <2>3
  <2> QED BY <2>4, PrepareKeeps
<1>2. CASE \/ \E s \in Sales : Fund(s) \/ CreateOffer(s) \/ AcceptOffer(s) \/ CancelOffer(s)
           \/ \E s \in Sales : PassDeadline(s) \/ Dispute(s) \/ Vote(s)
  BY <1>2, UsersOnChainKeep
<1>3. CASE \E l \in Listings : Revoke(l)
  BY <1>3, UsersOnChainKeep
<1>4. CASE \E op \in Op : ByHand(op)
  BY <1>4, UsersOnChainKeep
<1> QED BY <1>1, <1>2, <1>3, <1>4 DEF Users

\* The era changes with the branch only, and there is none after the second.
LEMMA UsersStayInTheEra ==
  ASSUME Users PROVE era' = era
BY DEF Users, Prepare, Fund, CreateOffer, AcceptOffer, CancelOffer, PassDeadline, Dispute, Vote, Revoke, ByHand, OnChain

LEMMA WorkersStayInTheEra ==
  ASSUME NEW w, Step(w) \/ Fail(w) \/ ProcessDies(w)
  PROVE  era' = era
<1>1. CASE Cycle(w)
  BY <1>1 DEF Cycle, Reconcile, Select, Take, CheckComplete, Local
<1>2. CASE Unfunded(w)
  BY <1>2 DEF Unfunded, ReadOffer, ReadAuthorization, Recheck, Close, ClaimContent, ReadBought, Wait, Local, Writes
<1>3. CASE Settlement(w)
  BY <1>3 DEF Settlement, Funded, Refunding, Finalizing, PayRefund, PaySeller, PayOut, Transact, Reread, Sold, Save, Assess,
              RecordError, Local, Writes
<1>4. CASE Restart(w) \/ Fail(w) \/ ProcessDies(w)
  BY <1>4 DEF Restart, Fail, ProcessDies, Local
<1> QED BY <1>1, <1>2, <1>3, <1>4 DEF Step

LEMMA NothingKeeps ==
  ASSUME RecordsAreInOrder, WorkersAreSound, UNCHANGED <<scenario, sale, jobs, claims, chain, journal, at>>, era' \in {0, 1}
  PROVE  RecordsAreInOrder' /\ WorkersAreSound'
<1>1. RecordsTypeOK
  BY DEF RecordsAreInOrder
<1>2. ChainStep /\ RowsAreOfSales' /\ Kept
  BY <1>1, NothingSteps, RowsAreKept, NothingIsTaken
<1>3. UnknownIsUnfunded' /\ RevokedIsUnused' /\ DirectIsOrdinary' /\ AliveSalesHold' /\ DocumentsAreOver'
  BY <1>2, ChainStepKeeps, HoldingIsKept, DocumentsAreKept
<1>4. RecordsTypeOK'
  BY <1>1 DEF RecordsTypeOK
<1>5. WorkersAreSound'
  BY <1>1, <1>2, WorkersStay
<1> QED BY <1>2, <1>3, <1>4, <1>5 DEF RecordsAreInOrder

LEMMA InitIsInOrder ==
  ASSUME Init
  PROVE  SaleWorkerInv
<1>1. /\ scenario \in Scenario /\ era = 0 /\ journal = <<>>
      /\ sale = [s \in Sales |-> NoSale] /\ jobs = [s \in Sales |-> NewJob("ordinary")]
      /\ claims = [c \in Contents |-> NoClaim] /\ at = [w \in Workers |-> Idle]
      /\ chain = [status |-> [s \in Sales |-> "none"], due |-> {}, direct |-> {}, revoked |-> {}, owed |-> {}]
  BY ScenarioAssumption DEF Init, ScenarioAssumption
<1>2. \A s \in Sales : ~Exists(s) /\ chain.status[s] = "none"
  BY <1>1 DEF Exists
<1>3. NewJob("ordinary") \in Doc
  BY DEF NewJob, Doc, JobStatuses, NoBlock
<1>4. chain \in Chain
  BY <1>1 DEF Chain, Statuses
<1>5. journal \in Seq(Row) /\ RowsAreOfSales
  <2>1. journal \in Seq(Row) /\ Len(journal) = 0
    BY <1>1, EmptySeq
  <2>2. DOMAIN journal = {}
    BY <2>1, LenProperties
  <2> QED BY <2>1, <2>2 DEF RowsAreOfSales
<1>6. RecordsTypeOK
  BY <1>1, <1>3, <1>4, <1>5 DEF RecordsTypeOK
<1>7. AliveSalesHold /\ UnknownIsUnfunded /\ RevokedIsUnused /\ DirectIsOrdinary /\ DocumentsAreOver
  BY <1>1, <1>2 DEF AliveSalesHold, Treasury, UnknownIsUnfunded, RevokedIsUnused, DirectIsOrdinary, DocumentsAreOver
<1>8. PlaceIsSound(Idle)
  <2>1. [Idle EXCEPT !.pc = "idle"] = Idle
    BY IdleIs DEF Built
  <2> QED BY <1>6, <2>1, IdleIsSound DEF Resting
<1>9. WorkersAreSound
  BY <1>1, <1>8 DEF WorkersAreSound, PlaceIsSound
<1> QED BY <1>5, <1>6, <1>7, <1>9 DEF SaleWorkerInv, RecordsAreInOrder

LEMMA SaleWorkerStepKeeps ==
  ASSUME SaleWorkerInv, [Next]_vars
  PROVE  SaleWorkerInv'
<1>1. CASE Users
  BY <1>1, UsersKeep, UsersStayInTheEra DEF SaleWorkerInv
<1>2. CASE Fork
  <2>1. era = 0 /\ era' = 1 /\ UNCHANGED <<scenario, sale, jobs, claims, chain, journal, at>>
    BY <1>2 DEF Fork
  <2>2. RecordsAreInOrder /\ WorkersAreSound
    BY <2>1 DEF SaleWorkerInv
  <2> QED BY <2>1, <2>2, NothingKeeps DEF SaleWorkerInv
<1>3. CASE Reorganize
  BY <1>3 DEF Reorganize, SaleWorkerInv
<1>4. ASSUME NEW w \in scenario.workers, Step(w) \/ Fail(w) \/ ProcessDies(w) PROVE SaleWorkerInv'
  <2>1. era' = era
    BY <1>4, WorkersStayInTheEra
  <2>2. CASE era # 2
    <3>1. RecordsAreInOrder /\ WorkersAreSound
      BY <2>2 DEF SaleWorkerInv
    <3>2. w \in Workers
      BY <3>1 DEF RecordsAreInOrder, RecordsTypeOK, Scenario
    <3> QED BY <1>4, <3>1, <3>2, StepKeeps DEF SaleWorkerInv
  <2> QED BY <2>1, <2>2 DEF SaleWorkerInv
<1>5. CASE UNCHANGED vars
  <2>1. era' = era /\ UNCHANGED <<scenario, sale, jobs, claims, chain, journal, at>>
    BY <1>5 DEF vars
  <2>2. CASE era # 2
    <3>1. RecordsAreInOrder /\ WorkersAreSound /\ era \in {0, 1}
      BY <2>2 DEF SaleWorkerInv, RecordsAreInOrder, RecordsTypeOK
    <3> QED BY <2>1, <3>1, NothingKeeps DEF SaleWorkerInv
  <2> QED BY <2>1, <2>2 DEF SaleWorkerInv
<1> QED BY <1>1, <1>2, <1>3, <1>4, <1>5 DEF Next

\* In every reachable state that no deep reorganization has rewritten, each reserve sale that is or may
\* still be funded holds its content, complete documents are of sales that are over, and what every
\* worker keeps in memory is of sales that exist and was read of states the chain cannot take back.
THEOREM SaleWorkerInvariant == Spec => []SaleWorkerInv
<1>1. Init => SaleWorkerInv
  BY InitIsInOrder
<1>2. SaleWorkerInv /\ [Next]_vars => SaleWorkerInv'
  BY SaleWorkerStepKeeps
<1> QED BY <1>1, <1>2, PTL DEF Spec

\* A funded reserve sale's claim on its content is never lost (contentReservations, processSalesCycle).
THEOREM FundedContentStaysHeld == Spec => []FundedContentIsHeld
<1>1. SaleWorkerInv => FundedContentIsHeld
  BY DEF SaleWorkerInv, RecordsAreInOrder, AliveSalesHold, FundedContentIsHeld, Reorganized, Alive, Holds
<1> QED BY <1>1, SaleWorkerInvariant, PTL

\* No worker, and no older copy that one writes back, completes a job whose sale is not over on the chain.
THEOREM CompletedSalesAreOver == Spec => []CompleteJobsAreOver
<1>1. SaleWorkerInv => CompleteJobsAreOver
  BY DEF SaleWorkerInv, RecordsAreInOrder, DocumentsAreOver, CompleteJobsAreOver, Reorganized
<1> QED BY <1>1, SaleWorkerInvariant, PTL
=============================================================================
