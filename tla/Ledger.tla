------------------------------- MODULE Ledger -------------------------------
(***************************************************************************)
(* The double-entry ledger of packages/ledger.  A book is a function from    *)
(* the references of the journals posted so far to their postings; postings  *)
(* are a function from accounts <<name, owner>> to amounts.  No balance is    *)
(* stored: accountBalance adds up the entries of an account.  The books of   *)
(* the models have one currency.                                           *)
(***************************************************************************)
EXTENDS Integers, FiniteSetsExt, Functions, TLC

Cash == <<"ASSET:cash", "network">>
NoBook == <<>>

\* The same journal posted again is the journal that is there.  postJournal refuses
\* postings that do not add up to zero, which those of Move do, and other postings under
\* a used reference, which no caller has: a reference names the one row it is posted for.
postJournal(book, reference, postings) ==
  IF reference \in DOMAIN book THEN book
  ELSE [known \in DOMAIN book \cup {reference} |-> IF known = reference THEN postings ELSE book[known]]

\* Journals under different references, one after the other.
postJournals(book, journals) ==
  [known \in DOMAIN book \cup DOMAIN journals |-> IF known \in DOMAIN book THEN book[known] ELSE journals[known]]

accountBalance(book, account) ==
  SumFunction([reference \in DOMAIN book |-> IF account \in DOMAIN book[reference] THEN book[reference][account] ELSE 0])

\* A liability is kept negative; what is owed is its opposite.
Owed(book, name, owner) == 0 - accountBalance(book, <<name, owner>>)

\* Postings that move an amount out of an account and into others.
Move(from, into) ==
  [account \in {from} \cup DOMAIN into |->
     IF account = from THEN SumFunction(into) ELSE 0 - into[account]]

Into(account, amount) == [to \in {account} |-> amount]

\* splitSale without direct costs: 65% and 20% rounded down, the operator has the rest.
splitSale(gross) ==
  LET contributor == (gross * 65) \div 100
      burn == (gross * 20) \div 100
  IN [contributor |-> contributor, burn |-> burn, operator |-> gross - contributor - burn]

\* reserveInferenceIn and settleInferenceIn: credit is set apart for a reservation; what
\* was used of it goes to the payee and the rest is credit again.
Credit == "LIABILITY:contributor_inference_credit"
Reserved == "LIABILITY:inference_reserved"
reserveJournal(book, reservation, entitlement, amount) ==
  postJournal(book, <<"reserve", reservation>>, Move(<<Credit, entitlement>>, Into(<<Reserved, reservation>>, amount)))
usagePostings(reservation, entitlement, amount, actual, payee) ==
  Move(<<Reserved, reservation>>, [to \in {<<Credit, entitlement>>, payee} |-> IF to = payee THEN actual ELSE amount - actual])
usageJournal(book, reservation, entitlement, amount, actual, payee) ==
  postJournal(book, <<"usage", reservation>>, usagePostings(reservation, entitlement, amount, actual, payee))
=============================================================================
