--------------------------- MODULE OperatorJournal ---------------------------
(***************************************************************************)
(* The operator's transactions: packages/chain/thot.ts signs them and       *)
(* packages/market/src/thot-market.ts keeps the journal they are re-sent    *)
(* from.  Every worker is one process with its own operatorQueue, so it     *)
(* runs one operation at a time; workers share the journal's rows and the   *)
(* operator's key.  A step of a worker is one database transaction or one   *)
(* read of the chain, because other workers and the chain move in between.  *)
(*                                                                         *)
(* The chain is a tree of blocks.  A block carries at most one transaction  *)
(* of the operator, and its execution succeeds or reverts; a transaction    *)
(* may fare differently in another branch.  Contents, gas and signatures    *)
(* are abstracted: a transaction is its operation, its nonce and a fee,     *)
(* which stands for everything that makes two signed copies differ.         *)
(***************************************************************************)
EXTENDS Naturals, FiniteSets, Sequences

CONSTANTS
  Workers,        \* processes that hold the operator's key
  Ops,            \* logical operations: one journal key each
  Foreign,        \* the operation of a transaction sent outside the journal
  Fees,           \* what two signed copies of one operation may differ in
  None,           \* no entry, no transaction, no operation
  CONFIRMATIONS,  \* config.confirmations
  MAX_REORGS,     \* bound: how often the canonical chain changes
  MAX_FOREIGN     \* bound: transactions sent outside the journal

ASSUME OperatorAssumption ==
  /\ Foreign \notin Ops
  /\ IsFiniteSet(Ops)
  /\ None \notin Ops \cup {Foreign}
  /\ CONFIRMATIONS \in Nat \ {0}
  /\ MAX_REORGS \in Nat /\ MAX_FOREIGN \in Nat

VARIABLES
  blocks,   \* every block ever built, as a sequence: its ancestry, its transaction, its outcome
  head,     \* the newest block of the canonical chain, 0 for the deployment block
  sent,     \* transactions the network has received
  pool,     \* those the node still remembers
  journal,  \* the journal's row of an operation
  at,       \* where a worker is, and what it has read
  reorgs    \* how often the canonical chain has changed

vars == <<blocks, head, sent, pool, journal, at, reorgs>>

(***************************************************************************)
(* The chain.                                                              *)
(***************************************************************************)
Tx == [op : Ops \cup {Foreign}, nonce : Nat, fee : Fees]
Block == [past : SUBSET Nat, tx : Tx \cup {None}, ok : BOOLEAN]

Past(b) == IF b = 0 THEN {} ELSE blocks[b].past     \* a block and its ancestors
Canonical == Past(head)
TxsUpTo(b) == {blocks[x].tx : x \in {y \in Past(b) : blocks[y].tx # None}}
AccountNonce == Cardinality(TxsUpTo(head))          \* getTransactionCount(from, 'latest')

\* getTransactionCount(from, 'pending'): the number past the run of remembered
\* transactions (as a set of one element).
PendingNonce ==
  LET free == {n \in AccountNonce .. AccountNonce + Cardinality(pool) : \A t \in pool : t.nonce # n}
  IN {n \in free : \A m \in free : n <= m}

Depth(b) == Cardinality({x \in Canonical : b \in Past(x)})
IncludedAt(t) == {b \in Canonical : blocks[b].tx = t}
Mined(t) == IncludedAt(t) # {}
BlockOf(t) == CHOOSE b \in IncludedAt(t) : TRUE

\* isCanonicalBlock: on the canonical chain and no newer than the confirmed snapshot.
IsCanonicalBlock(b) == b \in Canonical /\ Depth(b) >= CONFIRMATIONS

Extend(tx, ok) ==
  /\ blocks' = Append(blocks, [past |-> Canonical \cup {Len(blocks) + 1}, tx |-> tx, ok |-> ok])
  /\ head' = Len(blocks) + 1
  /\ UNCHANGED <<sent, pool, journal, at, reorgs>>

MineTransaction(t) ==
  /\ t \in sent
  /\ t.nonce = AccountNonce
  /\ \E ok \in BOOLEAN : Extend(t, ok)

\* Empty blocks are built only while a transaction still waits for confirmations.
MineEmpty ==
  /\ \E b \in Canonical : blocks[b].tx # None /\ Depth(b) < CONFIRMATIONS
  /\ Extend(None, TRUE)

\* The canonical chain becomes the one that ends in another known block.
Reorganize(b) ==
  /\ reorgs < MAX_REORGS
  /\ b # head
  /\ head' = b
  /\ reorgs' = reorgs + 1
  /\ UNCHANGED <<blocks, sent, pool, journal, at>>

\* A node may forget a transaction, also one that a reorganization gives back.
Forget(t) ==
  /\ t \in pool
  /\ pool' = pool \ {t}
  /\ UNCHANGED <<blocks, head, sent, journal, at, reorgs>>

\* The key is used by hand, outside the journal.
SendForeign(fee) ==
  /\ Cardinality({t \in sent : t.op = Foreign}) < MAX_FOREIGN
  /\ \E n \in PendingNonce : LET t == [op |-> Foreign, nonce |-> n, fee |-> fee]
                           IN sent' = sent \cup {t} /\ pool' = pool \cup {t}
  /\ UNCHANGED <<blocks, head, journal, at, reorgs>>

(***************************************************************************)
(* The journal.                                                            *)
(***************************************************************************)
Statuses == {"pending", "confirmed", "reverted"}
Entry == [tx : Tx, status : Statuses, block : Nat]   \* block 0: none recorded

ASSUME NoneAssumption == None \notin Tx \cup Entry

Rows == {journal[o] : o \in {p \in Ops : journal[p] # None}}

\* The rows of a list, as the sequence sorted by nonce.
ByNonce(rows) ==
  {s \in [1 .. Cardinality(rows) -> rows] :
     \A i, j \in DOMAIN s : i < j => s[i] # s[j] /\ s[i].tx.nonce <= s[j].tx.nonce}

\* The row of the newest recorded block, if there is one.
Recorded == {e \in Rows : e.block # 0}
Latest == {e \in Recorded : \A f \in Recorded : f.tx.nonce <= e.tx.nonce}

CanPut_AnyNonce(e) ==
  LET previous == journal[e.tx.op]
      others == {f \in Rows : f.tx.op # e.tx.op}
  IN /\ previous # None => previous.tx = e.tx
     /\ previous = None => \A f \in others : f.status # "pending"

\* put: a row keeps its transaction for good, only one first send is open at a
\* time, and no nonce is given out twice.
CanPut(e) ==
  LET previous == journal[e.tx.op]
      others == {f \in Rows : f.tx.op # e.tx.op}
  IN /\ previous # None => previous.tx = e.tx
     /\ previous = None => \A f \in others : f.status # "pending"
     /\ \A f \in others : f.tx.nonce # e.tx.nonce
Put(e) == journal' = [journal EXCEPT ![e.tx.op] = e]

(***************************************************************************)
(* A worker.                                                               *)
(***************************************************************************)
Settling == {"receipt", "nonce", "reset", "broadcast", "wait", "canonical", "record"}
Pcs == Settling \cup {"idle", "down", "latest", "newest", "history", "search", "unsettled",
                     "lookup", "sign", "put", "return"}
Whys == {"none", "suffix", "unsettled", "own"}   \* which loop an entry is settled for

Place ==
  [pc : Pcs, op : Ops \cup {None}, why : Whys, todo : Seq(Entry),
   latest : Entry \cup {None}, span : Nat, tx : Tx \cup {None}, receipt : Nat]

Idle == [pc |-> "idle", op |-> None, why |-> "none", todo |-> <<>>,
         latest |-> None, span |-> 0, tx |-> None, receipt |-> 0]

Goto(w, pc) == at' = [at EXCEPT ![w].pc = pc]
Throw(w) == at' = [at EXCEPT ![w] = Idle]
StillChain == UNCHANGED <<blocks, head, sent, pool, reorgs>>
OnlyWorker == StillChain /\ UNCHANGED journal
Current(w) == Head(at[w].todo)

\* operatorTransaction (op in Ops) or reconcileOperatorTransactions (op = None).
Begin(w, op) ==
  /\ at[w].pc = "idle"
  /\ at' = [at EXCEPT ![w] = [Idle EXCEPT !.pc = "latest", !.op = op]]
  /\ OnlyWorker

ReadLatest(w) ==
  /\ at[w].pc = "latest"
  /\ \/ Recorded = {} /\ Goto(w, "unsettled")
     \/ \E e \in Latest : at' = [at EXCEPT ![w].latest = e, ![w].pc = "newest"]
  /\ OnlyWorker

CheckNewest_Trusts(w) ==
  /\ at[w].pc = "newest"
  /\ at' = [at EXCEPT ![w].latest = None, ![w].pc = "unsettled"]
  /\ OnlyWorker

CheckNewest(w) ==
  /\ at[w].pc = "newest"
  /\ at' = [at EXCEPT ![w].latest = None,
              ![w].pc = IF IsCanonicalBlock(at[w].latest.block) THEN "unsettled" ELSE "history"]
  /\ OnlyWorker

ReadHistory(w) ==
  /\ at[w].pc = "history"
  /\ \E history \in ByNonce(Rows) :
       at' = [at EXCEPT ![w].todo = history, ![w].span = Len(history), ![w].pc = "search"]
  /\ OnlyWorker

\* One probe of the binary search for the reorganized suffix: todo is the history
\* from the search's low end on, and span is how far its high end lies above it.
Probe(w) ==
  LET todo == at[w].todo
      mid == at[w].span \div 2 + 1
  IN /\ at[w].pc = "search"
     /\ at[w].span > 0
     /\ at' = IF IsCanonicalBlock(todo[mid].block)
              THEN [at EXCEPT ![w].todo = SubSeq(todo, mid + 1, Len(todo)), ![w].span = @ - mid]
              ELSE [at EXCEPT ![w].span = mid - 1]
     /\ OnlyWorker

Searched(w) ==
  /\ at[w].pc = "search"
  /\ at[w].span = 0
  /\ at' = [at EXCEPT ![w].why = "suffix",
              ![w].pc = IF at[w].todo = <<>> THEN "unsettled" ELSE "receipt"]
  /\ OnlyWorker

\* Where a call goes once everything recorded is settled.
Reconciled(w) == IF at[w].op = None THEN "return" ELSE "lookup"

ReadUnsettled(w) ==
  /\ at[w].pc = "unsettled"
  /\ \E rows \in ByNonce({e \in Rows : e.status = "pending"}) :
       at' = [at EXCEPT ![w].todo = rows, ![w].why = "unsettled",
                        ![w].pc = IF rows # <<>> THEN "receipt" ELSE Reconciled(w)]
  /\ OnlyWorker

\* settleJournal: look for a receipt on the canonical chain.
FindReceipt(w) ==
  /\ at[w].pc = "receipt"
  /\ Goto(w, IF Mined(Current(w).tx) THEN "wait" ELSE "nonce")
  /\ OnlyWorker

\* A nonce consumed by another transaction needs a person.
CheckNonce(w) ==
  /\ at[w].pc = "nonce"
  /\ IF AccountNonce <= Current(w).tx.nonce
     THEN Goto(w, IF Current(w).status = "pending" THEN "broadcast" ELSE "reset")
     ELSE Throw(w)
  /\ OnlyWorker

Reset_KeepsBlock(w) ==
  LET e == [Current(w) EXCEPT !.status = "pending"]
  IN /\ at[w].pc = "reset"
     /\ IF CanPut(e)
        THEN /\ Put(e)
             /\ at' = [at EXCEPT ![w].todo = <<e>> \o Tail(@), ![w].pc = "broadcast"]
        ELSE Throw(w) /\ UNCHANGED journal
     /\ StillChain

\* The entry is pending again, without a block, before it is sent again.
Reset(w) ==
  LET e == [Current(w) EXCEPT !.status = "pending", !.block = 0]
  IN /\ at[w].pc = "reset"
     /\ IF CanPut(e)
        THEN /\ Put(e)
             /\ at' = [at EXCEPT ![w].todo = <<e>> \o Tail(@), ![w].pc = "broadcast"]
        ELSE Throw(w) /\ UNCHANGED journal
     /\ StillChain

\* The answer of the network is ignored: it may not have received anything.
Send(w) ==
  /\ at[w].pc = "broadcast"
  /\ Goto(w, "wait")
  /\ UNCHANGED <<blocks, head, journal, reorgs>>
Deliver(w) ==
  /\ Send(w)
  /\ sent' = sent \cup {Current(w).tx} /\ pool' = pool \cup {Current(w).tx}
Lose(w) == Send(w) /\ UNCHANGED <<sent, pool>>

WaitForReceipt(w) ==
  LET t == Current(w).tx
  IN /\ at[w].pc = "wait"
     /\ IF Mined(t) /\ Depth(BlockOf(t)) >= CONFIRMATIONS
        THEN at' = [at EXCEPT ![w].receipt = BlockOf(t), ![w].pc = "canonical"]
        ELSE Throw(w)                  \* the timeout
     /\ OnlyWorker

CheckReceipt(w) ==
  /\ at[w].pc = "canonical"
  /\ IF IsCanonicalBlock(at[w].receipt) THEN Goto(w, "record") ELSE Throw(w)
  /\ OnlyWorker

\* What follows an entry that is settled, with todo still to settle.
AfterEntry(w, todo) ==
  IF todo # <<>> THEN "receipt"
  ELSE CASE at[w].why = "suffix" -> "unsettled"
         [] at[w].why = "unsettled" -> Reconciled(w)
         [] OTHER -> "return"

\* A reverted transaction ends the call, except while a suffix is replayed.
Record(w) ==
  LET b == at[w].receipt
      ok == blocks[b].ok
      e == [Current(w) EXCEPT !.status = IF ok THEN "confirmed" ELSE "reverted", !.block = b]
      rest == Tail(at[w].todo)
  IN /\ at[w].pc = "record"
     /\ IF CanPut(e)
        THEN /\ Put(e)
             /\ IF ok \/ at[w].why = "suffix"
                THEN at' = [at EXCEPT ![w].todo = rest, ![w].receipt = 0, ![w].pc = AfterEntry(w, rest)]
                ELSE Throw(w)
        ELSE Throw(w) /\ UNCHANGED journal
     /\ StillChain

\* An operation that has a row is only ever settled again.
LookUp(w) ==
  LET previous == journal[at[w].op]
  IN /\ at[w].pc = "lookup"
     /\ at' = IF previous # None
              THEN [at EXCEPT ![w].todo = <<previous>>, ![w].why = "own", ![w].pc = "receipt"]
              ELSE [at EXCEPT ![w].pc = "sign"]
     /\ OnlyWorker

Sign(w, fee) ==
  /\ at[w].pc = "sign"
  /\ \E n \in PendingNonce :
       at' = [at EXCEPT ![w].tx = [op |-> at[w].op, nonce |-> n, fee |-> fee], ![w].pc = "put"]
  /\ OnlyWorker

PutSigned_Anyway(w) ==
  LET e == [tx |-> at[w].tx, status |-> "pending", block |-> 0]
  IN /\ at[w].pc = "put"
     /\ IF CanPut(e) THEN Put(e) ELSE UNCHANGED journal
     /\ at' = [at EXCEPT ![w].tx = None, ![w].todo = <<e>>, ![w].why = "own", ![w].pc = "receipt"]
     /\ StillChain

\* The row is committed before the first send.
PutSigned(w) ==
  LET e == [tx |-> at[w].tx, status |-> "pending", block |-> 0]
  IN /\ at[w].pc = "put"
     /\ IF CanPut(e)
        THEN /\ Put(e)
             /\ at' = [at EXCEPT ![w].tx = None, ![w].todo = <<e>>, ![w].why = "own", ![w].pc = "receipt"]
        ELSE Throw(w) /\ UNCHANGED journal
     /\ StillChain

Return(w) ==
  /\ at[w].pc = "return"
  /\ Throw(w)
  /\ OnlyWorker

\* The process dies, or a call to the chain or the database fails: what the
\* worker read is lost, and it starts over.
Crash(w) ==
  /\ at[w].pc \notin {"idle", "down"}
  /\ at' = [at EXCEPT ![w] = [Idle EXCEPT !.pc = "down"]]
  /\ OnlyWorker

Restart(w) ==
  /\ at[w].pc = "down"
  /\ Throw(w)
  /\ OnlyWorker

Init ==
  /\ blocks = <<>>
  /\ head = 0
  /\ sent = {} /\ pool = {}
  /\ journal = [o \in Ops |-> None]
  /\ at = [w \in Workers |-> Idle]
  /\ reorgs = 0

Reconcile(w) ==
  \/ ReadLatest(w) \/ CheckNewest(w) \/ ReadHistory(w)
  \/ Probe(w) \/ Searched(w) \/ ReadUnsettled(w)
Settle(w) ==
  \/ FindReceipt(w) \/ CheckNonce(w) \/ Reset(w) \/ Deliver(w) \/ Lose(w)
  \/ WaitForReceipt(w) \/ CheckReceipt(w) \/ Record(w)
Submit(w) == LookUp(w) \/ (\E fee \in Fees : Sign(w, fee)) \/ PutSigned(w)
Step(w) == Reconcile(w) \/ Settle(w) \/ Submit(w) \/ Return(w) \/ Restart(w)

Chain ==
  \/ \E t \in sent : MineTransaction(t) \/ Forget(t)
  \/ MineEmpty
  \/ \E b \in 0 .. Len(blocks) : Reorganize(b)
  \/ \E fee \in Fees : SendForeign(fee)

Next ==
  \/ Chain
  \/ \E w \in Workers : Step(w) \/ Crash(w) \/ (\E op \in Ops \cup {None} : Begin(w, op))

Spec == Init /\ [][Next]_vars

(***************************************************************************)
(* Fairness: a process keeps taking its steps and stops failing at some     *)
(* point; the worker's cycle (processSales) reconciles each time and asks   *)
(* again for what is not settled; a transaction that is sent again and      *)
(* again gets through once; one that a node holds again and again is mined. *)
(***************************************************************************)
Settled(o) == journal[o] # None /\ journal[o].status # "pending"

WorkerFairness(w) ==
  /\ WF_vars(Step(w))
  /\ SF_vars(Deliver(w))
  /\ SF_vars(Begin(w, None))
  /\ \A o \in Ops : SF_vars(~Settled(o) /\ Begin(w, o))
  /\ <>[][~Crash(w)]_vars
ChainFairness == SF_vars(\E t \in pool : MineTransaction(t)) /\ WF_vars(MineEmpty)
Fairness == (\A w \in Workers : WorkerFairness(w)) /\ ChainFairness

FairSpec == Spec /\ Fairness

(***************************************************************************)
(* Properties.                                                             *)
(***************************************************************************)

PlaceOK(p) ==
  /\ p \in Place
  /\ p.pc = "search" => p.span <= Len(p.todo)
  /\ p.pc \in Settling => p.todo # <<>>
  /\ p.pc \in {"lookup", "sign", "put"} => p.op \in Ops
  /\ p.pc = "put" => p.tx # None /\ p.tx.op = p.op
  /\ p.pc \in {"canonical", "record"} =>
       p.receipt \in 1 .. Len(blocks) /\ blocks[p.receipt].tx = Head(p.todo).tx

\* The type invariant: also what a worker holds at each place it can be.
TypeOK ==
  /\ blocks \in Seq(Block) /\ head \in 0 .. Len(blocks)
  /\ \A b \in 1 .. Len(blocks) : blocks[b].past \subseteq 1 .. b /\ b \in blocks[b].past
  /\ pool \subseteq sent /\ sent \subseteq Tx /\ IsFiniteSet(sent)
  /\ journal \in [Ops -> Entry \cup {None}]
  /\ at \in [Workers -> Place]
  /\ \A w \in Workers : PlaceOK(at[w])

\* Whatever the network has received for an operation is what the journal
\* holds for it, so an operation is never signed and sent a second time: not
\* after a crash between the put and the send, not by another worker, not
\* after a reorganization (settleJournal and operatorTransaction).
OnlyTheJournaledIsSent ==
  \A t \in sent : t.op \in Ops => journal[t.op] # None /\ journal[t.op].tx = t

\* Two operations of the journal never compete for one nonce, even when the
\* node forgot the first one's transaction and offers its nonce again.
NoNonceIsSharedOut ==
  \A t, u \in sent : t.op \in Ops /\ u.op \in Ops /\ t.nonce = u.nonce => t = u

\* A row that is settled names a block that really holds its transaction with
\* the recorded outcome; a pending row names none, whatever a reorganization
\* or another worker did between the reads and the write of settleJournal.
RecordsAreTrue ==
  \A e \in Rows :
    IF e.status = "pending" THEN e.block = 0
    ELSE /\ e.block \in 1 .. Len(blocks)
         /\ blocks[e.block].tx = e.tx
         /\ blocks[e.block].ok = (e.status = "confirmed")

\* An operation's row is never dropped and never gets another transaction.
RowsKeepTheirTransaction ==
  [][\A o \in Ops : journal[o] # None => journal'[o] # None /\ journal'[o].tx = journal[o].tx]_vars

\* Every operation a job keeps asking for is executed for good: its row is
\* settled and its transaction stays on the canonical chain, through crashes,
\* lost sends, reverts, reorganizations and other processes that do the same.
\* Only the key's use by hand can keep it waiting: behind a transaction that
\* took its nonce, which "needs explicit operator reconciliation" (thot.ts:374),
\* or behind one that took an earlier nonce and was lost.
StuckBehind(t) ==
  \E e \in Rows : ~Mined(e.tx) /\ (t.nonce = e.tx.nonce \/ (t.nonce < e.tx.nonce /\ ~Mined(t)))
EveryOperationLands ==
  <>[]((\E t \in sent : t.op = Foreign /\ StuckBehind(t)) \/ \A o \in Ops : Settled(o) /\ Mined(journal[o].tx))

\* thot.ts:392 says of the newest recorded block that checking it "also
\* verifies ancestry of earlier entries".
NewestVouchesForEarlier ==
  (\E e \in Latest : e.block \in Canonical) => \A e \in Recorded : e.block \in Canonical
=============================================================================
