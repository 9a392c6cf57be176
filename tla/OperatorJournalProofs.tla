------------------------ MODULE OperatorJournalProofs ------------------------
(***************************************************************************)
(* Proofs about OperatorJournal for any number of processes, operations     *)
(* and fees.  The type invariant comes first; then one inductive invariant  *)
(* about rows, sent transactions and what the processes hold, from which    *)
(* the safety properties follow.                                           *)
(***************************************************************************)
EXTENDS OperatorJournal, FiniteSetTheorems, SequenceTheorems, TLAPS

(***************************************************************************)
(* Facts about the data.                                                   *)
(***************************************************************************)

\* The image of a finite set under a function is finite.
LEMMA FiniteImage ==
  ASSUME NEW S, IsFiniteSet(S), NEW f, DOMAIN f = S
  PROVE  IsFiniteSet({f[x] : x \in S})
<1> DEFINE T == {f[x] : x \in S}
           g == [x \in S |-> f[x]]
<1>1. g \in [S -> T] /\ \A y \in T : \E x \in S : g[x] = y
  OBVIOUS
<1>2. g \in Surjection(S, T)
  BY <1>1 DEF Surjection
<1> QED
  BY <1>2, FS_Surjection

\* An entry's fields, and an entry is something.
LEMMA EntryFields ==
  ASSUME NEW e \in Entry
  PROVE  e # None /\ e.tx \in Tx /\ e.tx # None /\ e.tx.op \in Ops \cup {Foreign}
         /\ e.tx.nonce \in Nat /\ e.status \in Statuses /\ e.block \in Nat
BY NoneAssumption DEF Entry, Tx

\* The rows are finitely many entries.
LEMMA RowsFinite ==
  ASSUME journal \in [Ops -> Entry \cup {None}]
  PROVE  Rows \subseteq Entry /\ IsFiniteSet(Rows)
<1>1. Rows \subseteq Entry
  BY DEF Rows
<1>2. IsFiniteSet({journal[o] : o \in Ops})
  BY FiniteImage, OperatorAssumption
<1>3. Rows \in SUBSET {journal[o] : o \in Ops}
  BY DEF Rows
<1> QED
  BY <1>1, <1>2, <1>3, FS_Subset

\* A sorted list of rows is a sequence of them.
LEMMA ListOfRows ==
  ASSUME NEW rows, rows \subseteq Entry, IsFiniteSet(rows), NEW s \in ByNonce(rows)
  PROVE  s \in Seq(Entry) /\ Len(s) \in Nat /\ \A i \in DOMAIN s : s[i] \in rows
<1>1. Cardinality(rows) \in Nat
  BY FS_CardinalityType
<1>2. s \in [1 .. Cardinality(rows) -> rows]
  BY DEF ByNonce
<1>3. s \in Seq(rows)
  BY <1>1, <1>2
<1>4. s \in Seq(Entry)
  BY <1>3, SeqMonotonic
<1> QED
  BY <1>2, <1>4, LenProperties

\* Replacing the first element of a list.
LEMMA NewHead ==
  ASSUME NEW s \in Seq(Entry), s # <<>>, NEW e \in Entry
  PROVE  /\ <<e>> \o Tail(s) \in Seq(Entry)
         /\ <<e>> \o Tail(s) # <<>>
         /\ Len(<<e>> \o Tail(s)) = Len(s)
         /\ \A i \in 1 .. Len(s) : (<<e>> \o Tail(s))[i] = IF i = 1 THEN e ELSE s[i]
<1> DEFINE t == Tail(s)
<1>1. t \in Seq(Entry) /\ Len(t) = Len(s) - 1 /\ \A i \in 1 .. Len(t) : t[i] = s[i + 1]
  BY HeadTailProperties
<1>2. <<e>> \in Seq(Entry) /\ Len(<<e>>) = 1 /\ <<e>>[1] = e
  OBVIOUS
<1> HIDE DEF t
<1>3. /\ <<e>> \o t \in Seq(Entry)
      /\ Len(<<e>> \o t) = 1 + Len(t)
      /\ \A i \in 1 .. 1 + Len(t) : (<<e>> \o t)[i] = IF i <= 1 THEN <<e>>[i] ELSE t[i - 1]
  BY <1>1, <1>2, ConcatProperties
<1>4. Len(s) \in Nat /\ Len(s) # 0
  BY EmptySeq
<1>5. ASSUME NEW i \in 1 .. Len(s)
      PROVE  (<<e>> \o t)[i] = IF i = 1 THEN e ELSE s[i]
  <2>1. CASE i = 1
    BY <1>1, <1>2, <1>3, <1>4, <2>1
  <2>2. CASE i # 1
    <3>1. i - 1 \in 1 .. Len(t) /\ (i - 1) + 1 = i
      BY <1>1, <1>4, <2>2
    <3>2. t[i - 1] = s[i]
      BY <3>1, <1>1
    <3> QED
      BY <1>1, <1>3, <1>4, <2>2, <3>2
  <2> QED
    BY <2>1, <2>2
<1> QED
  BY <1>1, <1>3, <1>4, <1>5 DEF t

(***************************************************************************)
(* The chain.                                                              *)
(***************************************************************************)

\* The canonical chain is made of known blocks, and nonces are numbers.
LEMMA ChainFacts ==
  ASSUME TypeOK
  PROVE  /\ Len(blocks) \in Nat
         /\ Canonical \subseteq 1 .. Len(blocks)
         /\ AccountNonce \in Nat
         /\ PendingNonce \subseteq Nat
<1>1. Len(blocks) \in Nat
  BY DEF TypeOK
<1>2. Canonical \subseteq 1 .. Len(blocks)
  <2>1. CASE head = 0
    BY <2>1 DEF Canonical, Past
  <2>2. CASE head # 0
    <3>1. head \in 1 .. Len(blocks)
      BY <1>1, <2>2 DEF TypeOK
    <3>2. blocks[head].past \subseteq 1 .. head
      BY <3>1 DEF TypeOK
    <3>3. 1 .. head \subseteq 1 .. Len(blocks)
      BY <1>1, <3>1
    <3> QED
      BY <2>2, <3>2, <3>3 DEF Canonical, Past
  <2> QED
    BY <2>1, <2>2
<1>3. AccountNonce \in Nat
  <2> DEFINE S == {y \in Past(head) : blocks[y].tx # None}
             f == [x \in S |-> blocks[x].tx]
  <2>1. IsFiniteSet(S)
    <3>1. IsFiniteSet(1 .. Len(blocks))
      BY <1>1, FS_Interval
    <3>2. S \in SUBSET (1 .. Len(blocks))
      BY <1>2 DEF Canonical
    <3> QED
      BY <3>1, <3>2, FS_Subset
  <2>2. IsFiniteSet({f[x] : x \in S})
    <3> HIDE DEF S
    <3> QED
      BY <2>1, FiniteImage
  <2>3. {f[x] : x \in S} = TxsUpTo(head)
    BY DEF TxsUpTo
  <2> QED
    BY <2>2, <2>3, FS_CardinalityType DEF AccountNonce
<1>4. PendingNonce \subseteq Nat
  <2>1. pool \in SUBSET sent /\ IsFiniteSet(sent)
    BY DEF TypeOK
  <2>2. Cardinality(pool) \in Nat
    BY <2>1, FS_Subset, FS_CardinalityType
  <2>3. AccountNonce .. AccountNonce + Cardinality(pool) \subseteq Nat
    BY <1>3, <2>2
  <2> QED
    BY <2>3 DEF PendingNonce
<1> QED
  BY <1>1, <1>2, <1>3, <1>4

\* A mined transaction has a block on the canonical chain.
LEMMA BlockOfMined ==
  ASSUME TypeOK, NEW t, Mined(t)
  PROVE  BlockOf(t) \in 1 .. Len(blocks) /\ blocks[BlockOf(t)].tx = t
<1>1. BlockOf(t) \in IncludedAt(t)
  BY DEF Mined, BlockOf
<1> QED
  BY <1>1, ChainFacts DEF IncludedAt

\* A new block comes after all the others, which stay as they are.
LEMMA ExtendBlocks ==
  ASSUME TypeOK, NEW tx \in Tx \cup {None}, NEW ok \in BOOLEAN, Extend(tx, ok)
  PROVE  /\ blocks' \in Seq(Block) /\ Len(blocks') = Len(blocks) + 1
         /\ \A x \in 1 .. Len(blocks) : blocks'[x] = blocks[x]
         /\ blocks'[Len(blocks) + 1].past = Canonical \cup {Len(blocks) + 1}
<1> DEFINE n == Len(blocks)
           b == [past |-> Canonical \cup {n + 1}, tx |-> tx, ok |-> ok]
<1>1. n \in Nat /\ blocks \in Seq(Block) /\ Canonical \subseteq 1 .. n
  BY ChainFacts DEF TypeOK
<1>2. b \in Block /\ b.past = Canonical \cup {n + 1}
  <2> HIDE DEF n
  <2>0. n + 1 \in Nat /\ \A x \in 1 .. n : x \in Nat
    BY <1>1
  <2>1. Canonical \cup {n + 1} \subseteq Nat
    BY <1>1, <2>0
  <2> USE DEF n
  <2> QED
    BY <2>1 DEF Block
<1>3. blocks' = Append(blocks, b)
  BY DEF Extend
<1> HIDE DEF b
<1> QED
  BY <1>1, <1>2, <1>3

\* A step of the chain keeps the type invariant.
LEMMA ExtendType ==
  ASSUME TypeOK, NEW tx \in Tx \cup {None}, NEW ok \in BOOLEAN, Extend(tx, ok)
  PROVE  TypeOK'
<1> DEFINE n == Len(blocks)
<1>1. n \in Nat /\ Canonical \subseteq 1 .. n
  BY ChainFacts
<1>3. head' = n + 1
  BY DEF Extend
<1>4. /\ blocks' \in Seq(Block) /\ Len(blocks') = n + 1
      /\ \A x \in 1 .. n : blocks'[x] = blocks[x]
      /\ blocks'[n + 1].past = Canonical \cup {n + 1}
  BY ExtendBlocks
<1>5. \A x \in 1 .. Len(blocks') : blocks'[x].past \subseteq 1 .. x /\ x \in blocks'[x].past
  <2> SUFFICES ASSUME NEW x \in 1 .. n + 1
               PROVE  blocks'[x].past \subseteq 1 .. x /\ x \in blocks'[x].past
    BY <1>4
  <2>1. CASE x \in 1 .. n
    BY <1>4, <2>1 DEF TypeOK
  <2>2. CASE x = n + 1
    <3>1. blocks'[x].past = Canonical \cup {n + 1}
      BY <1>4, <2>2
    <3> HIDE DEF n
    <3>2. n + 1 \in 1 .. n + 1 /\ \A y \in 1 .. n : y \in 1 .. n + 1
      BY <1>1
    <3>3. Canonical \cup {n + 1} \subseteq 1 .. n + 1
      BY <1>1, <3>2
    <3> QED
      BY <2>2, <3>1, <3>2, <3>3
  <2>3. x \in 1 .. n \/ x = n + 1
    <3> HIDE DEF n
    <3> QED
      BY <1>1
  <2> QED
    BY <2>1, <2>2, <2>3
<1>6. \A w \in Workers : PlaceOK(at[w])'
  <2> SUFFICES ASSUME NEW w \in Workers PROVE PlaceOK(at[w])'
    OBVIOUS
  <2>1. PlaceOK(at[w]) /\ at' = at
    BY DEF TypeOK, Extend
  <2>2. at[w].receipt \in 1 .. n => at[w].receipt \in 1 .. Len(blocks') /\ blocks'[at[w].receipt] = blocks[at[w].receipt]
    BY <1>1, <1>4
  <2> QED
    BY <2>1, <2>2 DEF PlaceOK
<1>7. head' \in 0 .. Len(blocks')
  BY <1>1, <1>3, <1>4
<1>8. UNCHANGED <<sent, pool, journal, at>>
  BY DEF Extend
<1> QED
  BY <1>4, <1>5, <1>6, <1>7, <1>8 DEF TypeOK

\* Nothing about places changes while the blocks and the places do not.
LEMMA SamePlaces ==
  ASSUME TypeOK, UNCHANGED <<blocks, at>>
  PROVE  at' \in [Workers -> Place] /\ \A w \in Workers : PlaceOK(at[w])'
BY DEF TypeOK, PlaceOK

LEMMA ChainType ==
  ASSUME TypeOK, Chain
  PROVE  TypeOK'
<1>1. ASSUME NEW t \in sent, MineTransaction(t) PROVE TypeOK'
  <2>1. t \in Tx \cup {None}
    BY DEF TypeOK
  <2> QED
    BY <1>1, <2>1, ExtendType DEF MineTransaction
<1>2. ASSUME NEW t \in sent, Forget(t) PROVE TypeOK'
  BY <1>2, SamePlaces DEF TypeOK, Forget
<1>3. ASSUME MineEmpty PROVE TypeOK'
  BY <1>3, ExtendType DEF MineEmpty
<1>4. ASSUME NEW b \in 0 .. Len(blocks), Reorganize(b) PROVE TypeOK'
  BY <1>4, SamePlaces DEF TypeOK, Reorganize
<1>5. ASSUME NEW fee \in Fees, SendForeign(fee) PROVE TypeOK'
  <2>1. PICK n \in PendingNonce :
          LET t == [op |-> Foreign, nonce |-> n, fee |-> fee]
          IN sent' = sent \cup {t} /\ pool' = pool \cup {t}
    BY <1>5 DEF SendForeign
  <2> DEFINE t == [op |-> Foreign, nonce |-> n, fee |-> fee]
  <2>2. t \in Tx
    BY ChainFacts DEF Tx
  <2> HIDE DEF t
  <2>3. sent' = sent \cup {t} /\ pool' = pool \cup {t}
    BY <2>1 DEF t
  <2>4. IsFiniteSet(sent')
    BY <2>3, FS_AddElement DEF TypeOK
  <2>5. UNCHANGED <<blocks, head, journal, at>>
    BY <1>5 DEF SendForeign
  <2> QED
    BY <2>2, <2>3, <2>4, <2>5, SamePlaces DEF TypeOK
<1> QED
  BY <1>1, <1>2, <1>3, <1>4, <1>5 DEF Chain

(***************************************************************************)
(* The steps of a worker: where each one leaves it.                        *)
(***************************************************************************)

\* A worker's step that leaves it at a sound place keeps the type invariant.
LEMMA OnePlace ==
  ASSUME TypeOK, NEW w \in Workers, NEW p, PlaceOK(p), at' = [at EXCEPT ![w] = p],
         UNCHANGED <<blocks, head>>,
         pool' \subseteq sent' /\ sent' \subseteq Tx /\ IsFiniteSet(sent'),
         journal' \in [Ops -> Entry \cup {None}]
  PROVE  TypeOK'
<1>1. p \in Place
  BY DEF PlaceOK
<1>2. at' \in [Workers -> Place]
  BY <1>1 DEF TypeOK
<1>3. \A v \in Workers : PlaceOK(at[v])'
  <2> SUFFICES ASSUME NEW v \in Workers PROVE PlaceOK(at[v])'
    OBVIOUS
  <2>1. at'[v] = p \/ at'[v] = at[v]
    BY DEF TypeOK
  <2>2. PlaceOK(at[v]) /\ blocks' = blocks
    BY DEF TypeOK
  <2> QED
    BY <2>1, <2>2 DEF PlaceOK
<1> QED
  BY <1>2, <1>3 DEF TypeOK

\* The same for a step that reads, and leaves everything but the place alone.
LEMMA ReadingStep ==
  ASSUME TypeOK, NEW w \in Workers, NEW p, PlaceOK(p), at' = [at EXCEPT ![w] = p], OnlyWorker
  PROVE  TypeOK'
<1>1. UNCHANGED <<blocks, head, sent, pool, journal>>
  BY DEF OnlyWorker, StillChain
<1>2. pool' \subseteq sent' /\ sent' \subseteq Tx /\ IsFiniteSet(sent')
  BY <1>1 DEF TypeOK
<1>3. journal' \in [Ops -> Entry \cup {None}]
  BY <1>1 DEF TypeOK
<1> QED
  BY <1>1, <1>2, <1>3, OnePlace

\* A worker that holds nothing is at a sound place.
LEMMA IdlePlace ==
  PlaceOK(Idle) /\ PlaceOK([Idle EXCEPT !.pc = "down"])
BY EmptySeq DEF PlaceOK, Idle, Place, Settling, Pcs, Whys

LEMMA ThrowType ==
  ASSUME TypeOK, NEW w \in Workers, Throw(w), OnlyWorker
  PROVE  TypeOK'
BY IdlePlace, ReadingStep DEF Throw

\* A worker that only moves on, where it may.
LEMMA GotoType ==
  ASSUME TypeOK, NEW w \in Workers, NEW pc \in Pcs, Goto(w, pc), OnlyWorker,
         pc \in Settling => at[w].todo # <<>>,
         pc \notin {"lookup", "sign", "put", "search"},
         pc \in {"canonical", "record"} =>
           at[w].receipt \in 1 .. Len(blocks) /\ blocks[at[w].receipt].tx = Head(at[w].todo).tx
  PROVE  TypeOK'
<1> DEFINE p == [at[w] EXCEPT !.pc = pc]
<1>1. PlaceOK(at[w]) /\ at[w] \in Place
  BY DEF TypeOK
<1>2. p \in Place
  BY <1>1 DEF Place, Pcs, Whys, Settling
<1>3. /\ p.pc = pc /\ p.todo = at[w].todo /\ p.span = at[w].span
      /\ p.receipt = at[w].receipt
  BY <1>1 DEF Place, Pcs, Whys, Settling
<1> HIDE DEF p
<1>4. PlaceOK(p)
  BY <1>1, <1>2, <1>3 DEF PlaceOK
<1>5. at' = [at EXCEPT ![w] = p]
  BY DEF Goto, p
<1> QED
  BY <1>4, <1>5, ReadingStep

LEMMA BeginType ==
  ASSUME TypeOK, NEW w \in Workers, NEW op \in Ops \cup {None}, Begin(w, op)
  PROVE  TypeOK'
<1> DEFINE p == [Idle EXCEPT !.pc = "latest", !.op = op]
<1>1. Idle \in Place
  BY IdlePlace DEF PlaceOK
<1>2. p \in Place /\ p.pc = "latest"
  BY <1>1 DEF Place, Pcs
<1>3. at' = [at EXCEPT ![w] = p] /\ OnlyWorker
  BY DEF Begin
<1> HIDE DEF p
<1>4. PlaceOK(p)
  BY <1>2 DEF PlaceOK, Settling
<1> QED
  BY <1>3, <1>4, ReadingStep

LEMMA ReadLatestType ==
  ASSUME TypeOK, NEW w \in Workers, ReadLatest(w)
  PROVE  TypeOK'
<1>1. CASE Goto(w, "unsettled")
  BY <1>1, GotoType DEF ReadLatest, Settling, Pcs
<1>2. ASSUME NEW e \in Latest, at' = [at EXCEPT ![w].latest = e, ![w].pc = "newest"]
      PROVE  TypeOK'
  <2> DEFINE p == [at[w] EXCEPT !.latest = e, !.pc = "newest"]
  <2>1. at[w] \in Place /\ PlaceOK(at[w])
    BY DEF TypeOK
  <2>2. e \in Entry
    BY RowsFinite DEF TypeOK, Latest, Recorded
  <2>3. PlaceOK(p)
    BY <2>1, <2>2 DEF PlaceOK, Place, Settling, Pcs, Whys
  <2> HIDE DEF p
  <2>4. at' = [at EXCEPT ![w] = p]
    BY <1>2 DEF p
  <2> QED
    BY <2>3, <2>4, ReadingStep DEF ReadLatest
<1> QED
  BY <1>1, <1>2 DEF ReadLatest

LEMMA CheckNewestType ==
  ASSUME TypeOK, NEW w \in Workers, CheckNewest(w)
  PROVE  TypeOK'
<1> DEFINE pc == IF IsCanonicalBlock(at[w].latest.block) THEN "unsettled" ELSE "history"
           p == [at[w] EXCEPT !.latest = None, !.pc = pc]
<1>1. at[w] \in Place /\ PlaceOK(at[w])
  BY DEF TypeOK
<1>2. pc \in {"unsettled", "history"} /\ pc \in Pcs
  BY DEF Pcs
<1> HIDE DEF pc
<1>3. PlaceOK(p)
  BY <1>1, <1>2, ZenonT(40) DEF PlaceOK, Place, Settling, Pcs, Whys
<1> HIDE DEF p
<1>4. at' = [at EXCEPT ![w] = p]
  BY DEF CheckNewest, p, pc
<1> QED
  BY <1>3, <1>4, ReadingStep DEF CheckNewest

LEMMA ReadHistoryType ==
  ASSUME TypeOK, NEW w \in Workers, ReadHistory(w)
  PROVE  TypeOK'
<1>1. PICK history \in ByNonce(Rows) :
        at' = [at EXCEPT ![w].todo = history, ![w].span = Len(history), ![w].pc = "search"]
  BY DEF ReadHistory
<1>2. history \in Seq(Entry) /\ Len(history) \in Nat
  BY RowsFinite, ListOfRows DEF TypeOK
<1> DEFINE p == [at[w] EXCEPT !.todo = history, !.span = Len(history), !.pc = "search"]
<1>3. at[w] \in Place
  BY DEF TypeOK
<1>4. p \in Place /\ p.pc = "search" /\ p.span = Len(history) /\ p.todo = history
  BY <1>2, <1>3 DEF Place, Pcs
<1>5. at' = [at EXCEPT ![w] = p]
  BY <1>1
<1> HIDE DEF p
<1>6. PlaceOK(p)
  BY <1>2, <1>4 DEF PlaceOK, Settling
<1> QED
  BY <1>5, <1>6, ReadingStep DEF ReadHistory

LEMMA ProbeType ==
  ASSUME TypeOK, NEW w \in Workers, Probe(w)
  PROVE  TypeOK'
<1> DEFINE todo == at[w].todo
           mid == at[w].span \div 2 + 1
           rest == SubSeq(todo, mid + 1, Len(todo))
           p == [at[w] EXCEPT !.todo = rest, !.span = @ - mid]
           q == [at[w] EXCEPT !.span = mid - 1]
<1>1. at[w] \in Place /\ PlaceOK(at[w]) /\ at[w].pc = "search" /\ at[w].span > 0
  BY DEF TypeOK, Probe
<1>2. /\ todo \in Seq(Entry) /\ Len(todo) \in Nat /\ at[w].span \in Nat
      /\ at[w].span <= Len(todo)
  BY <1>1 DEF PlaceOK, Place
<1>3. mid \in Nat /\ mid >= 1 /\ mid <= at[w].span /\ mid - 1 \in Nat
  BY <1>1, <1>2
<1> HIDE DEF mid
<1>4. rest \in Seq(Entry) /\ Len(rest) = Len(todo) - mid
  <2>1. \A i \in mid + 1 .. Len(todo) : todo[i] \in Entry
    BY <1>2, <1>3, ElementOfSeq
  <2> QED
    BY <1>2, <1>3, <2>1, SubSeqProperties
<1> HIDE DEF rest
<1>5. PlaceOK(p)
  <2>1. at[w].span - mid \in Nat /\ at[w].span - mid <= Len(todo) - mid
    BY <1>2, <1>3
  <2>2. /\ p \in Place /\ p.pc = "search" /\ p.todo = rest
        /\ p.span = at[w].span - mid
    BY <1>1, <1>4, <2>1 DEF Place
  <2> HIDE DEF p
  <2> QED
    BY <1>4, <2>1, <2>2 DEF PlaceOK, Settling
<1>6. PlaceOK(q)
  <2>1. q \in Place /\ q.pc = "search" /\ q.todo = todo /\ q.span = mid - 1
    BY <1>1, <1>3 DEF Place
  <2>2. mid - 1 <= Len(todo)
    BY <1>2, <1>3
  <2> HIDE DEF q
  <2> QED
    BY <2>1, <2>2 DEF PlaceOK, Settling
<1>7. at' = [at EXCEPT ![w] = p] \/ at' = [at EXCEPT ![w] = q]
  BY DEF Probe, mid, rest
<1> QED
  BY <1>5, <1>6, <1>7, ReadingStep DEF Probe

LEMMA SearchedType ==
  ASSUME TypeOK, NEW w \in Workers, Searched(w)
  PROVE  TypeOK'
<1> DEFINE pc == IF at[w].todo = <<>> THEN "unsettled" ELSE "receipt"
           p == [at[w] EXCEPT !.why = "suffix", !.pc = pc]
<1>1. at[w] \in Place /\ PlaceOK(at[w])
  BY DEF TypeOK
<1>2. p \in Place /\ p.pc = pc /\ p.todo = at[w].todo /\ p.span = at[w].span
  BY <1>1 DEF Place, Pcs, Whys, Settling
<1>3. PlaceOK(p)
  BY <1>1, <1>2 DEF PlaceOK, Settling
<1> HIDE DEF p
<1>4. at' = [at EXCEPT ![w] = p]
  BY DEF Searched, p
<1> QED
  BY <1>3, <1>4, ReadingStep DEF Searched

LEMMA ReadUnsettledType ==
  ASSUME TypeOK, NEW w \in Workers, ReadUnsettled(w)
  PROVE  TypeOK'
<1>1. PICK rows \in ByNonce({e \in Rows : e.status = "pending"}) :
        at' = [at EXCEPT ![w].todo = rows, ![w].why = "unsettled",
                         ![w].pc = IF rows # <<>> THEN "receipt" ELSE Reconciled(w)]
  BY DEF ReadUnsettled
<1>2. {e \in Rows : e.status = "pending"} \subseteq Entry /\ IsFiniteSet({e \in Rows : e.status = "pending"})
  BY RowsFinite, FS_Subset DEF TypeOK
<1>3. rows \in Seq(Entry) /\ Len(rows) \in Nat
  BY <1>2, ListOfRows
<1> DEFINE pc == IF rows # <<>> THEN "receipt" ELSE Reconciled(w)
           p == [at[w] EXCEPT !.todo = rows, !.why = "unsettled", !.pc = pc]
<1>4. at[w] \in Place /\ at[w].op \in Ops \cup {None} /\ at[w].span \in Nat
  BY DEF TypeOK, Place
<1>5. /\ pc \in Pcs
      /\ (pc = "receipt" /\ rows # <<>>) \/ pc = "return" \/ (pc = "lookup" /\ at[w].op \in Ops)
  <2>0. {"receipt", "return", "lookup"} \subseteq Pcs
    BY DEF Pcs, Settling
  <2>1. CASE rows # <<>>
    <3>1. pc = "receipt"
      BY <2>1
    <3> QED
      BY <2>0, <2>1, <3>1
  <2>2. CASE ~(rows # <<>>) /\ at[w].op = None
    <3>1. pc = "return"
      BY <2>2 DEF Reconciled
    <3> HIDE DEF pc
    <3> QED
      BY <2>0, <3>1
  <2>3. CASE ~(rows # <<>>) /\ at[w].op # None
    <3>1. pc = "lookup"
      BY <2>3 DEF Reconciled
    <3>2. at[w].op \in Ops
      BY <1>4, <2>3
    <3> HIDE DEF pc
    <3> QED
      BY <2>0, <3>1, <3>2
  <2> QED
    BY <2>1, <2>2, <2>3
<1> HIDE DEF pc
<1>6. p \in Place /\ p.pc = pc /\ p.todo = rows /\ p.span = at[w].span /\ p.op = at[w].op
  BY <1>3, <1>4, <1>5 DEF Place, Whys
<1> HIDE DEF p
<1>7. PlaceOK(p)
  BY <1>5, <1>6 DEF PlaceOK, Settling
<1>8. at' = [at EXCEPT ![w] = p]
  BY <1>1 DEF p, pc
<1> QED
  BY <1>7, <1>8, ReadingStep DEF ReadUnsettled

LEMMA FindReceiptType ==
  ASSUME TypeOK, NEW w \in Workers, FindReceipt(w)
  PROVE  TypeOK'
<1>1. at[w].todo # <<>>
  BY DEF TypeOK, PlaceOK, Settling, FindReceipt
<1>2. Goto(w, "wait") \/ Goto(w, "nonce")
  BY DEF FindReceipt
<1> QED
  BY <1>1, <1>2, GotoType DEF FindReceipt, Settling, Pcs

LEMMA CheckNonceType ==
  ASSUME TypeOK, NEW w \in Workers, CheckNonce(w)
  PROVE  TypeOK'
<1>1. at[w].todo # <<>>
  BY DEF TypeOK, PlaceOK, Settling, CheckNonce
<1>2. Goto(w, "broadcast") \/ Goto(w, "reset") \/ Throw(w)
  BY DEF CheckNonce
<1> QED
  BY <1>1, <1>2, GotoType, ThrowType DEF CheckNonce, Settling, Pcs

LEMMA WaitForReceiptType ==
  ASSUME TypeOK, NEW w \in Workers, WaitForReceipt(w)
  PROVE  TypeOK'
<1> DEFINE t == Current(w).tx
           p == [at[w] EXCEPT !.receipt = BlockOf(t), !.pc = "canonical"]
<1>1. CASE Throw(w)
  BY <1>1, ThrowType DEF WaitForReceipt
<1>2. CASE Mined(t) /\ at' = [at EXCEPT ![w] = p]
  <2>1. BlockOf(t) \in 1 .. Len(blocks) /\ blocks[BlockOf(t)].tx = t
    BY <1>2, BlockOfMined
  <2>2. BlockOf(t) \in Nat
    <3> HIDE DEF t
    <3> QED
      BY <2>1, ChainFacts
  <2>3. at[w] \in Place /\ at[w].todo # <<>>
    BY DEF TypeOK, PlaceOK, Settling, WaitForReceipt
  <2>4. p \in Place /\ p.pc = "canonical" /\ p.todo = at[w].todo /\ p.receipt = BlockOf(t)
    BY <2>2, <2>3 DEF Place, Pcs, Settling
  <2> HIDE DEF p
  <2>5. PlaceOK(p)
    BY <2>1, <2>3, <2>4 DEF PlaceOK, Settling, Current
  <2> QED
    BY <1>2, <2>5, ReadingStep DEF WaitForReceipt
<1> QED
  BY <1>1, <1>2 DEF WaitForReceipt

LEMMA CheckReceiptType ==
  ASSUME TypeOK, NEW w \in Workers, CheckReceipt(w)
  PROVE  TypeOK'
<1>1. /\ at[w].todo # <<>> /\ at[w].receipt \in 1 .. Len(blocks)
      /\ blocks[at[w].receipt].tx = Head(at[w].todo).tx
  BY DEF TypeOK, PlaceOK, Settling, CheckReceipt
<1>2. Goto(w, "record") \/ Throw(w)
  BY DEF CheckReceipt
<1> QED
  BY <1>1, <1>2, GotoType, ThrowType DEF CheckReceipt, Settling, Pcs

\* What a worker is about to settle is an entry.
LEMMA CurrentEntry ==
  ASSUME TypeOK, NEW w \in Workers, at[w].pc \in Settling
  PROVE  /\ at[w].todo \in Seq(Entry) /\ at[w].todo # <<>>
         /\ Current(w) \in Entry /\ Current(w) = at[w].todo[1]
         /\ 1 \in 1 .. Len(at[w].todo)
<1>1. at[w].todo \in Seq(Entry) /\ at[w].todo # <<>>
  BY DEF TypeOK, PlaceOK, Place
<1> QED
  BY <1>1, HeadTailProperties, EmptySeq DEF Current

\* A row that is put leaves the journal a function of rows.
LEMMA PutType ==
  ASSUME TypeOK, NEW e \in Entry, Put(e)
  PROVE  journal' \in [Ops -> Entry \cup {None}]
BY DEF TypeOK, Put

LEMMA ResetType ==
  ASSUME TypeOK, NEW w \in Workers, Reset(w)
  PROVE  TypeOK'
<1> DEFINE e == [Current(w) EXCEPT !.status = "pending", !.block = 0]
           todo == <<e>> \o Tail(at[w].todo)
           p == [at[w] EXCEPT !.todo = todo, !.pc = "broadcast"]
<1>1. Current(w) \in Entry /\ at[w].todo \in Seq(Entry) /\ at[w].todo # <<>>
  BY CurrentEntry DEF Reset, Settling
<1>2. e \in Entry
  BY <1>1 DEF Entry, Statuses
<1> HIDE DEF e
<1>3. todo \in Seq(Entry) /\ todo # <<>>
  BY <1>1, <1>2, NewHead
<1> HIDE DEF todo
<1>4. pool' \subseteq sent' /\ sent' \subseteq Tx /\ IsFiniteSet(sent')
  BY DEF TypeOK, Reset, StillChain
<1>5. CASE Put(e) /\ at' = [at EXCEPT ![w] = p]
  <2>1. PlaceOK(p)
    <3>1. at[w] \in Place
      BY DEF TypeOK
    <3>2. p \in Place /\ p.pc = "broadcast" /\ p.todo = todo
      BY <1>3, <3>1 DEF Place, Pcs, Settling
    <3> HIDE DEF p
    <3> QED
      BY <1>3, <3>2 DEF PlaceOK
  <2> HIDE DEF p
  <2> QED
    BY <1>2, <1>4, <1>5, <2>1, PutType, OnePlace DEF Reset, StillChain
<1>6. CASE Throw(w) /\ UNCHANGED journal
  BY <1>6, ThrowType DEF Reset, OnlyWorker
<1> QED
  BY <1>5, <1>6 DEF Reset, e, todo

LEMMA SendType ==
  ASSUME TypeOK, NEW w \in Workers, Deliver(w) \/ Lose(w)
  PROVE  TypeOK'
<1> DEFINE p == [at[w] EXCEPT !.pc = "wait"]
           t == Current(w).tx
<1>1. Current(w) \in Entry /\ at[w].todo # <<>> /\ at[w] \in Place
  BY CurrentEntry DEF Deliver, Lose, Send, Settling, TypeOK
<1>2. t \in Tx
  BY <1>1, EntryFields
<1> HIDE DEF t
<1>3. pool' \subseteq sent' /\ sent' \subseteq Tx /\ IsFiniteSet(sent')
  <2>1. CASE sent' = sent \cup {t} /\ pool' = pool \cup {t}
    BY <1>2, <2>1, FS_AddElement DEF TypeOK
  <2>2. CASE UNCHANGED <<sent, pool>>
    BY <2>2 DEF TypeOK
  <2> QED
    BY <2>1, <2>2 DEF Deliver, Lose, t
<1>4. PlaceOK(p)
  BY <1>1 DEF PlaceOK, Place, Settling, Pcs, Whys
<1> HIDE DEF p
<1>5. at' = [at EXCEPT ![w] = p] /\ UNCHANGED <<blocks, head, journal>>
  BY DEF Deliver, Lose, Send, Goto, p
<1>6. journal' \in [Ops -> Entry \cup {None}]
  BY <1>5 DEF TypeOK
<1> QED
  BY <1>3, <1>4, <1>5, <1>6, OnePlace

\* The entry that Record writes: the settled one with its block and outcome.
Settlement(w) ==
  [Current(w) EXCEPT !.status = IF blocks[at[w].receipt].ok THEN "confirmed" ELSE "reverted",
                     !.block = at[w].receipt]

LEMMA SettlementEntry ==
  ASSUME TypeOK, NEW w \in Workers, at[w].pc = "record"
  PROVE  /\ Settlement(w) \in Entry /\ Settlement(w).tx = Current(w).tx
         /\ Settlement(w).block \in 1 .. Len(blocks)
         /\ Settlement(w).status # "pending"
         /\ blocks[Settlement(w).block].tx = Settlement(w).tx
         /\ blocks[Settlement(w).block].ok = (Settlement(w).status = "confirmed")
<1> DEFINE b == at[w].receipt
           status == IF blocks[b].ok THEN "confirmed" ELSE "reverted"
<1>1. Current(w) \in Entry
  BY CurrentEntry DEF Settling
<1>2. b \in 1 .. Len(blocks) /\ blocks[b].tx = Current(w).tx
  BY DEF TypeOK, PlaceOK, Current
<1>3. b \in Nat
  BY DEF TypeOK, Place
<1>4. blocks[b].ok \in BOOLEAN
  <2>1. blocks[b] \in Block
    BY <1>2, ElementOfSeq DEF TypeOK
  <2> QED
    BY <2>1 DEF Block
<1>5. status \in Statuses /\ status # "pending" /\ blocks[b].ok = (status = "confirmed")
  BY <1>4 DEF Statuses
<1> HIDE DEF status, b
<1>6. Settlement(w) = [Current(w) EXCEPT !.status = status, !.block = b]
  BY DEF Settlement, status, b
<1>7. /\ Settlement(w) \in Entry /\ Settlement(w).tx = Current(w).tx
      /\ Settlement(w).block = b /\ Settlement(w).status = status
  BY <1>1, <1>3, <1>5, <1>6 DEF Entry
<1> QED
  BY <1>2, <1>5, <1>7

\* Where an entry that is settled leaves the worker.
LEMMA AfterEntryPlaces ==
  ASSUME NEW w \in Workers, at[w].op \in Ops \cup {None}, NEW todo
  PROVE  \/ AfterEntry(w, todo) = "receipt" /\ todo # <<>>
         \/ AfterEntry(w, todo) \in {"unsettled", "return"}
         \/ AfterEntry(w, todo) = "lookup" /\ at[w].op \in Ops
<1>1. CASE todo # <<>>
  BY <1>1 DEF AfterEntry
<1>2. CASE ~(todo # <<>>) /\ at[w].why = "suffix"
  BY <1>2 DEF AfterEntry
<1>3. CASE ~(todo # <<>>) /\ at[w].why = "unsettled"
  <2>1. AfterEntry(w, todo) = Reconciled(w)
    BY <1>3 DEF AfterEntry
  <2>2. CASE at[w].op = None
    BY <2>1, <2>2 DEF Reconciled
  <2>3. CASE at[w].op # None
    BY <2>1, <2>3 DEF Reconciled
  <2> QED
    BY <2>2, <2>3
<1>4. CASE ~(todo # <<>>) /\ at[w].why \notin {"suffix", "unsettled"}
  BY <1>4 DEF AfterEntry
<1> QED
  BY <1>1, <1>2, <1>3, <1>4

LEMMA RecordType ==
  ASSUME TypeOK, NEW w \in Workers, Record(w)
  PROVE  TypeOK'
<1> DEFINE e == Settlement(w)
           rest == Tail(at[w].todo)
           pc == AfterEntry(w, rest)
           p == [at[w] EXCEPT !.todo = rest, !.receipt = 0, !.pc = pc]
<1>1. at[w].todo \in Seq(Entry) /\ at[w].todo # <<>> /\ e \in Entry
  BY CurrentEntry, SettlementEntry DEF Record, Settling
<1>2. rest \in Seq(Entry)
  BY <1>1, HeadTailProperties
<1>3. at[w] \in Place /\ at[w].op \in Ops \cup {None}
  BY DEF TypeOK, Place
<1>4. pool' \subseteq sent' /\ sent' \subseteq Tx /\ IsFiniteSet(sent')
  BY DEF TypeOK, Record, StillChain
<1>5. PlaceOK(p)
  <2>1. \/ pc = "receipt" /\ rest # <<>>
        \/ pc \in {"unsettled", "return"}
        \/ pc = "lookup" /\ at[w].op \in Ops
    BY <1>3, AfterEntryPlaces
  <2> HIDE DEF pc, rest
  <2>2. pc \in Pcs
    BY <2>1 DEF Pcs, Settling
  <2>3. p \in Place /\ p.pc = pc /\ p.todo = rest /\ p.op = at[w].op
    BY <1>2, <1>3, <2>2 DEF Place
  <2> HIDE DEF p
  <2> QED
    BY <2>1, <2>3 DEF PlaceOK, Settling
<1>6. UNCHANGED <<blocks, head>>
  BY DEF Record, StillChain
<1>7. (Put(e) /\ (at' = [at EXCEPT ![w] = p] \/ Throw(w))) \/ (Throw(w) /\ UNCHANGED journal)
  BY DEF Record, Settlement
<1> HIDE DEF p, e
<1>8. CASE Put(e) /\ at' = [at EXCEPT ![w] = p]
  BY <1>1, <1>4, <1>5, <1>6, <1>8, PutType, OnePlace
<1>9. CASE Put(e) /\ Throw(w)
  BY <1>1, <1>4, <1>6, <1>9, PutType, IdlePlace, OnePlace DEF Throw
<1>10. CASE Throw(w) /\ UNCHANGED journal
  BY <1>10, ThrowType DEF Record, OnlyWorker
<1> QED
  BY <1>7, <1>8, <1>9, <1>10

LEMMA LookUpType ==
  ASSUME TypeOK, NEW w \in Workers, LookUp(w)
  PROVE  TypeOK'
<1> DEFINE previous == journal[at[w].op]
           p == [at[w] EXCEPT !.todo = <<previous>>, !.why = "own", !.pc = "receipt"]
           q == [at[w] EXCEPT !.pc = "sign"]
<1>1. at[w] \in Place /\ at[w].op \in Ops /\ at[w].pc = "lookup"
  BY DEF TypeOK, PlaceOK, LookUp
<1>2. CASE previous # None /\ at' = [at EXCEPT ![w] = p]
  <2>1. previous \in Entry
    BY <1>1, <1>2 DEF TypeOK
  <2> HIDE DEF previous
  <2>2. <<previous>> \in Seq(Entry) /\ <<previous>> # <<>>
    BY <2>1
  <2>3. p \in Place /\ p.pc = "receipt" /\ p.todo = <<previous>>
    BY <1>1, <2>2 DEF Place, Pcs, Whys, Settling
  <2> HIDE DEF p
  <2>4. PlaceOK(p)
    BY <2>2, <2>3 DEF PlaceOK
  <2> QED
    BY <1>2, <2>4, ReadingStep DEF LookUp
<1>3. CASE at' = [at EXCEPT ![w] = q]
  <2>1. q \in Place /\ q.pc = "sign" /\ q.op = at[w].op
    BY <1>1 DEF Place, Pcs
  <2> HIDE DEF q
  <2>2. PlaceOK(q)
    BY <1>1, <2>1 DEF PlaceOK, Settling
  <2> QED
    BY <1>3, <2>2, ReadingStep DEF LookUp
<1> QED
  BY <1>2, <1>3 DEF LookUp

LEMMA SignType ==
  ASSUME TypeOK, NEW w \in Workers, NEW fee \in Fees, Sign(w, fee)
  PROVE  TypeOK'
<1>1. PICK n \in PendingNonce :
        at' = [at EXCEPT ![w].tx = [op |-> at[w].op, nonce |-> n, fee |-> fee], ![w].pc = "put"]
  BY DEF Sign
<1> DEFINE t == [op |-> at[w].op, nonce |-> n, fee |-> fee]
           p == [at[w] EXCEPT !.tx = t, !.pc = "put"]
<1>2. at[w] \in Place /\ at[w].op \in Ops
  BY DEF TypeOK, PlaceOK, Sign
<1>3. t \in Tx /\ t.op = at[w].op
  BY <1>2, ChainFacts DEF Tx
<1>4. at' = [at EXCEPT ![w] = p]
  BY <1>1
<1> HIDE DEF t
<1>5. p \in Place /\ p.pc = "put" /\ p.tx = t /\ p.op = at[w].op
  BY <1>2, <1>3 DEF Place, Pcs
<1>6. t # None
  BY <1>3, NoneAssumption
<1> HIDE DEF p
<1>7. PlaceOK(p)
  BY <1>2, <1>3, <1>5, <1>6 DEF PlaceOK, Settling
<1> QED
  BY <1>4, <1>7, ReadingStep DEF Sign

\* The entry of a transaction that is about to be put.
FirstEntry(w) == [tx |-> at[w].tx, status |-> "pending", block |-> 0]

LEMMA FirstEntryType ==
  ASSUME TypeOK, NEW w \in Workers, at[w].pc = "put"
  PROVE  /\ FirstEntry(w) \in Entry /\ FirstEntry(w).tx = at[w].tx
         /\ at[w].tx \in Tx /\ at[w].tx.op = at[w].op /\ at[w].op \in Ops
<1>1. at[w] \in Place /\ at[w].tx # None /\ at[w].tx.op = at[w].op /\ at[w].op \in Ops
  BY DEF TypeOK, PlaceOK
<1>2. at[w].tx \in Tx
  BY <1>1 DEF Place
<1> QED
  BY <1>1, <1>2 DEF FirstEntry, Entry, Statuses

LEMMA PutSignedType ==
  ASSUME TypeOK, NEW w \in Workers, PutSigned(w)
  PROVE  TypeOK'
<1> DEFINE e == FirstEntry(w)
           p == [at[w] EXCEPT !.tx = None, !.todo = <<e>>, !.why = "own", !.pc = "receipt"]
<1>1. e \in Entry /\ at[w] \in Place
  BY FirstEntryType DEF PutSigned, TypeOK
<1>2. pool' \subseteq sent' /\ sent' \subseteq Tx /\ IsFiniteSet(sent') /\ UNCHANGED <<blocks, head>>
  BY DEF TypeOK, PutSigned, StillChain
<1>3. (Put(e) /\ at' = [at EXCEPT ![w] = p]) \/ (Throw(w) /\ UNCHANGED journal)
  BY DEF PutSigned, FirstEntry
<1> HIDE DEF e
<1>4. <<e>> \in Seq(Entry) /\ <<e>> # <<>>
  BY <1>1
<1>5. p \in Place /\ p.pc = "receipt" /\ p.todo = <<e>>
  BY <1>1, <1>4 DEF Place, Pcs, Whys, Settling
<1> HIDE DEF p
<1>6. PlaceOK(p)
  BY <1>4, <1>5 DEF PlaceOK
<1>7. CASE Put(e) /\ at' = [at EXCEPT ![w] = p]
  BY <1>1, <1>2, <1>6, <1>7, PutType, OnePlace
<1>8. CASE Throw(w) /\ UNCHANGED journal
  BY <1>8, ThrowType DEF PutSigned, OnlyWorker
<1> QED
  BY <1>3, <1>7, <1>8

LEMMA RestType ==
  ASSUME TypeOK, NEW w \in Workers, Return(w) \/ Restart(w) \/ Crash(w)
  PROVE  TypeOK'
BY ThrowType, ReadingStep, IdlePlace DEF Return, Restart, Crash

LEMMA InitType == Init => TypeOK
<1> SUFFICES ASSUME Init PROVE TypeOK
  OBVIOUS
<1>1. blocks = <<>> /\ Len(blocks) = 0 /\ blocks \in Seq(Block) /\ head = 0
  BY DEF Init
<1>2. pool \subseteq sent /\ sent \subseteq Tx /\ IsFiniteSet(sent)
  BY FS_EmptySet DEF Init
<1>3. at \in [Workers -> Place] /\ \A w \in Workers : PlaceOK(at[w])
  BY IdlePlace DEF Init, PlaceOK
<1>4. journal \in [Ops -> Entry \cup {None}]
  BY DEF Init
<1> QED
  BY <1>1, <1>2, <1>3, <1>4 DEF TypeOK

LEMMA NextType == TypeOK /\ [Next]_vars => TypeOK'
<1> SUFFICES ASSUME TypeOK, [Next]_vars PROVE TypeOK'
  OBVIOUS
<1>1. CASE Chain
  BY <1>1, ChainType
<1>2. ASSUME NEW w \in Workers, Reconcile(w) PROVE TypeOK'
  BY <1>2, ReadLatestType, CheckNewestType, ReadHistoryType, ProbeType, SearchedType,
     ReadUnsettledType DEF Reconcile
<1>3. ASSUME NEW w \in Workers, Settle(w) PROVE TypeOK'
  BY <1>3, FindReceiptType, CheckNonceType, ResetType, SendType, WaitForReceiptType,
     CheckReceiptType, RecordType DEF Settle
<1>4. ASSUME NEW w \in Workers, Submit(w) PROVE TypeOK'
  BY <1>4, LookUpType, SignType, PutSignedType DEF Submit
<1>5. ASSUME NEW w \in Workers, Return(w) \/ Restart(w) \/ Crash(w) PROVE TypeOK'
  BY <1>5, RestType
<1>6. ASSUME NEW w \in Workers, NEW op \in Ops \cup {None}, Begin(w, op) PROVE TypeOK'
  BY <1>6, BeginType
<1>7. CASE UNCHANGED vars
  <2>1. UNCHANGED <<blocks, head, sent, pool, journal, at>>
    BY <1>7 DEF vars
  <2> QED
    BY <2>1, SamePlaces DEF TypeOK
<1> QED
  BY <1>1, <1>2, <1>3, <1>4, <1>5, <1>6, <1>7 DEF Next, Step

\* Every value the code computes has its type, and a worker holds what its
\* place in operatorTransaction and settleJournal needs, for any number of
\* processes, operations, blocks and fees.
THEOREM JournalTypeCorrect == Spec => []TypeOK
<1> QED
  BY InitType, NextType, PTL DEF Spec

(***************************************************************************)
(* The inductive invariant: a row is its operation's, no two rows share a   *)
(* nonce, everything that was sent or that a process is about to settle is  *)
(* what the journal holds, and the rows tell the truth about the blocks.    *)
(* What the processes hold has to be part of it: a process reads rows in    *)
(* one transaction and sends or writes them in later ones.                  *)
(***************************************************************************)
Holds(j, t) == t.op \in Ops /\ j[t.op] # None /\ j[t.op].tx = t
AllHeld(j, s) == \A i \in 1 .. Len(s) : Holds(j, s[i].tx)
TrueRow(bs, e) ==
  IF e.status = "pending" THEN e.block = 0
  ELSE e.block \in 1 .. Len(bs) /\ bs[e.block].tx = e.tx /\ bs[e.block].ok = (e.status = "confirmed")

RowsMatch == \A o \in Ops : journal[o] # None => journal[o].tx.op = o
NoncesApart ==
  \A o, q \in Ops :
    journal[o] # None /\ journal[q] # None /\ journal[o].tx.nonce = journal[q].tx.nonce => o = q
TodoHeld == \A w \in Workers : AllHeld(journal, at[w].todo)
RowsTrue == \A o \in Ops : journal[o] # None => TrueRow(blocks, journal[o])

JournalInv == RowsMatch /\ NoncesApart /\ TodoHeld /\ OnlyTheJournaledIsSent /\ RowsTrue

\* What a step leaves of the rows that are there.
Kept == \A o \in Ops : journal[o] # None => journal'[o] # None /\ journal'[o].tx = journal[o].tx

\* What the journal holds it still holds when rows are kept.
LEMMA KeptHeld ==
  ASSUME Kept, NEW s
  PROVE  AllHeld(journal, s) => AllHeld(journal', s)
<1>1. ASSUME NEW t, Holds(journal, t) PROVE Holds(journal', t)
  BY <1>1 DEF Holds, Kept
<1> QED
  BY <1>1 DEF AllHeld

LEMMA HeldEmpty == ASSUME NEW j PROVE AllHeld(j, <<>>)
<1>1. \A i \in 1 .. Len(<<>>) : FALSE
  OBVIOUS
<1> QED
  BY <1>1 DEF AllHeld

LEMMA HeldOne ==
  ASSUME NEW j, NEW e \in Entry, Holds(j, e.tx)
  PROVE  AllHeld(j, <<e>>)
<1>1. Len(<<e>>) = 1 /\ <<e>>[1] = e
  OBVIOUS
<1>2. \A i \in 1 .. 1 : i = 1
  OBVIOUS
<1> QED
  BY <1>1, <1>2 DEF AllHeld

LEMMA HeldTail ==
  ASSUME NEW j, NEW s \in Seq(Entry), s # <<>>, AllHeld(j, s)
  PROVE  AllHeld(j, Tail(s))
<1> DEFINE t == Tail(s)
<1>1. t \in Seq(Entry) /\ Len(t) = Len(s) - 1 /\ \A i \in 1 .. Len(t) : t[i] = s[i + 1]
  BY HeadTailProperties
<1> HIDE DEF t
<1>2. Len(s) \in Nat
  OBVIOUS
<1>3. ASSUME NEW i \in 1 .. Len(t) PROVE i + 1 \in 1 .. Len(s) /\ t[i] = s[i + 1]
  BY <1>1, <1>2
<1> QED
  BY <1>3 DEF AllHeld, t

LEMMA HeldRest ==
  ASSUME NEW j, NEW s \in Seq(Entry), NEW m \in 1 .. Len(s), AllHeld(j, s)
  PROVE  AllHeld(j, SubSeq(s, m + 1, Len(s)))
<1> DEFINE t == SubSeq(s, m + 1, Len(s))
<1>1. Len(s) \in Nat /\ m \in Nat /\ m <= Len(s) /\ m >= 1
  OBVIOUS
<1>2. \A i \in m + 1 .. Len(s) : s[i] \in Entry
  BY <1>1, ElementOfSeq
<1>3. Len(t) = Len(s) - m /\ \A i \in 1 .. Len(s) - m : t[i] = s[m + i]
  BY <1>1, <1>2, SubSeqProperties
<1> HIDE DEF t
<1>4. ASSUME NEW i \in 1 .. Len(t) PROVE m + i \in 1 .. Len(s) /\ t[i] = s[m + i]
  BY <1>1, <1>3
<1> QED
  BY <1>4 DEF AllHeld, t

LEMMA HeldNewHead ==
  ASSUME NEW j, NEW s \in Seq(Entry), s # <<>>, AllHeld(j, s), NEW e \in Entry, e.tx = s[1].tx
  PROVE  AllHeld(j, <<e>> \o Tail(s))
<1> DEFINE t == <<e>> \o Tail(s)
<1>1. Len(t) = Len(s) /\ \A i \in 1 .. Len(s) : t[i] = IF i = 1 THEN e ELSE s[i]
  BY NewHead
<1> HIDE DEF t
<1>2. \A i \in 1 .. Len(t) : t[i].tx = s[i].tx
  BY <1>1
<1> QED
  BY <1>1, <1>2 DEF AllHeld, t

\* A list of the journal's rows is held.
LEMMA HeldRows ==
  ASSUME TypeOK, RowsMatch, NEW rows, rows \subseteq Rows, NEW s \in ByNonce(rows)
  PROVE  AllHeld(journal, s)
<1>1. \A e \in Rows : Holds(journal, e.tx)
  BY DEF Rows, RowsMatch, Holds
<1>2. rows \subseteq Entry /\ IsFiniteSet(rows)
  BY RowsFinite, FS_Subset DEF TypeOK
<1>3. s \in Seq(Entry) /\ \A i \in DOMAIN s : s[i] \in rows
  BY <1>2, ListOfRows
<1>4. DOMAIN s = 1 .. Len(s)
  BY <1>3
<1> QED
  BY <1>1, <1>3, <1>4 DEF AllHeld

(***************************************************************************)
(* One kind of step at a time.                                             *)
(***************************************************************************)

\* A put that canPut allows keeps every row and the facts about rows.
LEMMA PutKeeps ==
  ASSUME TypeOK, JournalInv, NEW e \in Entry, e.tx.op \in Ops, CanPut(e), Put(e),
         TrueRow(blocks, e), UNCHANGED blocks
  PROVE  /\ Kept /\ RowsMatch' /\ NoncesApart' /\ RowsTrue'
         /\ Holds(journal', e.tx)
         /\ \A t \in sent : t.op \in Ops => Holds(journal', t)
<1>1. journal \in [Ops -> Entry \cup {None}] /\ e # None
  BY EntryFields DEF TypeOK
<1>2. journal'[e.tx.op] = e /\ \A o \in Ops : o # e.tx.op => journal'[o] = journal[o]
  BY <1>1 DEF Put
<1>3. Kept
  BY <1>1, <1>2 DEF Kept, CanPut
<1>4. RowsMatch'
  BY <1>2 DEF JournalInv, RowsMatch
<1>5. ASSUME NEW o \in Ops, o # e.tx.op, journal[o] # None PROVE journal[o].tx.nonce # e.tx.nonce
  <2>1. journal[o] \in Rows /\ journal[o].tx.op # e.tx.op
    BY <1>5 DEF Rows, JournalInv, RowsMatch
  <2> QED
    BY <2>1 DEF CanPut
<1>6. NoncesApart'
  <2> SUFFICES ASSUME NEW o \in Ops, NEW q \in Ops, journal'[o] # None, journal'[q] # None,
                      journal'[o].tx.nonce = journal'[q].tx.nonce
               PROVE  o = q
    BY DEF NoncesApart
  <2>1. CASE o = e.tx.op
    BY <2>1, <1>2, <1>5
  <2>2. CASE q = e.tx.op
    BY <2>2, <1>2, <1>5
  <2>3. CASE o # e.tx.op /\ q # e.tx.op
    BY <2>3, <1>2 DEF JournalInv, NoncesApart
  <2> QED
    BY <2>1, <2>2, <2>3
<1>7. RowsTrue'
  <2> SUFFICES ASSUME NEW o \in Ops, journal'[o] # None PROVE TrueRow(blocks', journal'[o])
    BY DEF RowsTrue
  <2>1. CASE o = e.tx.op
    BY <2>1, <1>2
  <2>2. CASE o # e.tx.op
    BY <2>2, <1>2 DEF JournalInv, RowsTrue
  <2> QED
    BY <2>1, <2>2
<1>8. Holds(journal', e.tx)
  BY <1>1, <1>2 DEF Holds
<1>9. \A t \in sent : t.op \in Ops => Holds(journal', t)
  BY <1>3 DEF JournalInv, OnlyTheJournaledIsSent, Kept, Holds
<1> QED
  BY <1>3, <1>4, <1>6, <1>7, <1>8, <1>9

\* A worker's step that keeps the rows, and leaves it with what the journal holds.
LEMMA HoldingPlace ==
  ASSUME TypeOK, JournalInv, NEW w \in Workers, NEW p, at' = [at EXCEPT ![w] = p],
         AllHeld(journal', p.todo), Kept
  PROVE  TodoHeld'
<1> SUFFICES ASSUME NEW v \in Workers PROVE AllHeld(journal', at'[v].todo)
  BY DEF TodoHeld
<1>1. CASE v = w
  BY <1>1 DEF TypeOK
<1>2. CASE v # w
  <2>1. at'[v] = at[v] /\ AllHeld(journal, at[v].todo)
    BY <1>2 DEF TypeOK, JournalInv, TodoHeld
  <2> QED
    BY <2>1, KeptHeld
<1> QED
  BY <1>1, <1>2

\* The same for a step that only reads.
LEMMA ReadingHolds ==
  ASSUME TypeOK, JournalInv, NEW w \in Workers, NEW p, at' = [at EXCEPT ![w] = p],
         AllHeld(journal, p.todo), OnlyWorker
  PROVE  JournalInv' /\ Kept
<1>1. UNCHANGED <<blocks, head, sent, pool, journal>>
  BY DEF OnlyWorker, StillChain
<1>2. Kept
  BY <1>1 DEF Kept
<1>3. TodoHeld'
  BY <1>1, <1>2, HoldingPlace
<1> QED
  BY <1>1, <1>2, <1>3 DEF JournalInv, RowsMatch, NoncesApart, OnlyTheJournaledIsSent, RowsTrue

\* A worker that lets go of everything holds nothing.
LEMMA ThrowHolds ==
  ASSUME TypeOK, JournalInv, NEW w \in Workers, OnlyWorker,
         Throw(w) \/ at' = [at EXCEPT ![w] = [Idle EXCEPT !.pc = "down"]]
  PROVE  JournalInv' /\ Kept
<1>1. AllHeld(journal, Idle.todo) /\ AllHeld(journal, [Idle EXCEPT !.pc = "down"].todo)
  BY HeldEmpty DEF Idle
<1> QED
  BY <1>1, ReadingHolds DEF Throw

\* A worker that only moves on holds what it held.
LEMMA GotoHolds ==
  ASSUME TypeOK, JournalInv, NEW w \in Workers, NEW pc, Goto(w, pc), OnlyWorker
  PROVE  JournalInv' /\ Kept
<1> DEFINE p == [at[w] EXCEPT !.pc = pc]
<1>1. p.todo = at[w].todo
  BY DEF TypeOK, Place
<1>2. AllHeld(journal, at[w].todo)
  BY DEF JournalInv, TodoHeld
<1>3. at' = [at EXCEPT ![w] = p]
  BY DEF Goto
<1> HIDE DEF p
<1> QED
  BY <1>1, <1>2, <1>3, ReadingHolds

\* The chain moves: blocks are only added, and nothing is sent for the journal.
LEMMA ChainHolds ==
  ASSUME TypeOK, JournalInv, Chain
  PROVE  JournalInv' /\ Kept
<1>1. UNCHANGED <<journal, at>>
  BY DEF Chain, MineTransaction, MineEmpty, Extend, Forget, Reorganize, SendForeign
<1>2. Kept
  BY <1>1 DEF Kept
<1>3. OnlyTheJournaledIsSent'
  <2>1. \A t \in sent' : t \in sent \/ t.op = Foreign
    <3>1. ASSUME NEW fee \in Fees, SendForeign(fee)
          PROVE  \A t \in sent' : t \in sent \/ t.op = Foreign
      <4>1. PICK n \in PendingNonce :
              LET u == [op |-> Foreign, nonce |-> n, fee |-> fee] IN sent' = sent \cup {u}
        BY <3>1 DEF SendForeign
      <4> DEFINE u == [op |-> Foreign, nonce |-> n, fee |-> fee]
      <4>2. u.op = Foreign
        OBVIOUS
      <4> HIDE DEF u
      <4>3. sent' = sent \cup {u}
        BY <4>1 DEF u
      <4> QED
        BY <4>2, <4>3
    <3> QED
      BY <3>1 DEF Chain, MineTransaction, MineEmpty, Extend, Forget, Reorganize
  <2> QED
    BY <1>1, <2>1, OperatorAssumption DEF JournalInv, OnlyTheJournaledIsSent
<1>4. ASSUME NEW b \in 1 .. Len(blocks)
      PROVE  b \in 1 .. Len(blocks') /\ blocks'[b] = blocks[b]
  <2>1. CASE UNCHANGED blocks
    BY <2>1
  <2>2. ASSUME NEW tx \in Tx \cup {None}, NEW ok \in BOOLEAN, Extend(tx, ok)
        PROVE  b \in 1 .. Len(blocks') /\ blocks'[b] = blocks[b]
    <3>1. Len(blocks') = Len(blocks) + 1 /\ blocks'[b] = blocks[b]
      BY <2>2, ExtendBlocks
    <3>2. Len(blocks) \in Nat
      BY ChainFacts
    <3> QED
      BY <3>1, <3>2
  <2>3. sent \subseteq Tx
    BY DEF TypeOK
  <2> QED
    BY <2>1, <2>2, <2>3
    DEF Chain, MineTransaction, MineEmpty, Forget, Reorganize, SendForeign
<1>5. RowsTrue'
  BY <1>1, <1>4 DEF JournalInv, RowsTrue, TrueRow
<1> QED
  BY <1>1, <1>2, <1>3, <1>5 DEF JournalInv, RowsMatch, NoncesApart, TodoHeld

\* The reads of a call that settles what is recorded, and of the lookup.
LEMMA ReadsHold ==
  ASSUME TypeOK, JournalInv, NEW w \in Workers,
         Reconcile(w) \/ LookUp(w) \/ (\E fee \in Fees : Sign(w, fee))
           \/ (\E op \in Ops \cup {None} : Begin(w, op))
  PROVE  JournalInv' /\ Kept
<1>1. at[w] \in Place /\ at[w].todo \in Seq(Entry) /\ PlaceOK(at[w])
  BY DEF TypeOK, Place
<1>2. AllHeld(journal, at[w].todo) /\ AllHeld(journal, <<>>)
  BY HeldEmpty DEF JournalInv, TodoHeld
<1>3. RowsMatch
  BY DEF JournalInv
<1>4. ASSUME NEW op \in Ops \cup {None}, Begin(w, op) PROVE JournalInv' /\ Kept
  <2> DEFINE p == [Idle EXCEPT !.pc = "latest", !.op = op]
  <2>1. p.todo = <<>>
    BY DEF Idle
  <2> HIDE DEF p
  <2> QED
    BY <1>2, <1>4, <2>1, ReadingHolds DEF Begin, p
<1>5. CASE ReadLatest(w)
  <2>1. CASE Goto(w, "unsettled")
    BY <1>5, <2>1, GotoHolds DEF ReadLatest
  <2>2. ASSUME NEW e \in Latest, at' = [at EXCEPT ![w].latest = e, ![w].pc = "newest"]
        PROVE  JournalInv' /\ Kept
    <3> DEFINE p == [at[w] EXCEPT !.latest = e, !.pc = "newest"]
    <3>1. p.todo = at[w].todo
      BY <1>1 DEF Place
    <3>2. at' = [at EXCEPT ![w] = p]
      BY <2>2
    <3> HIDE DEF p
    <3> QED
      BY <1>2, <1>5, <3>1, <3>2, ReadingHolds DEF ReadLatest
  <2> QED
    BY <1>5, <2>1, <2>2 DEF ReadLatest
<1>6. CASE CheckNewest(w)
  <2> DEFINE pc == IF IsCanonicalBlock(at[w].latest.block) THEN "unsettled" ELSE "history"
             p == [at[w] EXCEPT !.latest = None, !.pc = pc]
  <2> HIDE DEF pc
  <2>1. p.todo = at[w].todo
    BY <1>1 DEF Place
  <2>2. at' = [at EXCEPT ![w] = p]
    BY <1>6 DEF CheckNewest, pc
  <2> HIDE DEF p
  <2> QED
    BY <1>2, <1>6, <2>1, <2>2, ReadingHolds DEF CheckNewest
<1>7. CASE ReadHistory(w)
  <2>1. PICK history \in ByNonce(Rows) :
          at' = [at EXCEPT ![w].todo = history, ![w].span = Len(history), ![w].pc = "search"]
    BY <1>7 DEF ReadHistory
  <2>2. AllHeld(journal, history)
    BY <1>3, HeldRows
  <2> DEFINE p == [at[w] EXCEPT !.todo = history, !.span = Len(history), !.pc = "search"]
  <2>3. p.todo = history
    BY <1>1 DEF Place
  <2>4. at' = [at EXCEPT ![w] = p]
    BY <2>1
  <2> HIDE DEF p
  <2> QED
    BY <1>7, <2>2, <2>3, <2>4, ReadingHolds DEF ReadHistory
<1>8. CASE Probe(w)
  <2> DEFINE mid == at[w].span \div 2 + 1
             rest == SubSeq(at[w].todo, mid + 1, Len(at[w].todo))
             p == [at[w] EXCEPT !.todo = rest, !.span = @ - mid]
             q == [at[w] EXCEPT !.span = mid - 1]
  <2>1. at[w].span \in Nat /\ at[w].span > 0 /\ at[w].span <= Len(at[w].todo)
        /\ Len(at[w].todo) \in Nat
    BY <1>1, <1>8 DEF Probe, PlaceOK, Place
  <2>2. mid \in 1 .. Len(at[w].todo)
    BY <2>1
  <2> HIDE DEF mid
  <2>3. AllHeld(journal, rest)
    BY <1>1, <1>2, <2>2, HeldRest
  <2> HIDE DEF rest
  <2>4. p.todo = rest /\ q.todo = at[w].todo
    BY <1>1 DEF Place
  <2>5. at' = [at EXCEPT ![w] = p] \/ at' = [at EXCEPT ![w] = q]
    BY <1>8 DEF Probe, mid, rest
  <2> HIDE DEF p, q
  <2> QED
    BY <1>2, <1>8, <2>3, <2>4, <2>5, ReadingHolds DEF Probe
<1>9. CASE Searched(w)
  <2> DEFINE pc == IF at[w].todo = <<>> THEN "unsettled" ELSE "receipt"
             p == [at[w] EXCEPT !.why = "suffix", !.pc = pc]
  <2> HIDE DEF pc
  <2>1. p.todo = at[w].todo
    BY <1>1 DEF Place
  <2>2. at' = [at EXCEPT ![w] = p]
    BY <1>9 DEF Searched, pc
  <2> HIDE DEF p
  <2> QED
    BY <1>2, <1>9, <2>1, <2>2, ReadingHolds DEF Searched
<1>10. CASE ReadUnsettled(w)
  <2>1. PICK rows \in ByNonce({e \in Rows : e.status = "pending"}) :
          at' = [at EXCEPT ![w].todo = rows, ![w].why = "unsettled",
                           ![w].pc = IF rows # <<>> THEN "receipt" ELSE Reconciled(w)]
    BY <1>10 DEF ReadUnsettled
  <2>2. AllHeld(journal, rows)
    BY <1>3, HeldRows
  <2> DEFINE pc == IF rows # <<>> THEN "receipt" ELSE Reconciled(w)
             p == [at[w] EXCEPT !.todo = rows, !.why = "unsettled", !.pc = pc]
  <2>3. at' = [at EXCEPT ![w] = p]
    BY <2>1
  <2> HIDE DEF pc
  <2>4. p.todo = rows
    BY <1>1 DEF Place
  <2> HIDE DEF p
  <2> QED
    BY <1>10, <2>2, <2>3, <2>4, ReadingHolds DEF ReadUnsettled
<1>11. CASE LookUp(w)
  <2> DEFINE previous == journal[at[w].op]
             p == [at[w] EXCEPT !.todo = <<previous>>, !.why = "own", !.pc = "receipt"]
  <2>1. CASE Goto(w, "sign")
    BY <1>11, <2>1, GotoHolds DEF LookUp
  <2>2. CASE previous # None /\ at' = [at EXCEPT ![w] = p]
    <3>1. at[w].op \in Ops
      BY <1>1, <1>11 DEF LookUp, PlaceOK
    <3>2. previous \in Entry /\ Holds(journal, previous.tx)
      BY <1>3, <2>2, <3>1 DEF TypeOK, RowsMatch, Holds
    <3> HIDE DEF previous
    <3>3. AllHeld(journal, <<previous>>)
      BY <3>2, HeldOne
    <3>4. p.todo = <<previous>>
      BY <1>1 DEF Place
    <3>5. OnlyWorker
      BY <1>11 DEF LookUp
    <3> HIDE DEF p
    <3> QED
      BY <3>5, <2>2, <3>3, <3>4, ReadingHolds
  <2> QED
    BY <1>11, <2>1, <2>2 DEF LookUp, Goto
<1>12. ASSUME NEW fee \in Fees, Sign(w, fee) PROVE JournalInv' /\ Kept
  <2>1. PICK n \in PendingNonce :
          at' = [at EXCEPT ![w].tx = [op |-> at[w].op, nonce |-> n, fee |-> fee], ![w].pc = "put"]
    BY <1>12 DEF Sign
  <2> DEFINE t == [op |-> at[w].op, nonce |-> n, fee |-> fee]
             p == [at[w] EXCEPT !.tx = t, !.pc = "put"]
  <2>2. at' = [at EXCEPT ![w] = p]
    BY <2>1
  <2> HIDE DEF t
  <2>3. p.todo = at[w].todo
    BY <1>1 DEF Place
  <2> HIDE DEF p
  <2> QED
    BY <1>2, <1>12, <2>2, <2>3, ReadingHolds DEF Sign
<1> QED
  BY <1>4, <1>5, <1>6, <1>7, <1>8, <1>9, <1>10, <1>11, <1>12 DEF Reconcile

\* The reads of settleJournal and the steps that let go.
LEMMA SettleReadsHold ==
  ASSUME TypeOK, JournalInv, NEW w \in Workers,
         FindReceipt(w) \/ CheckNonce(w) \/ WaitForReceipt(w) \/ CheckReceipt(w)
           \/ Return(w) \/ Restart(w) \/ Crash(w)
  PROVE  JournalInv' /\ Kept
<1>1. CASE WaitForReceipt(w)
  <2> DEFINE b == BlockOf(Current(w).tx)
             p == [at[w] EXCEPT !.receipt = b, !.pc = "canonical"]
  <2>1. CASE Throw(w)
    BY <1>1, <2>1, ThrowHolds DEF WaitForReceipt
  <2>2. CASE at' = [at EXCEPT ![w] = p]
    <3> HIDE DEF b
    <3>1. p.todo = at[w].todo /\ AllHeld(journal, at[w].todo)
      BY DEF TypeOK, Place, JournalInv, TodoHeld
    <3> HIDE DEF p
    <3> QED
      BY <1>1, <2>2, <3>1, ReadingHolds DEF WaitForReceipt
  <2> QED
    BY <1>1, <2>1, <2>2 DEF WaitForReceipt
<1>2. CASE FindReceipt(w)
  BY <1>2, GotoHolds DEF FindReceipt
<1>3. CASE CheckNonce(w)
  BY <1>3, GotoHolds, ThrowHolds DEF CheckNonce
<1>4. CASE CheckReceipt(w)
  BY <1>4, GotoHolds, ThrowHolds DEF CheckReceipt
<1>5. CASE Return(w) \/ Restart(w) \/ Crash(w)
  BY <1>5, ThrowHolds DEF Return, Restart, Crash
<1> QED
  BY <1>1, <1>2, <1>3, <1>4, <1>5

\* What is sent is what the worker holds, and the journal holds it too.
LEMMA SendHolds ==
  ASSUME TypeOK, JournalInv, NEW w \in Workers, Deliver(w) \/ Lose(w)
  PROVE  JournalInv' /\ Kept
<1> DEFINE p == [at[w] EXCEPT !.pc = "wait"]
           t == Current(w).tx
<1>1. Holds(journal, t)
  <2>1. Current(w) = at[w].todo[1] /\ 1 \in 1 .. Len(at[w].todo)
    BY CurrentEntry DEF Deliver, Lose, Send, Settling
  <2> QED
    BY <2>1 DEF JournalInv, TodoHeld, AllHeld
<1> HIDE DEF t
<1>2. UNCHANGED <<blocks, journal>> /\ at' = [at EXCEPT ![w] = p] /\ sent' \subseteq sent \cup {t}
  BY DEF Deliver, Lose, Send, Goto, t
<1>3. Kept
  BY <1>2 DEF Kept
<1>4. p.todo = at[w].todo
  BY DEF TypeOK, Place
<1> HIDE DEF p
<1>5. TodoHeld'
  BY <1>2, <1>3, <1>4, HoldingPlace DEF JournalInv, TodoHeld
<1>6. OnlyTheJournaledIsSent'
  BY <1>1, <1>2 DEF JournalInv, OnlyTheJournaledIsSent, Holds
<1> QED
  BY <1>2, <1>3, <1>5, <1>6 DEF JournalInv, RowsMatch, NoncesApart, RowsTrue

\* A step that puts a row the journal allows, and leaves the worker with held rows.
LEMMA PutHolds ==
  ASSUME TypeOK, JournalInv, NEW w \in Workers, NEW e \in Entry, e.tx.op \in Ops, CanPut(e), Put(e),
         TrueRow(blocks, e), UNCHANGED <<blocks, sent>>,
         NEW p, at' = [at EXCEPT ![w] = p],
         (Kept /\ Holds(journal', e.tx)) => AllHeld(journal', p.todo)
  PROVE  JournalInv' /\ Kept
<1>1. /\ Kept /\ RowsMatch' /\ NoncesApart' /\ RowsTrue' /\ Holds(journal', e.tx)
      /\ \A t \in sent : t.op \in Ops => Holds(journal', t)
  BY PutKeeps
<1>2. TodoHeld'
  BY <1>1, HoldingPlace
<1>3. OnlyTheJournaledIsSent'
  BY <1>1 DEF OnlyTheJournaledIsSent, Holds
<1> QED
  BY <1>1, <1>2, <1>3 DEF JournalInv

LEMMA ResetHolds ==
  ASSUME TypeOK, JournalInv, NEW w \in Workers, Reset(w)
  PROVE  JournalInv' /\ Kept
<1> DEFINE e == [Current(w) EXCEPT !.status = "pending", !.block = 0]
           s == at[w].todo
           todo == <<e>> \o Tail(s)
           p == [at[w] EXCEPT !.todo = todo, !.pc = "broadcast"]
<1>1. /\ Current(w) \in Entry /\ Current(w) = s[1] /\ s \in Seq(Entry) /\ s # <<>>
      /\ 1 \in 1 .. Len(s)
  BY CurrentEntry DEF Reset, Settling
<1>2. e \in Entry /\ e.tx = Current(w).tx /\ e.status = "pending" /\ e.block = 0
  BY <1>1 DEF Entry, Statuses
<1>3. AllHeld(journal, s) /\ Holds(journal, s[1].tx)
  BY <1>1 DEF JournalInv, TodoHeld, AllHeld
<1>4. (CanPut(e) /\ Put(e) /\ at' = [at EXCEPT ![w] = p]) \/ (Throw(w) /\ UNCHANGED journal)
  BY DEF Reset
<1>5. at[w] \in Place
  BY DEF TypeOK
<1> HIDE DEF e, s
<1>6. e.tx.op \in Ops /\ TrueRow(blocks, e)
  BY <1>1, <1>2, <1>3 DEF Holds, TrueRow
<1>7. CASE CanPut(e) /\ Put(e) /\ at' = [at EXCEPT ![w] = p]
  <2>1. ASSUME Kept PROVE AllHeld(journal', todo)
    BY <1>1, <1>2, <1>3, <2>1, KeptHeld, HeldNewHead
  <2> HIDE DEF todo
  <2>2. p.todo = todo
    BY <1>5 DEF Place
  <2> HIDE DEF p
  <2>3. UNCHANGED <<blocks, sent>>
    BY DEF Reset, StillChain
  <2> QED
    BY <1>2, <1>6, <1>7, <2>1, <2>2, <2>3, PutHolds
<1>8. CASE Throw(w) /\ UNCHANGED journal
  BY <1>8, ThrowHolds DEF Reset, OnlyWorker
<1> QED
  BY <1>4, <1>7, <1>8

LEMMA RecordHolds ==
  ASSUME TypeOK, JournalInv, NEW w \in Workers, Record(w)
  PROVE  JournalInv' /\ Kept
<1> DEFINE e == Settlement(w)
           s == at[w].todo
           rest == Tail(s)
           pc == AfterEntry(w, rest)
           p == [at[w] EXCEPT !.todo = rest, !.receipt = 0, !.pc = pc]
<1>1. /\ Current(w) = s[1] /\ s \in Seq(Entry) /\ s # <<>> /\ 1 \in 1 .. Len(s)
      /\ e \in Entry /\ e.tx = Current(w).tx /\ TrueRow(blocks, e)
  BY CurrentEntry, SettlementEntry DEF Record, Settling, TrueRow
<1>2. AllHeld(journal, s) /\ Holds(journal, s[1].tx)
  BY <1>1 DEF JournalInv, TodoHeld, AllHeld
<1>3. e.tx.op \in Ops
  BY <1>1, <1>2 DEF Holds
<1>4. at[w] \in Place /\ UNCHANGED <<blocks, sent>>
  BY DEF TypeOK, Record, StillChain
<1>5. \/ CanPut(e) /\ Put(e) /\ (at' = [at EXCEPT ![w] = p] \/ Throw(w))
      \/ Throw(w) /\ UNCHANGED journal
  BY DEF Record, Settlement
<1> HIDE DEF e, s, pc
<1>6. CASE CanPut(e) /\ Put(e) /\ at' = [at EXCEPT ![w] = p]
  <2>1. ASSUME Kept PROVE AllHeld(journal', rest)
    BY <1>1, <1>2, <2>1, KeptHeld, HeldTail
  <2> HIDE DEF rest
  <2>2. p.todo = rest
    BY <1>4 DEF Place
  <2> HIDE DEF p
  <2> QED
    BY <1>1, <1>3, <1>4, <1>6, <2>1, <2>2, PutHolds
<1>7. CASE CanPut(e) /\ Put(e) /\ Throw(w)
  <2>1. AllHeld(journal', Idle.todo)
    BY HeldEmpty DEF Idle
  <2> QED
    BY <1>1, <1>3, <1>4, <1>7, <2>1, PutHolds DEF Throw
<1>8. CASE Throw(w) /\ UNCHANGED journal
  BY <1>8, ThrowHolds DEF Record, OnlyWorker
<1> QED
  BY <1>5, <1>6, <1>7, <1>8

LEMMA PutSignedHolds ==
  ASSUME TypeOK, JournalInv, NEW w \in Workers, PutSigned(w)
  PROVE  JournalInv' /\ Kept
<1> DEFINE e == FirstEntry(w)
           p == [at[w] EXCEPT !.tx = None, !.todo = <<e>>, !.why = "own", !.pc = "receipt"]
<1>1. e \in Entry /\ e.tx.op \in Ops /\ TrueRow(blocks, e)
  BY FirstEntryType DEF PutSigned, FirstEntry, TrueRow
<1>2. at[w] \in Place /\ UNCHANGED <<blocks, sent>>
  BY DEF TypeOK, PutSigned, StillChain
<1>3. (CanPut(e) /\ Put(e) /\ at' = [at EXCEPT ![w] = p]) \/ (Throw(w) /\ UNCHANGED journal)
  BY DEF PutSigned, FirstEntry
<1> HIDE DEF e
<1>4. p.todo = <<e>>
  BY <1>2 DEF Place
<1> HIDE DEF p
<1>5. CASE CanPut(e) /\ Put(e) /\ at' = [at EXCEPT ![w] = p]
  <2>1. ASSUME Holds(journal', e.tx) PROVE AllHeld(journal', <<e>>)
    BY <1>1, <2>1, HeldOne
  <2> QED
    BY <1>1, <1>2, <1>4, <1>5, <2>1, PutHolds
<1>6. CASE Throw(w) /\ UNCHANGED journal
  BY <1>6, ThrowHolds DEF PutSigned, OnlyWorker
<1> QED
  BY <1>3, <1>5, <1>6

LEMMA InitHolds == Init => JournalInv
BY HeldEmpty DEF Init, Idle, JournalInv, RowsMatch, NoncesApart, TodoHeld,
   OnlyTheJournaledIsSent, RowsTrue

LEMMA NextHolds == TypeOK /\ JournalInv /\ [Next]_vars => JournalInv' /\ Kept
<1> SUFFICES ASSUME TypeOK, JournalInv, [Next]_vars PROVE JournalInv' /\ Kept
  OBVIOUS
<1>1. CASE Chain
  BY <1>1, ChainHolds
<1>2. ASSUME NEW w \in Workers, Step(w) PROVE JournalInv' /\ Kept
  <2>1. CASE Reconcile(w) \/ LookUp(w) \/ (\E fee \in Fees : Sign(w, fee))
    BY <2>1, ReadsHold
  <2>2. CASE FindReceipt(w) \/ CheckNonce(w) \/ WaitForReceipt(w) \/ CheckReceipt(w)
               \/ Return(w) \/ Restart(w)
    BY <2>2, SettleReadsHold
  <2>3. CASE Reset(w)
    BY <2>3, ResetHolds
  <2>4. CASE Deliver(w) \/ Lose(w)
    BY <2>4, SendHolds
  <2>5. CASE Record(w)
    BY <2>5, RecordHolds
  <2>6. CASE PutSigned(w)
    BY <2>6, PutSignedHolds
  <2> QED
    BY <1>2, <2>1, <2>2, <2>3, <2>4, <2>5, <2>6 DEF Step, Settle, Submit
<1>3. ASSUME NEW w \in Workers, Crash(w) PROVE JournalInv' /\ Kept
  BY <1>3, SettleReadsHold
<1>4. ASSUME NEW w \in Workers, NEW op \in Ops \cup {None}, Begin(w, op) PROVE JournalInv' /\ Kept
  BY <1>4, ReadsHold
<1>5. CASE UNCHANGED vars
  BY <1>5 DEF vars, Kept, JournalInv, RowsMatch, NoncesApart, TodoHeld, OnlyTheJournaledIsSent,
     RowsTrue
<1> QED
  BY <1>1, <1>2, <1>3, <1>4, <1>5 DEF Next

LEMMA JournalInvariant == Spec => [](TypeOK /\ JournalInv)
<1>1. Init => TypeOK /\ JournalInv
  BY InitType, InitHolds
<1>2. TypeOK /\ JournalInv /\ [Next]_vars => (TypeOK /\ JournalInv)'
  BY NextType, NextHolds
<1> QED
  BY <1>1, <1>2, PTL DEF Spec

(***************************************************************************)
(* The properties.                                                         *)
(***************************************************************************)

\* operatorTransaction and settleJournal never let the network see two
\* transactions for one operation: all it has received is what the journal
\* holds, with any number of processes, crashes and reorganizations.
THEOREM OperationsAreSentOnce == Spec => []OnlyTheJournaledIsSent
<1>1. JournalInv => OnlyTheJournaledIsSent
  BY DEF JournalInv
<1> QED
  BY <1>1, JournalInvariant, PTL

\* Two operations of the journal never compete for one nonce (put's checks).
THEOREM NoncesAreExclusive == Spec => []NoNonceIsSharedOut
<1>1. TypeOK /\ JournalInv => NoNonceIsSharedOut
  BY DEF JournalInv, OnlyTheJournaledIsSent, NoncesApart, NoNonceIsSharedOut
<1> QED
  BY <1>1, JournalInvariant, PTL

\* A settled row names a block that holds its transaction with the recorded
\* outcome, and a pending one names none, although settleJournal reads the
\* chain and writes the row in different steps.
THEOREM RecordsStayTrue == Spec => []RecordsAreTrue
<1>1. JournalInv => RecordsAreTrue
  BY DEF JournalInv, RowsTrue, TrueRow, RecordsAreTrue, Rows
<1> QED
  BY <1>1, JournalInvariant, PTL

\* A row of the journal is never dropped and never gets another transaction,
\* whoever writes it and when.
THEOREM RowsAreKept == Spec => RowsKeepTheirTransaction
<1>1. TypeOK /\ JournalInv /\ [Next]_vars => Kept
  BY NextHolds
<1>2. TypeOK /\ JournalInv /\ [Next]_vars => [\A o \in Ops : journal[o] # None =>
         journal'[o] # None /\ journal'[o].tx = journal[o].tx]_vars
  BY <1>1 DEF Kept
<1> QED
  BY <1>2, JournalInvariant, PTL DEF Spec, RowsKeepTheirTransaction
=============================================================================
