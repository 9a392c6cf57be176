------------------------- MODULE MCOperatorJournal -------------------------
(***************************************************************************)
(* Instances of OperatorJournal for TLC.  A case says which processes run,   *)
(* which operations have not landed before, which fees are signed, and        *)
(* whether the chain is reorganized or the key is used by hand.              *)
(***************************************************************************)
EXTENDS OperatorJournal, TLC

CONSTANTS w1, w2, o1, o2

VARIABLE case

Case(workers, fresh, fees, may) == [workers |-> workers, fresh |-> fresh, fees |-> fees, may |-> may]
MCCases ==
  {Case({w1, w2}, {o1}, {1, 2}, {}),
   Case({w1}, {o1}, {1}, {"hand"}),
   Case({w1}, {o1, o2}, {1}, {"reorganize"})}

\* What landed before is in a block of its own, with the operator's first nonces.
Landed == [op |-> o2, nonce |-> 0, fee |-> 1]
Off == [Idle EXCEPT !.pc = "off"]
MCInit ==
  /\ case \in MCCases
  /\ LET before == IF case.fresh = Ops THEN {} ELSE {Landed}
     IN /\ blocks = IF before = {} THEN <<>> ELSE <<[past |-> {1}, tx |-> Landed, ok |-> TRUE]>>
        /\ head = Len(blocks)
        /\ sent = before /\ pool = {}
        /\ journal = [o \in Ops |-> IF o \in case.fresh THEN None ELSE [tx |-> Landed, status |-> "confirmed", block |-> 1]]
  /\ at = [w \in Workers |-> IF w \in case.workers THEN Idle ELSE Off]
  /\ reorgs = IF "reorganize" \in case.may THEN 0 ELSE MAX_REORGS
MCNext ==
  /\ Next
  /\ UNCHANGED case
  /\ \A w \in Workers : (at[w].pc = "off" => at'[w] = at[w]) /\ (at'[w].tx # None => at'[w].tx.fee \in case.fees)
  /\ \A t \in sent' \ sent : t.op = Foreign => "hand" \in case.may /\ t.fee \in case.fees
\* The operations land although nothing is known of w2: it may stop anywhere, or crash for ever.
MCSpec == MCInit /\ [][MCNext]_<<case, vars>> /\ WorkerFairness(w1) /\ ChainFairness
=============================================================================
