---------------------------- MODULE MCSaleWorker ----------------------------
(* Two listings of one content by one seller.                               *)
EXTENDS SaleWorker, TLC
MCListings == {"l1", "l2"}
MCContentOf == [l \in MCListings |-> "c"]
MCSellerOf == [l \in MCListings |-> "seller"]
D(s, kind, l) == [sale |-> s, kind |-> kind, listing |-> l]
S(workers, deals, payers, direct, revocable, reorg, faults) ==
  [workers |-> workers, deals |-> deals, payers |-> payers, direct |-> direct,
   revocable |-> revocable, reorg |-> reorg, faults |-> faults]
MCScenarios ==
  { \* two workers on one reserve sale, which may be revoked
    S({1,2}, {D(1,"manual","l1")}, {1},{},{"l1"},FALSE,FALSE),
    \* two reserve sales of the same content, one funded by the operator
    S({1}, {D(1,"auto","l1"),D(2,"manual","l2")}, {2},{},{"l1","l2"},FALSE,TRUE),
    \* a sale nobody pays for and one that is paid and may be disputed
    S({1}, {D(1,"ordinary","l1"),D(2,"ordinary","l2")}, {2},{},{},FALSE,TRUE),
    \* a reorganization
    S({1}, {D(1,"auto","l1")}, {1},{},{},TRUE,FALSE),
    \* a sale paid with the authorization or offered without it, also after a revocation closed the job
    S({1}, {D(1,"ordinary","l1")}, {1},{1},{"l1"},FALSE,TRUE)}
=============================================================================
