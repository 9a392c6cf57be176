----------------------------- MODULE MCSpending -----------------------------
(***************************************************************************)
(* What is set apart before it is spent: the rewards of the staking pool, and *)
(* the credit behind calls to the inference provider.  The two do not meet: a *)
(* behaviour runs one of them.  Rates are tenths: the cheap menu pays 3       *)
(* tenths, the dear one 4 for the short term and 7 for the long.             *)
(***************************************************************************)
EXTENDS StakingPool, InferenceGateway

Dear == <<[duration |-> 1, rewardBps |-> 4], [duration |-> 2, rewardBps |-> 7]>>
Cheap == <<[duration |-> 1, rewardBps |-> 3]>>
DearAndCheap == {Dear, Cheap}

VARIABLE live  \* which of them runs
MCInit == live \in {"pool", "gateway"} /\ Init /\ GatewayInit
MCNext ==
  /\ UNCHANGED live
  /\ \/ live = "pool" /\ Next /\ UNCHANGED gatewayVars
     \/ live = "gateway" /\ GatewayNext /\ UNCHANGED vars
MCSpec == MCInit /\ [][MCNext]_<<live, vars, gatewayVars>> /\ GatewayFairness
=============================================================================
