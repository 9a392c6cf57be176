-------------------------- MODULE MCThotTreasury --------------------------
(***************************************************************************)
(* An instance of ThotTreasury for TLC: one acquisition campaign and one   *)
(* staking campaign compete for at most 9 tokens; rates are tenths.        *)
(***************************************************************************)
EXTENDS ThotTreasury

Short == <<[duration |-> 1, rewardBps |-> 10]>>
OneMenu == {Short}
=============================================================================
