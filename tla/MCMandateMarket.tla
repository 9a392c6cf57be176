-------------------------- MODULE MCMandateMarket --------------------------
(***************************************************************************)
(* What contributors let the market sell for them: traces matched with         *)
(* mandates, and recordings offered under the policy of a connection.  The two  *)
(* do not meet: a behaviour runs one of them.                               *)
(***************************************************************************)
EXTENDS MandateMarket, Connections, TLC
C(mandates, traces, events) == [mandates |-> mandates, traces |-> traces, events |-> events]
MCOwnerOf == [t \in {"t1", "t2"} |-> "owner"]
MCPriceOf == [m \in {"m1", "m2", "m3"} |-> 3]
MCBudgetOf == [m \in {"m1", "m2", "m3"} |-> 6]
MCUnitsOf == [m \in {"m1", "m2", "m3"} |-> IF m = "m1" THEN 2 ELSE 1]
MCCases == {
  C({"m3"}, {"t1"}, {"evidence", "delete", "lapse", "faults"}),
  C({"m1"}, {"t1"}, {"pause", "controls"}),
  C({"m1"}, {"t1", "t2"}, {"partial"}),
  C({"m1"}, {"t1"}, {"money"}),
  C({"m1", "m2"}, {"t1"}, {"expiry"}),
  C({"m2"}, {"t1", "t2"}, {"standing", "delete"})}

\* Requests of browsers: two approve the same code, others create a device or connect the relay directly.
Ask(does, code, policy) == [does |-> does, code |-> code, policy |-> policy]
MCCalls == [a1 |-> Ask("approve", "c1", "p1"), a2 |-> Ask("approve", "c1", NoGrant),
            d1 |-> Ask("create", "none", "p1"), d2 |-> Ask("create", "none", "p2"), x1 |-> Ask("connect", "none", "p1")]
Setting(callers, recorded, workers, events, faults) ==
  [calls |-> callers, recordings |-> recorded, passes |-> workers, events |-> events, faults |-> faults]
MCSettings == {
  Setting({"a1", "a2", "d1"}, {}, {}, {"deny", "lapse"}, 1),
  Setting({"d1", "x1"}, {1, 2}, {"w1"}, {"disconnect"}, 0),
  Setting({"a1"}, {1}, {"w1", "w2"}, {"revoke", "unlist"}, 1),
  Setting({"d1"}, {1}, {"w1", "w2"}, {"disconnect", "reprocess"}, 1),
  Setting({"d1"}, {1}, {"w1", "w2"}, {"lapse"}, 0),
  Setting({"d1", "d2"}, {1, 2}, {"w1"}, {"revoke", "unlist"}, 0)}

VARIABLE live  \* which of them runs; the other stands still in any one of its initial states
MCInit ==
  /\ MarketInit /\ ConnectionsInit
  /\ \/ live = "mandates" /\ setting = CHOOSE one \in Settings : TRUE
     \/ live = "connections" /\ case = CHOOSE one \in Cases : TRUE
MCNext ==
  /\ UNCHANGED live
  /\ \/ live = "mandates" /\ MarketNext /\ UNCHANGED connectionVars
     \/ live = "connections" /\ ConnectionsNext /\ UNCHANGED marketVars
MCSpec == MCInit /\ [][MCNext]_<<live, marketVars, connectionVars>> /\ MarketFairness /\ ConnectionsFairness
=============================================================================
