----------------------------- MODULE MCCustody -----------------------------
(***************************************************************************)
(* Three keepers: the campaign reserve of its budgets (a lifetime authority   *)
(* of 6 tokens, campaigns of 2 or 4 that unlock over two steps of time and    *)
(* may be open together, two purchases), the vault of its objects, and the    *)
(* retention of the sealed copies of a trace (two sales of one listing, whose *)
(* authorization allows one of them, or a direct offer).  They do not meet: a  *)
(* behaviour runs one.                                                       *)
(***************************************************************************)
EXTENDS CampaignReserve, VaultAccounting, ReleaseRetention, TLC

CONSTANTS x1, x2, x3, u1, op, l1, s1, s2

MCOwnerOf == x1 :> u1 @@ x2 :> u1 @@ x3 :> op
MCSize == x1 :> 1 @@ x2 :> 2 @@ x3 :> 1
MCLimits == "user" :> [bytes |-> 3, objects |-> 2] @@ "journal" :> [bytes |-> 1, objects |-> 1]
            @@ u1 :> [bytes |-> 2, objects |-> 2] @@ op :> [bytes |-> 2, objects |-> 2]
MCAllowances == {[bytes |-> 3, objects |-> 2], [bytes |-> 1, objects |-> 1]}

OneListing == s1 :> l1 @@ s2 :> l1
\* A direct offer is made while no other sale is prepared.
DirectAlone ==
  (\E s \in Direct : head.sale[s] \in {"offered", "accepted", "ended"}) => intents \subseteq Direct

VARIABLE live  \* which of them runs

TraceOver ==
  /\ source = "deleted"
  /\ rows = [l \in Listings |-> NoRow] /\ intents = {} /\ job = FALSE
  /\ report = [objects |-> TRUE, all |-> TRUE] /\ young = {} /\ copies = {} /\ lock = None
  /\ head = [sale |-> [s \in Sales |-> "none"], void |-> {}] /\ confirmed = head
  /\ at = [w \in Workers |-> Idle] /\ before = [confirmed |-> {}, head |-> {}]
NoCalls == calls = [c \in Calls |-> [pc |-> "idle", id |-> x1]]
MCInit ==
  /\ live \in {"reserve", "vault", "trace"}
  /\ Init /\ VaultInit
  /\ live # "vault" => NoCalls
  /\ IF live = "trace" THEN RetentionInit ELSE TraceOver
MCNext ==
  /\ UNCHANGED live
  /\ \/ live = "reserve" /\ Next /\ UNCHANGED <<vaultVars, retentionVars>>
     \/ live = "vault" /\ VaultNext /\ UNCHANGED <<vars, retentionVars>>
     \/ live = "trace" /\ RetentionNext /\ UNCHANGED <<vars, vaultVars>>
MCSpec == MCInit /\ [][MCNext]_<<live, vars, vaultVars, retentionVars>> /\ Fairness
=============================================================================
