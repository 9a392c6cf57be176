--------------------------- MODULE VaultAccounting ---------------------------
(***************************************************************************)
(* SqlRemoteAccounting and the remote half of VaultStore (packages/vault):    *)
(* objects live at a provider, and what they take is charged in a database of  *)
(* its own.  A write reserves before it uploads and a deletion is authorized   *)
(* before anything is removed, so that each is several steps in two stores;    *)
(* any of them may fail, any process may stop between them, and an upload that *)
(* seemed to fail may still be accepted later.                              *)
(***************************************************************************)
EXTENDS Integers, FiniteSets, Functions

CONSTANTS
  Objects,     \* object ids
  OwnerOf,     \* whose object it is
  Journal,     \* objects of the operator journal, which count separately
  Size,        \* bytes of the envelope of each object
  Limits,      \* what fits in "user", in "journal" and, unless allowed otherwise, of each owner
  Allowances,  \* what an operator may allow an owner
  Calls        \* calls of put and delete, by any process

VaultOwners == {OwnerOf[id] : id \in Objects}
AllScopes == {"user", "journal"} \cup VaultOwners

ASSUME VaultAssumption ==
  /\ IsFiniteSet(Objects)
  /\ Size \in [Objects -> Nat \ {0}] /\ Journal \subseteq Objects
  /\ Limits \in [AllScopes -> [bytes : Nat, objects : Nat]] /\ Allowances \subseteq [bytes : Nat, objects : Nat]

VARIABLES
  status,    \* remote_vault_objects: the status of each row, "none" without one
  usage,     \* remote_vault_usage
  allowance, \* remote_vault_owner_policy, and the limits
  provider,  \* objects the provider has
  sent,      \* uploads nobody waits for any more that may still be accepted
  calls      \* where each call is
vaultVars == <<status, usage, allowance, provider, sent, calls>>

Statuses == {"none", "pending", "stored", "deleting", "deleted"}
Pcs == {"idle", "reserve", "upload", "stored", "authorize", "remove", "removed", "over"}
Charged == {"pending", "stored", "deleting"}
Scopes(id) == IF id \in Journal THEN {"journal"} ELSE {"user", OwnerOf[id]}
Id(c) == calls[c].id
At(c, pc) == calls[c].pc = pc
Moves(c, pc) == calls' = [calls EXCEPT ![c] = [@ EXCEPT !.pc = pc]]

VaultInit ==
  /\ status = [id \in Objects |-> "none"]
  /\ usage = [s \in AllScopes |-> [bytes |-> 0, objects |-> 0]]
  /\ allowance = Limits
  /\ provider = {} /\ sent = {}
  /\ calls \in [Calls -> [pc : {"idle"}, id : Objects]]

Begin(c) ==
  /\ At(c, "idle")
  /\ Moves(c, "reserve") \/ Moves(c, "authorize")
  /\ UNCHANGED <<status, usage, allowance, provider, sent>>

(***************************************************************************)
(* putRemote: reserve, upload, stored.                                      *)
(***************************************************************************)
Fits(s, id) ==
  usage[s].bytes + Size[id] <= allowance[s].bytes /\ usage[s].objects + 1 <= allowance[s].objects
Admitted(id) == status[id] = "none" /\ \A s \in Scopes(id) : Fits(s, id)
Reserve(c) ==
  /\ At(c, "reserve") /\ Admitted(Id(c))
  /\ usage' = [s \in AllScopes |->
       IF s \in Scopes(Id(c)) THEN [bytes |-> usage[s].bytes + Size[Id(c)], objects |-> usage[s].objects + 1]
       ELSE usage[s]]
  /\ status' = [status EXCEPT ![Id(c)] = "pending"]
  /\ Moves(c, "upload")
  /\ UNCHANGED <<allowance, provider, sent>>
Upload(c) ==
  /\ At(c, "upload")
  /\ provider' = provider \cup {Id(c)}
  /\ Moves(c, "stored")
  /\ UNCHANGED <<status, usage, allowance, sent>>
Stored(c) ==
  /\ At(c, "stored")
  /\ status' = IF status[Id(c)] \in {"pending", "stored"} THEN [status EXCEPT ![Id(c)] = "stored"] ELSE status
  /\ Moves(c, "over")
  /\ UNCHANGED <<usage, allowance, provider, sent>>

(***************************************************************************)
(* delete: authorizeDelete, the removal at the provider, removed.             *)
(***************************************************************************)
Authorize_Pending(c) ==
  /\ At(c, "authorize") /\ status[Id(c)] # "none"
  /\ status' = IF status[Id(c)] = "deleted" THEN status ELSE [status EXCEPT ![Id(c)] = "deleting"]
  /\ Moves(c, "remove")
  /\ UNCHANGED <<usage, allowance, provider, sent>>
Authorize(c) ==
  /\ At(c, "authorize") /\ status[Id(c)] \notin {"none", "pending"}
  /\ status' = IF status[Id(c)] = "deleted" THEN status ELSE [status EXCEPT ![Id(c)] = "deleting"]
  /\ Moves(c, "remove")
  /\ UNCHANGED <<usage, allowance, provider, sent>>
Remove(c) ==
  /\ At(c, "remove")
  /\ provider' = provider \ {Id(c)}
  /\ Moves(c, "removed")
  /\ UNCHANGED <<status, usage, allowance, sent>>
Release(id) ==
  usage' = [s \in AllScopes |->
    IF s \in Scopes(id) THEN [bytes |-> usage[s].bytes - Size[id], objects |-> usage[s].objects - 1] ELSE usage[s]]
Removed_Again(c) ==
  /\ At(c, "removed") /\ Moves(c, "over")
  /\ Release(Id(c)) /\ status' = [status EXCEPT ![Id(c)] = "deleted"]
  /\ UNCHANGED <<allowance, provider, sent>>
\* A row that is deleted stays, so that an old reference never names new bytes.
Removed(c) ==
  /\ At(c, "removed") /\ Moves(c, "over")
  /\ \/ status[Id(c)] = "deleting" /\ Release(Id(c)) /\ status' = [status EXCEPT ![Id(c)] = "deleted"]
     \/ status[Id(c)] # "deleting" /\ UNCHANGED <<status, usage>>
  /\ UNCHANGED <<allowance, provider, sent>>

(***************************************************************************)
(* A call is refused, fails or its process stops.  An upload may arrive late.  *)
(***************************************************************************)
Stop(c) ==
  /\ calls[c].pc \notin {"idle", "over"}
  /\ sent' = IF At(c, "upload") THEN sent \cup {Id(c)} ELSE sent
  /\ Moves(c, "over")
  /\ UNCHANGED <<status, usage, allowance, provider>>
Arrive(id) ==
  /\ id \in sent
  /\ sent' = sent \ {id} /\ provider' = provider \cup {id}
  /\ UNCHANGED <<status, usage, allowance, calls>>

\* setOwnerAllowance.
SetOwnerAllowance(o, granted) ==
  /\ granted.bytes <= Limits["user"].bytes /\ granted.objects <= Limits["user"].objects
  /\ granted.bytes >= usage[o].bytes /\ granted.objects >= usage[o].objects
  /\ allowance' = [allowance EXCEPT ![o] = granted]
  /\ UNCHANGED <<status, usage, provider, sent, calls>>

CallStep(c) ==
  Begin(c) \/ Reserve(c) \/ Upload(c) \/ Stored(c) \/ Authorize(c) \/ Remove(c) \/ Removed(c) \/ Stop(c)
VaultNext ==
  \/ \E c \in Calls : CallStep(c)
  \/ \E id \in Objects : Arrive(id)
  \/ \E o \in VaultOwners, granted \in Allowances : SetOwnerAllowance(o, granted)
VaultSpec == VaultInit /\ [][VaultNext]_vaultVars

(***************************************************************************)
(* Properties.                                                             *)
(***************************************************************************)
\* "Never release capacity based on a timeout: the provider may already have accepted the object"
\* (vault/src/index.ts): whatever the provider has or may still accept is charged.
StoredIsCharged == \A id \in provider \cup sent : status[id] \in Charged

\* What is charged is what the rows add up to, each once, through repeated deletions and lost answers,
\* and no scope is charged more than it is allowed.
ChargedIn(s) == {id \in Objects : s \in Scopes(id) /\ status[id] \in Charged}
QuotasHold == \A s \in AllScopes : usage[s].bytes <= allowance[s].bytes /\ usage[s].objects <= allowance[s].objects
RowsAddUp ==
  \A s \in AllScopes : /\ usage[s].bytes = SumFunctionOnSet(Size, ChargedIn(s))
                       /\ usage[s].objects = Cardinality(ChargedIn(s))
UsageIsTheSum == QuotasHold /\ RowsAddUp
=============================================================================
