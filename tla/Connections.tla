---------------------------- MODULE Connections -----------------------------
(***************************************************************************)
(* How a contributor connects recorders and what the connections may sell:   *)
(* ThotStreams (standing sale policies signed once), DevicePairing and         *)
(* CaptureDevices (a helper is given a device by a browser that approves its   *)
(* code), assertCaptureSaleAuthority, and offerCompletedStreams of ThotMarket,  *)
(* by which the worker lists what a connection recorded.  One contributor.     *)
(* Every action is one transaction; between those of one request, or of one    *)
(* pass of the worker, everybody else may act and the process may die.         *)
(*                                                                         *)
(* A device is named after the request that created it, a listing after the    *)
(* recording it offers, the contents of a recording by their version.  The      *)
(* wallet's signatures verify; what a relay's requests carry is left out.       *)
(***************************************************************************)
EXTENDS Naturals, FiniteSets, FiniteSetsExt

CONSTANTS
  Policies,       \* the stream policies the contributor prepares
  Codes,          \* the pairing codes helpers ask for
  Calls,          \* requests of browsers: [does, code, policy], does being "approve", "create" or "connect"
  Recordings,     \* numbers, the oldest first
  Passes,         \* worker processes
  PAGE,           \* recordings offered in one pass (20)
  MAX_DEVICES,    \* connected devices of an account (40)
  Settings,       \* bound: what there is and what may happen in a behaviour
  MAX_VERSION_OF  \* bound: contents of a recording

Requests == DOMAIN Calls
NoGrant == "no policy"
RELAY == "the relay"
NoDevice == "no device"
ASSUME ConnectionsAssumption ==
  /\ Recordings \subseteq Nat /\ PAGE \in Nat \ {0} /\ MAX_DEVICES \in Nat
  /\ \A r \in Requests : /\ Calls[r].does \in {"approve", "create", "connect"}
                         /\ Calls[r].policy \in Policies \cup {NoGrant}
                         /\ Calls[r].does = "approve" => Calls[r].code \in Codes
  /\ NoGrant \notin Policies /\ NoDevice \notin Requests /\ RELAY \notin Requests

VARIABLES
  setting,    \* chosen at the start; only the faults that are left change
  policies,   \* thot_records of kind stream_policy
  devices,    \* auth_access of kind capture_device, by the request that created it
  codes,      \* auth_access of kind device_pairing
  relay,      \* the openrouter-config of the contributor
  recordings, \* captures and traces
  listings,   \* thot_records of kind listing with a stream_id
  calls,      \* where the browsers' requests are
  passes      \* where the workers are
connectionVars == <<setting, policies, devices, codes, relay, recordings, listings, calls, passes>>
browserVars == <<relay, codes, calls>>

Fresh == [status |-> "none", window |-> FALSE, lapsed |-> FALSE, device |-> NoDevice]
NoRecording == [state |-> "none", via |-> NoDevice, policy |-> NoGrant, ready |-> FALSE, version |-> 0, offer |-> "none"]
NoListing == [made |-> FALSE, signed |-> FALSE, active |-> FALSE, unlisted |-> FALSE, version |-> 0]
Asleep == [pc |-> "idle", queue |-> {}, version |-> 0]
FirstStep(r) == IF Calls[r].does = "approve" THEN "claim" ELSE IF Calls[r].policy = NoGrant THEN "issue" ELSE "activate"

ConnectionsInit ==
  /\ setting \in Settings
  /\ policies = [p \in Policies |-> Fresh]
  /\ devices = [r \in Requests |-> [made |-> FALSE, policy |-> NoGrant, revoked |-> FALSE, lapsed |-> FALSE]]
  /\ codes = [c \in Codes |-> [status |-> "none", device |-> NoDevice, lapsed |-> FALSE, given |-> 0]]
  /\ relay = [active |-> FALSE, policy |-> NoGrant]
  /\ recordings = [t \in Recordings |-> NoRecording]
  /\ listings = [t \in Recordings |-> NoListing]
  /\ calls = [r \in Requests |-> IF r \in setting.calls THEN FirstStep(r) ELSE "over"]
  /\ passes = [w \in Passes |-> IF w \in setting.passes THEN Asleep ELSE [Asleep EXCEPT !.pc = "off"]]

Allowed(event) == event \in setting.events
\* Something fails: one of the faults of the behaviour.
Fault == setting.faults > 0 /\ setting' = [setting EXCEPT !.faults = @ - 1]
NoFault == UNCHANGED setting

(***************************************************************************)
(* Stream policies.                                                         *)
(***************************************************************************)
InForce(p) == p # NoGrant /\ policies[p].status = "active" /\ ~policies[p].lapsed
\* prepare: unsigned, with fifteen minutes to sign and to connect.
Prepare(p) ==
  /\ policies[p].status = "none"
  /\ policies' = [policies EXCEPT ![p].status = "prepared", ![p].window = TRUE]
  /\ UNCHANGED <<setting, devices, recordings, listings, passes, browserVars>>
Activatable(p) ==
  /\ policies[p].status \in {"prepared", "active"} /\ ~policies[p].lapsed
  /\ policies[p].status = "active" \/ policies[p].window

\* revoke, and what CaptureDevices.revoke does with the policy of the device.
Withdraw(p) ==
  /\ policies' = [policies EXCEPT ![p].status = "revoked"]
  /\ listings' = [t \in Recordings |-> IF recordings[t].policy = p THEN [listings[t] EXCEPT !.active = FALSE] ELSE listings[t]]
RevokeStream(p) ==
  /\ Allowed("revoke") /\ policies[p].status \in {"prepared", "active"}
  /\ Withdraw(p)
  /\ UNCHANGED <<setting, devices, recordings, passes, browserVars>>
Connected(d) == d # NoDevice /\ devices[d].made /\ ~devices[d].revoked /\ ~devices[d].lapsed
RevokeDevice(d) ==
  /\ Allowed("disconnect") /\ devices[d].made /\ ~devices[d].revoked
  /\ devices' = [devices EXCEPT ![d].revoked = TRUE]
  /\ IF devices[d].policy = NoGrant THEN UNCHANGED <<policies, listings>>
     ELSE policies[devices[d].policy].device = d /\ Withdraw(devices[d].policy)
  /\ UNCHANGED <<setting, recordings, passes, browserVars>>

(***************************************************************************)
(* Pairing codes: the helper's side.                                        *)
(***************************************************************************)
\* create: rows past their time are purged on the way.
CreateCode(c) ==
  /\ codes[c].status = "none"
  /\ codes' = [x \in Codes |-> IF x = c THEN [codes[x] EXCEPT !.status = "pending"]
                               ELSE IF codes[x].lapsed THEN [codes[x] EXCEPT !.status = "purged"] ELSE codes[x]]
  /\ UNCHANGED <<setting, policies, devices, relay, recordings, listings, calls, passes>>
Deliverable(c) == codes[c].status = "approved" /\ ~codes[c].lapsed
\* token: the credential leaves once.
Token(c) ==
  /\ Deliverable(c)
  /\ codes' = [codes EXCEPT ![c].status = "delivered", ![c].given = @ + 1]
  /\ UNCHANGED <<setting, policies, devices, relay, recordings, listings, calls, passes>>
SetCode(c, from, to) ==
  /\ codes[c].status \in from /\ ~codes[c].lapsed
  /\ codes' = [codes EXCEPT ![c].status = to]
  /\ UNCHANGED <<setting, policies, devices, relay, recordings, listings, calls, passes>>
Deny(c) == Allowed("deny") /\ SetCode(c, {"pending"}, "denied")
Cancel(c) == Allowed("deny") /\ SetCode(c, {"pending", "approved", "delivered"}, "cancelled")

(***************************************************************************)
(* A browser's request: approve a code, create a device, or connect the       *)
(* relay.  The policy it names is activated first, in a transaction of its     *)
(* own.                                                                     *)
(***************************************************************************)
PolicyOf(r) == Calls[r].policy
CodeOf(r) == Calls[r].code
Approving(r) == Calls[r].does = "approve"
Go(r, pc) == calls' = [calls EXCEPT ![r] = pc]
Refused(r) == Go(r, IF Approving(r) THEN "rollback" ELSE "over")

\* approve, first transaction: the code is claimed.
Claimable_Again(c) == codes[c].status \in {"pending", "approving"} /\ ~codes[c].lapsed
Claimable(c) == codes[c].status = "pending" /\ ~codes[c].lapsed
Claim(r) ==
  /\ calls[r] = "claim" /\ codes[CodeOf(r)].status # "none"
  /\ IF Claimable(CodeOf(r))
     THEN /\ codes' = [codes EXCEPT ![CodeOf(r)].status = "approving"]
          /\ Go(r, IF PolicyOf(r) = NoGrant THEN "issue" ELSE "activate")
     ELSE Go(r, "over") /\ UNCHANGED codes
  /\ UNCHANGED <<setting, policies, devices, relay, recordings, listings, passes>>

ActivateStream(r) ==
  /\ calls[r] = "activate" /\ policies[PolicyOf(r)].status # "none"
  /\ IF Activatable(PolicyOf(r))
     THEN policies' = [policies EXCEPT ![PolicyOf(r)].status = "active"] /\ Go(r, "issue")
     ELSE Refused(r) /\ UNCHANGED policies
  /\ UNCHANGED <<setting, devices, codes, relay, recordings, listings, passes>>

\* CaptureDevices.create: a policy is bound to one device, within its fifteen minutes, and only when
\* no connection of the relay and no recording was made under it.
Recorded(p) == relay.policy = p \/ \E t \in Recordings : recordings[t].policy = p
Bindable_Twice(p) == InForce(p) /\ policies[p].window /\ ~Recorded(p)
Bindable(p) == InForce(p) /\ policies[p].window /\ policies[p].device = NoDevice /\ ~Recorded(p)
CreateDevice(r) ==
  /\ calls[r] = "issue" /\ Calls[r].does # "connect"
  /\ IF Cardinality({d \in Requests : Connected(d)}) < MAX_DEVICES /\ (PolicyOf(r) = NoGrant \/ Bindable(PolicyOf(r)))
     THEN /\ devices' = [devices EXCEPT ![r].made = TRUE, ![r].policy = PolicyOf(r)]
          /\ policies' = [p \in Policies |-> IF p = PolicyOf(r) THEN [policies[p] EXCEPT !.device = r] ELSE policies[p]]
          /\ Go(r, IF Approving(r) THEN "finish" ELSE "over") /\ NoFault
     ELSE Refused(r) /\ NoFault /\ UNCHANGED <<devices, policies>>
  /\ UNCHANGED <<codes, relay, recordings, listings, passes>>
\* The transaction of a step fails.
CallFails(r) ==
  /\ calls[r] \in {"activate", "issue", "finish", "rollback"} /\ Fault
  /\ IF calls[r] \in {"activate", "issue"} THEN Refused(r) ELSE Go(r, "over")
  /\ UNCHANGED <<policies, devices, codes, relay, recordings, listings, passes>>

\* OpenRouterRelay.connect asks only whether a device has the policy.
ConnectRelay(r) ==
  /\ calls[r] = "issue" /\ Calls[r].does = "connect" /\ Go(r, "over")
  /\ IF PolicyOf(r) = NoGrant \/ policies[PolicyOf(r)].device = NoDevice
     THEN relay' = [active |-> TRUE, policy |-> PolicyOf(r)] ELSE UNCHANGED relay
  /\ UNCHANGED <<setting, policies, devices, codes, recordings, listings, passes>>
DisconnectRelay ==
  /\ Allowed("disconnect") /\ relay.active
  /\ relay' = [relay EXCEPT !.active = FALSE]
  /\ UNCHANGED <<setting, policies, devices, codes, recordings, listings, calls, passes>>

\* approve, last transaction: the credential is put where the helper finds it, also after the code's time.
Finish(r) ==
  /\ calls[r] = "finish" /\ Go(r, "over")
  /\ IF codes[CodeOf(r)].status = "approving"
     THEN codes' = [codes EXCEPT ![CodeOf(r)].status = "approved", ![CodeOf(r)].device = r] ELSE UNCHANGED codes
  /\ UNCHANGED <<setting, policies, devices, relay, recordings, listings, passes>>
\* When the device could not be made the code can be used again.
Rollback(r) ==
  /\ calls[r] = "rollback" /\ Go(r, "over")
  /\ IF codes[CodeOf(r)].status = "approving"
     THEN codes' = [codes EXCEPT ![CodeOf(r)].status = "pending"] ELSE UNCHANGED codes
  /\ UNCHANGED <<setting, policies, devices, relay, recordings, listings, passes>>
CallStep(r) ==
  Claim(r) \/ ActivateStream(r) \/ CreateDevice(r) \/ ConnectRelay(r) \/ Finish(r) \/ Rollback(r)
CallCrashes(r) ==
  /\ calls[r] \in {"activate", "issue", "finish", "rollback"} /\ Fault /\ Go(r, "over")
  /\ UNCHANGED <<policies, devices, codes, relay, recordings, listings, passes>>

(***************************************************************************)
(* Recordings.                                                              *)
(***************************************************************************)
\* assertCaptureSaleAuthority: the recording's device is connected and bound to its policy, both ways.
Authority(d, p) ==
  /\ Connected(d) /\ devices[d].policy = p
  /\ InForce(p) /\ policies[p].device = d
Update(t, row) ==
  /\ recordings' = [recordings EXCEPT ![t] = row]
  /\ UNCHANGED <<policies, listings, passes, browserVars>>
\* CaptureDevices.begin: without authority to sell the capture is private.  A second transaction binds it.
BeginCapture(t, d) ==
  /\ recordings[t].state = "none" /\ t \in setting.recordings /\ Connected(d)
  /\ Update(t, [recordings[t] EXCEPT !.state = "begun", !.via = d, !.policy = IF Authority(d, devices[d].policy) THEN devices[d].policy ELSE NoGrant])
  /\ UNCHANGED <<setting, devices>>
Bound(t) == Connected(recordings[t].via) /\ (recordings[t].policy # NoGrant => Authority(recordings[t].via, recordings[t].policy))
BindCapture(t) ==
  /\ recordings[t].state = "begun"
  /\ Update(t, IF Bound(t) THEN [recordings[t] EXCEPT !.state = "recording"] ELSE [recordings[t] EXCEPT !.state = "dropped", !.policy = NoGrant])
  /\ UNCHANGED <<setting, devices>>
\* The final save, for which the device must still be connected; its view is made later.
CompleteCapture(t) ==
  /\ recordings[t].state = "recording" /\ recordings[t].via # RELAY /\ Connected(recordings[t].via)
  /\ Update(t, [recordings[t] EXCEPT !.state = "completed"]) /\ UNCHANGED <<setting, devices>>
\* projectCapture prepares what may be sold, or finds it too large; other rules may make other contents.
PrepareRelease(t) ==
  /\ recordings[t].state = "completed" /\ recordings[t].via # RELAY /\ ~recordings[t].ready
  /\ \E version \in {recordings[t].version, recordings[t].version + 1} :
       /\ version \in 1..MAX_VERSION_OF
       /\ Update(t, [recordings[t] EXCEPT !.ready = TRUE, !.version = version])
  /\ UNCHANGED <<setting, devices>>
Reprocess(t) ==
  /\ Allowed("reprocess") /\ recordings[t].ready /\ recordings[t].version < MAX_VERSION_OF
  /\ Update(t, [recordings[t] EXCEPT !.ready = FALSE]) /\ UNCHANGED <<setting, devices>>
\* The relay's recordings carry the policy of its connection; without an assessment they have no contents to sell.
BeginRelayed(t) ==
  /\ recordings[t].state = "none" /\ t \in setting.recordings /\ relay.active
  /\ Update(t, [recordings[t] EXCEPT !.state = "recording", !.via = RELAY, !.policy = relay.policy]) /\ UNCHANGED <<setting, devices>>
FinishRelayed(t) ==
  /\ recordings[t].state = "recording" /\ recordings[t].via = RELAY
  /\ \E version \in {0, 1} : Update(t, [recordings[t] EXCEPT !.state = "completed", !.version = version])
  /\ UNCHANGED <<setting, devices>>
\* unlist: from the contributor, before or after the listing is signed.
Unlist(t) ==
  /\ Allowed("unlist") /\ listings[t].made /\ ~listings[t].unlisted
  /\ listings' = [listings EXCEPT ![t].active = FALSE, ![t].unlisted = TRUE]
  /\ UNCHANGED <<setting, policies, devices, recordings, passes, browserVars>>

(***************************************************************************)
(* offerCompletedStreams.  What fails for want of a right is marked            *)
(* INELIGIBLE; after any other error the recording is taken up in a later pass. *)
(***************************************************************************)
Offerable(t) ==
  /\ recordings[t].state = "completed" /\ recordings[t].policy # NoGrant /\ recordings[t].offer = "none"
  /\ recordings[t].via = RELAY \/ recordings[t].ready
\* The first PAGE of them.
Page == {t \in Recordings : Offerable(t) /\ Cardinality({u \in Recordings : u < t /\ Offerable(u)}) < PAGE}
Holding(w, pc) == passes[w].pc = pc
Mine(w) == Min(passes[w].queue)
At(w, pc) == passes' = [passes EXCEPT ![w].pc = pc]
Next1(w) == IF passes[w].queue = {Mine(w)} THEN Asleep ELSE [Asleep EXCEPT !.pc = "look", !.queue = passes[w].queue \ {Mine(w)}]
Skip(w) == passes' = [passes EXCEPT ![w] = Next1(w)]
OfferFrame == UNCHANGED <<policies, devices, browserVars>>

ReadPage(w) ==
  /\ Holding(w, "idle") /\ Page # {}
  /\ passes' = [passes EXCEPT ![w] = [pc |-> "look", queue |-> Page, version |-> 0]]
  /\ UNCHANGED <<setting, recordings, listings>> /\ OfferFrame

\* The sale's rights: of a device's recording its authority, of any its policy.
Permitted(t) ==
  /\ InForce(recordings[t].policy)
  /\ recordings[t].via # RELAY => Authority(recordings[t].via, recordings[t].policy)
NoRight_WhenLapsed(w, t) == IF policies[recordings[t].policy].lapsed THEN At(w, "give up") ELSE Skip(w)
NoRight(w, t) == At(w, "give up")
\* The authority, the policy with its price and license, and the contents as they are now.
Look(w) ==
  /\ Holding(w, "look") /\ UNCHANGED <<setting, recordings, listings>> /\ OfferFrame
  /\ LET t == Mine(w) IN
     IF ~Permitted(t) THEN NoRight(w, t)
     ELSE IF recordings[t].version = 0 \/ (recordings[t].via # RELAY /\ ~recordings[t].ready) THEN Skip(w)
     ELSE passes' = [passes EXCEPT ![w].pc = "list", ![w].version = recordings[t].version]

\* listTrace, an idempotent command: the same contents are answered with the listing there is, others
\* conflict with it.  Recordings of the relay are stored as private, which makes them ineligible.
ListTrace(w) ==
  /\ Holding(w, "list") /\ UNCHANGED <<setting, recordings>> /\ OfferFrame
  /\ LET t == Mine(w) IN
     IF listings[t].made
     THEN UNCHANGED listings /\ IF listings[t].version = passes[w].version THEN At(w, "sign") ELSE Skip(w)
     ELSE IF recordings[t].via = RELAY \/ ~Authority(recordings[t].via, recordings[t].policy)
     THEN UNCHANGED listings /\ NoRight(w, t)
     ELSE IF ~recordings[t].ready \/ recordings[t].version # passes[w].version THEN UNCHANGED listings /\ Skip(w)
     ELSE /\ listings' = [listings EXCEPT ![t].made = TRUE, ![t].version = passes[w].version]
          /\ At(w, "sign")
\* A listing that is signed is only marked; else the policy's key signs, when the policy is in force.
Sign(w) ==
  /\ Holding(w, "sign") /\ UNCHANGED <<setting, recordings, listings>> /\ OfferFrame
  /\ IF listings[Mine(w)].signed THEN At(w, "mark")
     ELSE IF InForce(recordings[Mine(w)].policy) THEN At(w, "activate") ELSE NoRight(w, Mine(w))
MayShow_Checked(t) == recordings[t].ready
MayShow(t) == Permitted(t)
\* activateListing, an idempotent command too.
ActivateListing(w) ==
  /\ Holding(w, "activate") /\ UNCHANGED <<setting, recordings>> /\ OfferFrame
  /\ LET t == Mine(w) IN
     IF listings[t].signed THEN UNCHANGED listings /\ At(w, "mark")
     ELSE IF listings[t].unlisted THEN UNCHANGED listings /\ Skip(w)
     ELSE IF ~MayShow(t) THEN UNCHANGED listings /\ NoRight(w, t)
     ELSE IF ~recordings[t].ready THEN UNCHANGED listings /\ Skip(w)
     ELSE /\ listings' = [listings EXCEPT ![t].signed = TRUE, ![t].active = TRUE]
          /\ At(w, "mark")
Offer(w, status) ==
  /\ recordings' = [recordings EXCEPT ![Mine(w)].offer = status]
  /\ Skip(w) /\ UNCHANGED <<setting, listings>> /\ OfferFrame
Mark(w) == Holding(w, "mark") /\ Offer(w, "LISTED")
GiveUp(w) == Holding(w, "give up") /\ Offer(w, "INELIGIBLE")
PassStep(w) == ReadPage(w) \/ Look(w) \/ ListTrace(w) \/ Sign(w) \/ ActivateListing(w) \/ Mark(w) \/ GiveUp(w)
\* A step fails, and the recording is left for later; what fails when it is given up ends the pass, as a crash.
PassFails(w) ==
  /\ passes[w].pc \notin {"idle", "off"} /\ Fault
  /\ Skip(w) \/ passes' = [passes EXCEPT ![w] = Asleep]
  /\ UNCHANGED <<recordings, listings>> /\ OfferFrame

(***************************************************************************)
(* Time.                                                                    *)
(***************************************************************************)
LapsePolicy(p) ==
  /\ Allowed("lapse") /\ policies[p].status # "none" /\ ~policies[p].lapsed
  /\ policies' = [policies EXCEPT ![p].lapsed = TRUE, ![p].window = FALSE]
  /\ UNCHANGED <<setting, devices, recordings, listings, passes, browserVars>>
CloseWindow(p) ==
  /\ Allowed("lapse") /\ policies[p].window
  /\ policies' = [policies EXCEPT ![p].window = FALSE]
  /\ UNCHANGED <<setting, devices, recordings, listings, passes, browserVars>>
LapseDevice(d) ==
  /\ Allowed("lapse") /\ Connected(d)
  /\ devices' = [devices EXCEPT ![d].lapsed = TRUE]
  /\ UNCHANGED <<setting, policies, recordings, listings, passes, browserVars>>
LapseCode(c) ==
  /\ Allowed("lapse") /\ codes[c].status \notin {"none", "purged"} /\ ~codes[c].lapsed
  /\ codes' = [codes EXCEPT ![c].lapsed = TRUE]
  /\ UNCHANGED <<setting, policies, devices, relay, recordings, listings, calls, passes>>

Helper ==
  \/ \E c \in Codes : CreateCode(c) \/ Token(c)
  \/ \E t \in Recordings : \/ \E d \in Requests : BeginCapture(t, d)
                           \/ BindCapture(t) \/ CompleteCapture(t) \/ BeginRelayed(t) \/ FinishRelayed(t)
Contributes ==
  \/ \E p \in Policies : Prepare(p) \/ RevokeStream(p)
  \/ \E d \in Requests : RevokeDevice(d)
  \/ \E c \in Codes : Deny(c) \/ Cancel(c)
  \/ \E t \in Recordings : Unlist(t) \/ Reprocess(t)
  \/ DisconnectRelay
Passing ==
  \/ \E p \in Policies : LapsePolicy(p) \/ CloseWindow(p)
  \/ \E d \in Requests : LapseDevice(d)
  \/ \E c \in Codes : LapseCode(c)
Browsers == \E r \in Requests : CallStep(r) \/ CallFails(r) \/ CallCrashes(r)
Workers == \E w \in Passes : PassStep(w) \/ PassFails(w)
ConnectionsNext == Helper \/ Contributes \/ Passing \/ Browsers \/ Workers \/ \E t \in Recordings : PrepareRelease(t)

\* Passes of the worker go on and are started again; a recording's release is prepared in the end.
ConnectionsFairness ==
  /\ \A w \in Passes : WF_connectionVars(PassStep(w))
  /\ \A t \in Recordings : WF_connectionVars(PrepareRelease(t))
ConnectionsSpec == ConnectionsInit /\ [][ConnectionsNext]_connectionVars /\ ConnectionsFairness

(***************************************************************************)
(* Properties.                                                             *)
(***************************************************************************)
\* CaptureDevices.revoke: "New captures and new sale listings are stopped", and unlist hides: what is
\* shown for sale was recorded by the device its policy is bound to, and neither the policy nor the
\* device nor the listing was withdrawn, whichever worker was just signing it.
StoppedConsentSellsNothing ==
  \A t \in Recordings : listings[t].active =>
    LET p == recordings[t].policy
    IN p # NoGrant /\ policies[p].status = "active" /\ policies[p].device = recordings[t].via
       /\ ~devices[recordings[t].via].revoked /\ ~listings[t].unlisted

\* A code makes at most one device, whose credential leaves at most once and never after a refusal; and
\* a policy sells for one connection: its recordings all come from one device, or all from the relay.
DevicesOf(c) == {r \in Requests : devices[r].made /\ Approving(r) /\ CodeOf(r) = c}
OneConnection(p) == Cardinality({recordings[t].via : t \in {t \in Recordings : recordings[t].policy = p}}
                                \cup {d \in Requests : devices[d].policy = p}) <= 1
ConnectionsAreSingle ==
  /\ \A c \in Codes : Cardinality(DevicesOf(c)) <= 1 /\ codes[c].given <= 1
                      /\ (codes[c].status = "denied" => DevicesOf(c) = {})
  /\ \A p \in Policies : OneConnection(p)

\* The terms of a policy: "Automatically offer completed eligible recordings from this connection": each
\* is listed or found ineligible in the end, unless it is stuck (it was unlisted before it was signed,
\* its contents changed after it was listed, or it has none), or a page of stuck ones is before it.
Stuck(t) ==
  \/ listings[t].made /\ (listings[t].version # recordings[t].version \/ (listings[t].unlisted /\ ~listings[t].signed))
  \/ recordings[t].state = "completed" /\ recordings[t].via = RELAY /\ recordings[t].version = 0
PageIsStuck == Cardinality({t \in Recordings : Stuck(t) /\ Offerable(t)}) >= PAGE
RecordingsAreOffered == \A t \in Recordings : []<>(~Offerable(t) \/ Stuck(t) \/ PageIsStuck)
=============================================================================
