---------------------------- MODULE AgentCapture ----------------------------
(***************************************************************************)
(* AgentCaptureIngestion, projectCapture and the worker's projection jobs:    *)
(* one capture uploads parts, saves checkpoints that extend each other and a   *)
(* final one, and the saved parts are built into a readable view, by the       *)
(* process that saved and by the worker at once.  A root is the number of the  *)
(* parts it covers.                                                        *)
(***************************************************************************)
EXTENDS StagedStorage, FiniteSetsExt

CONSTANTS
  Requests,     \* what the runs of clients do: [does, key], does being <<"part", i>> or <<"save", root, final>>
  WORKER,       \* the run of the worker
  MAX_ATTEMPTS  \* failed attempts after which a job is given up (5)

Clients == DOMAIN Requests
ASSUME AgentCaptureAssumption ==
  /\ Clients \cup {WORKER} \subseteq Runs /\ WORKER \notin Clients
  /\ \A r \in Clients :
       Requests[r].does \in ({"part"} \X (Nat \ {0})) \cup ({"save"} \X (Nat \ {0}) \X BOOLEAN)

VARIABLES
  capture, \* status, the parts, the root of the latest checkpoint (0 for none)
  trace,   \* the trace of the saved capture: its sources, its view and the views replaced
  jobs,    \* outbox_events of the capture
  failed,  \* jobs given up
  built    \* history: <<root, object>> for each view that was published
captureVars == <<vault, attempts, claims, done, runs, faults, capture, trace, jobs, failed, built>>

None == <<"none">>
NoTrace == [view |-> "none", root |-> 0, raw |-> None, old |-> {}, sources |-> {}, state |-> "none", deleted |-> FALSE]
HasTrace == trace.view # "none"
Job(type, arg) == [type |-> type, arg |-> arg, refs |-> {None}, attempts |-> 0, held |-> FALSE]
Kind(r) == runs[r].does[1]
Arg(r) == runs[r].does[2]
Final(r) == runs[r].does[3]
PartsOf(root) == {capture.parts[i] : i \in DOMAIN capture.parts \cap 1..root}
OnlyStaged == UNCHANGED <<capture, trace, jobs, failed, built>>

CaptureInit ==
  /\ StagedInit
  /\ capture = [status |-> "AWAITING_UPLOAD", parts |-> <<>>, root |-> 0, expired |-> FALSE]
  /\ trace = NoTrace /\ jobs = {} /\ failed = {} /\ built = {}

\* A client's process starts its command (authenticate).
Start(r) ==
  /\ r \in Clients /\ At(r, "idle") /\ ~capture.expired
  /\ runs' = [runs EXCEPT ![r] = Begun(r, "reserve", Requests[r].does, Requests[r].key)]
  /\ OnlyStaged /\ UNCHANGED <<vault, attempts, claims, done, faults>>

(***************************************************************************)
(* part.  inspect is asked before the upload and again in the commit.        *)
(***************************************************************************)
PartMay == ~capture.expired /\ ~trace.deleted
Stored(r) == Arg(r) \in DOMAIN capture.parts
PreparePart(r) ==
  /\ At(r, "prepare") /\ Kind(r) = "part" /\ OnlyStaged
  /\ \/ PartMay /\ Stored(r) /\ Base(r, <<"duplicate">>, "commit")
     \/ PartMay /\ ~Stored(r) /\ capture.status = "AWAITING_UPLOAD" /\ Base(r, <<"new">>, "seal")
     \/ ~(PartMay /\ (Stored(r) \/ capture.status = "AWAITING_UPLOAD")) /\ Go(r, "undo")
  /\ UNCHANGED <<vault, attempts, claims, done, faults>>
CommitPart(r) ==
  /\ At(r, "commit") /\ Kind(r) = "part" /\ Held(r)
  /\ IF PartMay /\ Stored(r) THEN Publish(r, runs[r].base = <<"new">>) /\ OnlyStaged
     ELSE IF PartMay /\ runs[r].base = <<"duplicate">> THEN Changed(r) /\ OnlyStaged
     ELSE IF PartMay /\ capture.status = "AWAITING_UPLOAD"
     THEN /\ Publish(r, FALSE)
          /\ capture' = [capture EXCEPT !.parts = With(@, Arg(r), Attempt(r))]
          /\ UNCHANGED <<trace, jobs, failed, built>>
     ELSE Refuse(r) /\ OnlyStaged

(***************************************************************************)
(* save: a checkpoint, or the completion when it is final.                  *)
(***************************************************************************)
\* CHECKPOINT_REGRESSION: a checkpoint covers what the one before it covers.
Regresses(root) == root < capture.root
Duplicate(root) == capture.root = root
SaveMay(root) ==
  /\ ~capture.expired
  /\ \/ capture.status = "SAVED" /\ Duplicate(root)
     \/ capture.status = "AWAITING_UPLOAD" /\ ~Regresses(root)

PrepareSave(r) ==
  /\ At(r, "prepare") /\ Kind(r) = "save" /\ OnlyStaged
  /\ \/ ~capture.expired /\ (capture.status = "SAVED" \/ Duplicate(Arg(r))) /\ Base(r, <<"duplicate">>, "commit")
     \/ ~capture.expired /\ capture.status = "AWAITING_UPLOAD" /\ ~Duplicate(Arg(r)) /\ ~Regresses(Arg(r))
        /\ 1..Arg(r) \subseteq DOMAIN capture.parts /\ PartsOf(Arg(r)) \subseteq vault
        /\ Base(r, <<"of", capture.root>>, "seal")
     \/ \/ capture.expired
        \/ /\ capture.status # "SAVED" /\ ~Duplicate(Arg(r))
           /\ \/ capture.status # "AWAITING_UPLOAD" \/ Regresses(Arg(r))
              \/ ~(1..Arg(r) \subseteq DOMAIN capture.parts) \/ ~(PartsOf(Arg(r)) \subseteq vault)
        /\ Go(r, "undo")
  /\ UNCHANGED <<vault, attempts, claims, done, faults>>

\* A root that is there already: a completion closes the capture (existing).
CommitDuplicate(r) ==
  IF Final(r) /\ capture.status = "AWAITING_UPLOAD"
  THEN /\ ~trace.deleted /\ Publish(r, TRUE)
       /\ capture' = [capture EXCEPT !.status = "SAVED"]
       /\ trace' = [trace EXCEPT !.state = "COMPLETED"]
       /\ UNCHANGED <<jobs, failed, built>>
  ELSE Publish(r, TRUE) /\ OnlyStaged
CommitNew_Unqueued(r) ==
  /\ Publish(r, FALSE)
  /\ capture' = [capture EXCEPT !.root = Arg(r), !.status = IF Final(r) THEN "SAVED" ELSE @]
  /\ trace' = [trace EXCEPT !.view = "PENDING", !.root = Arg(r), !.sources = @ \cup {Attempt(r)},
                            !.state = IF Final(r) THEN "COMPLETED" ELSE "RECORDING"]
  /\ jobs' = jobs
  /\ UNCHANGED <<failed, built>>
CommitNew(r) ==
  /\ Publish(r, FALSE)
  /\ capture' = [capture EXCEPT !.root = Arg(r), !.status = IF Final(r) THEN "SAVED" ELSE @]
  /\ trace' = [trace EXCEPT !.view = "PENDING", !.root = Arg(r), !.sources = @ \cup {Attempt(r)},
                            !.state = IF Final(r) THEN "COMPLETED" ELSE "RECORDING"]
  /\ jobs' = jobs \cup {Job("ProjectAgentCapture", Arg(r))}
  /\ UNCHANGED <<failed, built>>
CommitSave(r) ==
  /\ At(r, "commit") /\ Kind(r) = "save" /\ Held(r)
  /\ IF ~SaveMay(Arg(r)) THEN Refuse(r) /\ OnlyStaged
     ELSE IF Duplicate(Arg(r))
     THEN CommitDuplicate(r) \/ (Final(r) /\ capture.status = "AWAITING_UPLOAD" /\ trace.deleted /\ Refuse(r) /\ OnlyStaged)
     ELSE IF runs[r].base # <<"of", capture.root>> THEN Changed(r) /\ OnlyStaged
     ELSE IF trace.deleted THEN Refuse(r) /\ OnlyStaged
     ELSE CommitNew(r)

(***************************************************************************)
(* projectCapture: the view of a root.  The state is looked at before the     *)
(* key is chosen and again when the view is prepared, and compared with what   *)
(* is there at the commit.                                                  *)
(***************************************************************************)
Buildable(root) == HasTrace /\ capture.root = root /\ ~trace.deleted /\ ~(trace.view = "READY" /\ trace.root = root)
Look(r) ==
  /\ At(r, "look") /\ OnlyStaged
  /\ IF Buildable(Arg(r)) THEN runs' = [runs EXCEPT ![r].pc = "reserve", ![r].key = <<"view", Arg(r), trace>>]
     ELSE Go(r, "done")
  /\ UNCHANGED <<vault, attempts, claims, done, faults>>
PrepareView(r) ==
  /\ At(r, "prepare") /\ Kind(r) = "view" /\ OnlyStaged
  /\ IF ~Buildable(Arg(r)) THEN Base(r, <<"nothing">>, "commit")
     ELSE IF trace.sources \cup PartsOf(Arg(r)) \subseteq vault THEN Base(r, <<"of", trace, capture.status>>, "seal")
     ELSE Go(r, "undo")
  /\ UNCHANGED <<vault, attempts, claims, done, faults>>
CommitView_Unfenced(r) ==
  LET refs == trace.old \cup (IF trace.raw = None THEN {} ELSE {trace.raw}) IN
  /\ At(r, "commit") /\ Kind(r) = "view" /\ Held(r)
  /\ IF runs[r].base = <<"nothing">> \/ trace.deleted THEN Publish(r, TRUE) /\ OnlyStaged
     ELSE /\ Publish(r, FALSE)
          /\ trace' = [trace EXCEPT !.view = "READY", !.raw = Attempt(r), !.old = refs]
          /\ built' = built \cup {<<Arg(r), Attempt(r)>>}
          /\ jobs' = IF refs = {} THEN jobs ELSE jobs \cup {Job("DeleteSupersededProjections", 0)}
          /\ UNCHANGED <<capture, failed>>
CommitView(r) ==
  LET refs == trace.old \cup (IF trace.raw = None THEN {} ELSE {trace.raw}) IN
  /\ At(r, "commit") /\ Kind(r) = "view" /\ Held(r)
  /\ IF runs[r].base = <<"nothing">> \/ capture.root # Arg(r) \/ trace.deleted THEN Publish(r, TRUE) /\ OnlyStaged
     ELSE IF runs[r].base # <<"of", trace, capture.status>> THEN Changed(r) /\ OnlyStaged
     ELSE /\ Publish(r, FALSE)
          /\ trace' = [trace EXCEPT !.view = "READY", !.raw = Attempt(r), !.old = refs]
          /\ built' = built \cup {<<Arg(r), Attempt(r)>>}
          /\ jobs' = IF refs = {} THEN jobs ELSE jobs \cup {Job("DeleteSupersededProjections", 0)}
          /\ UNCHANGED <<capture, failed>>

(***************************************************************************)
(* After a save its process builds the view; when that fails it says so.     *)
(***************************************************************************)
ViewAfterSave(r) ==
  /\ At(r, "done") /\ Kind(r) = "save"
  /\ runs' = [runs EXCEPT ![r] = Begun(r, "look", <<"view", Arg(r)>>, NoKey)]
  /\ OnlyStaged /\ UNCHANGED <<vault, attempts, claims, done, faults>>
ViewFailed(r) ==
  /\ r \in Clients /\ At(r, "failed") /\ Kind(r) = "view"
  /\ Go(r, "over")
  /\ trace' = IF capture.root = Arg(r) THEN [trace EXCEPT !.view = "ERROR"] ELSE trace
  /\ UNCHANGED <<vault, attempts, claims, done, faults, capture, jobs, failed, built>>
Over(r) ==
  /\ r \in Clients
  /\ (At(r, "done") /\ Kind(r) # "save") \/ (At(r, "failed") /\ Kind(r) # "view")
  /\ Go(r, "over")
  /\ OnlyStaged /\ UNCHANGED <<vault, attempts, claims, done, faults>>

(***************************************************************************)
(* Time, the owner, and sweepRetention.                                     *)
(***************************************************************************)
Expire ==
  /\ ~capture.expired /\ Counts("endings", MAX_ENDINGS)
  /\ capture' = [capture EXCEPT !.expired = TRUE]
  /\ UNCHANGED <<vault, attempts, claims, done, runs, trace, jobs, failed, built>>
Sweep ==
  /\ capture.expired /\ capture.status = "AWAITING_UPLOAD"
  /\ capture' = [capture EXCEPT !.status = "EXPIRED"]
  /\ trace' = IF HasTrace /\ ~trace.deleted THEN [trace EXCEPT !.state = "INTERRUPTED"] ELSE trace
  /\ jobs' = IF HasTrace THEN jobs ELSE jobs \cup {Job("DeleteExpiredCapture", 0)}
  /\ UNCHANGED <<vault, attempts, claims, done, runs, faults, failed, built>>
DeleteTrace ==
  /\ HasTrace /\ ~trace.deleted /\ Counts("endings", MAX_ENDINGS)
  /\ trace' = [trace EXCEPT !.deleted = TRUE]
  /\ jobs' = jobs \cup {Job("DeleteTraceObjects", 0)}
  /\ UNCHANGED <<vault, attempts, claims, done, runs, capture, failed, built>>

(***************************************************************************)
(* The worker.  A job that does its work in its own transaction, and the two  *)
(* kinds that are claimed first.                                            *)
(***************************************************************************)
CaptureObjects == {a \in vault : a[1] \in Clients \cup {WORKER}}
Named == Range(capture.parts) \cup trace.sources \cup trace.old \cup {trace.raw}
CountFailure(job) ==
  IF job.attempts + 1 < MAX_ATTEMPTS
  THEN jobs' = (jobs \ {job}) \cup {[job EXCEPT !.held = FALSE, !.attempts = @ + 1]} /\ failed' = failed
  ELSE jobs' = jobs \ {job} /\ failed' = failed \cup {<<job.type, job.arg>>}
DeleteObjects(job) ==
  /\ job \in jobs /\ job.type \in {"DeleteTraceObjects", "DeleteExpiredCapture"} /\ At(WORKER, "idle")
  /\ LET gone == IF job.type = "DeleteTraceObjects" THEN Named ELSE Range(capture.parts) IN
     \/ /\ vault' = vault \ gone /\ capture' = [capture EXCEPT !.parts = <<>>]
        /\ jobs' = jobs \ {job} /\ UNCHANGED <<faults, failed>>
     \* A removal fails: the transaction is undone, what is removed is not.
     \/ /\ Counts("faults", MAX_FAULTS)
        /\ vault' \in {vault \ some : some \in SUBSET gone}
        /\ CountFailure(job) /\ UNCHANGED capture
  /\ UNCHANGED <<attempts, claims, done, runs, trace, built>>

ClaimView(job) ==
  /\ job \in jobs /\ job.type = "ProjectAgentCapture" /\ ~job.held /\ At(WORKER, "idle")
  /\ jobs' = (jobs \ {job}) \cup {[job EXCEPT !.held = TRUE]}
  /\ runs' = [runs EXCEPT ![WORKER] = Begun(WORKER, "look", <<"view", job.arg>>, NoKey)]
  /\ UNCHANGED <<vault, attempts, claims, done, faults, capture, trace, failed, built>>
\* The references are kept in the job before the objects are removed.
ClaimOld(job) ==
  /\ job \in jobs /\ job.type = "DeleteSupersededProjections" /\ ~job.held /\ At(WORKER, "idle")
  /\ LET held == [job EXCEPT !.refs = (IF @ = {None} THEN trace.old ELSE @) \ {trace.raw}, !.held = TRUE]
     IN /\ jobs' = (jobs \ {job}) \cup {held}
        /\ runs' = [runs EXCEPT ![WORKER] = Begun(WORKER, "remove", <<"old", held>>, NoKey)]
  /\ UNCHANGED <<vault, attempts, claims, done, faults, capture, trace, failed, built>>

Mine(job) ==
  /\ job \in jobs /\ job.held
  /\ IF Kind(WORKER) = "old" THEN job = Arg(WORKER) ELSE job.type = "ProjectAgentCapture" /\ job.arg = Arg(WORKER)
RemoveOld(job) ==
  /\ At(WORKER, "remove") /\ Mine(job)
  /\ \/ vault' = vault \ job.refs /\ Go(WORKER, "forget") /\ UNCHANGED faults
     \/ /\ Counts("faults", MAX_FAULTS) /\ Go(WORKER, "failed")
        /\ vault' \in {vault \ gone : gone \in SUBSET job.refs}
  /\ UNCHANGED <<attempts, claims, done, capture, trace, jobs, failed, built>>
ForgetOld(job) ==
  /\ At(WORKER, "forget") /\ Mine(job)
  /\ trace' = [trace EXCEPT !.old = @ \ job.refs]
  /\ Go(WORKER, "done")
  /\ UNCHANGED <<vault, attempts, claims, done, faults, capture, jobs, failed, built>>
JobDone(job) ==
  /\ At(WORKER, "done") /\ Mine(job)
  /\ jobs' = jobs \ {job} /\ Go(WORKER, "idle")
  /\ UNCHANGED <<vault, attempts, claims, done, faults, capture, trace, failed, built>>
JobFailed(job) ==
  /\ At(WORKER, "failed") /\ Mine(job)
  /\ Go(WORKER, "idle") /\ CountFailure(job)
  /\ UNCHANGED <<vault, attempts, claims, done, faults, capture, trace, built>>
\* runWorker frees the jobs of a worker that is gone once their claim has run out.
FreeJob(job) ==
  /\ job \in jobs /\ job.held /\ At(WORKER, "idle")
  /\ jobs' = (jobs \ {job}) \cup {[job EXCEPT !.held = FALSE]}
  /\ UNCHANGED <<vault, attempts, claims, done, runs, faults, capture, trace, failed, built>>

(***************************************************************************)
(* A process crashes: a client's run is over, the worker starts again and     *)
(* the job it had claimed stays claimed.                                    *)
(***************************************************************************)
Crash(r) ==
  /\ runs[r].pc \notin {"idle", "over"} /\ Counts("crashes", MAX_CRASHES)
  /\ Go(r, IF r = WORKER THEN "idle" ELSE "over")
  /\ OnlyStaged /\ UNCHANGED <<vault, attempts, claims, done>>

CommandStep(r) ==
  \/ StagedStep(r) /\ OnlyStaged
  \/ PreparePart(r) \/ CommitPart(r) \/ PrepareSave(r) \/ CommitSave(r)
  \/ Look(r) \/ PrepareView(r) \/ CommitView(r)
ClientStep(r) == CommandStep(r) \/ ViewAfterSave(r) \/ ViewFailed(r) \/ Over(r)
WorkerStep ==
  \/ CommandStep(WORKER)
  \/ \E job \in jobs :
       \/ DeleteObjects(job) \/ ClaimView(job) \/ ClaimOld(job) \/ RemoveOld(job) \/ ForgetOld(job)
       \/ JobDone(job) \/ JobFailed(job) \/ FreeJob(job)
Maintenance == (Cleanup \/ \E a \in DOMAIN attempts : Lapse(a)) /\ OnlyStaged
CaptureNext ==
  \/ \E r \in Clients : Start(r) \/ ClientStep(r)
  \/ \E r \in Clients \cup {WORKER} : Crash(r)
  \/ WorkerStep \/ Maintenance
  \/ Expire \/ Sweep \/ DeleteTrace

\* Processes that run go on, the worker and the sweeps are called again and again, and leases end.
CaptureFairness ==
  /\ \A r \in Clients : WF_captureVars(ClientStep(r))
  /\ WF_captureVars(WorkerStep) /\ WF_captureVars(Maintenance) /\ WF_captureVars(Sweep)
CaptureSpec == CaptureInit /\ [][CaptureNext]_captureVars /\ CaptureFairness

(***************************************************************************)
(* Properties.                                                             *)
(***************************************************************************)
\* docs/staged-storage.md: "Referenced committed objects are never reclaimed": whatever crashed or
\* lapsed, the parts, sources and the view of a capture that was not deleted can be opened; and an
\* object that is stored is referenced by the capture or by the row of its attempt, so that it can
\* still be removed, also after a crash or an upload of unknown outcome.
PublishedObjectsStay ==
  ~trace.deleted /\ (HasTrace \/ capture.status # "EXPIRED") =>
    Range(capture.parts) \cup trace.sources \cup ({trace.raw} \ {None}) \subseteq vault
ObjectsAreTracked == \A a \in CaptureObjects : a \in Named \/ Row(a).object \in {"pending", "stored"}
ObjectsStayAndAreTracked == PublishedObjectsStay /\ ObjectsAreTracked

\* The readable view of a capture was built from the parts of the root it is shown with, although the
\* client's process, the worker and newer saves race for it.
ViewsShowTheirRoot == trace.view = "READY" => <<trace.root, trace.raw>> \in built

\* In the end nothing private is stored that is neither shown to its owner nor noted as uncertain: not
\* what an unfinished command left behind, not a replaced view, nothing of a deleted or expired capture;
\* and "the outbox covers a process interruption between the two transactions" (agent-capture.ts): a
\* saved capture does not wait for its view for ever, unless the job was given up.
GivenUp(type) == \E job \in failed : job[1] = type
Wanted == IF trace.deleted /\ ~GivenUp("DeleteTraceObjects") THEN {}
          ELSE Range(capture.parts) \cup trace.sources \cup {trace.raw}
               \cup (IF GivenUp("DeleteSupersededProjections") THEN trace.old ELSE {})
Uncertain == {a \in DOMAIN attempts : attempts[a].object = "pending"}
CapturesEnd ==
  /\ <>[](CaptureObjects \subseteq Wanted \cup Uncertain)
  /\ <>[](trace.view = "PENDING" => trace.deleted \/ GivenUp("ProjectAgentCapture"))
=============================================================================
