------------------------------ MODULE TraceQc ------------------------------
(***************************************************************************)
(* TraceQc of packages/market: the quality checks of one source (one scope of *)
(* one trace).  Every version of the source that becomes ready is queued in    *)
(* the transaction that makes it so; workers, and the owner who does not want  *)
(* to wait, claim the job with a lease, check outside of any transaction, and  *)
(* publish a report (StagedStorage) and its mark on the trace, fenced by the    *)
(* claim and by the version.                                               *)
(***************************************************************************)
EXTENDS StagedStorage

CONSTANTS
  Workers,          \* runs of processPending
  Owners,           \* runs of the owner's own request
  KeyOf,            \* the idempotency key such a request is sent with: a client may send one twice
  LastVersion,      \* bound: versions the source goes through; each is new
  ContentOf,        \* versions may have the same content
  Evaluation,       \* of a content: "report", "throws", or "limit" (an error that no retry helps)
  QC_ATTEMPT_LIMIT, \* 3
  MAX_RETRIES       \* 3: explicit retries of a version

ASSUME TraceQcAssumption ==
  /\ Workers \cup Owners \subseteq Runs /\ Workers \cap Owners = {}
  /\ "asked" \notin Runs
  /\ QC_ATTEMPT_LIMIT \in Nat \ {0} /\ MAX_RETRIES \in Nat /\ LastVersion \in Nat \ {0}
  /\ \A v \in 1..LastVersion : Evaluation[ContentOf[v]] \in {"report", "throws", "limit"}

VARIABLES
  source,  \* the version of the trace, whether it is ready, and its deletion
  mark,    \* quality_checks of the trace
  job,     \* the row of the outbox: "at most one current job per trace/scope"
  reports, \* trace_qc_runs: the object of the report of each version that has one
  claimed  \* history: how often each version was claimed
qcVars == <<vault, attempts, claims, done, runs, faults, source, mark, job, reports, claimed>>

Checkers == Workers \cup Owners
Versions == 1..LastVersion
NoMark == [version |-> 0, state |-> "none", attempts |-> 0, retryable |-> FALSE, retries |-> 0]
NoJob == [version |-> 0, status |-> "none", attempts |-> 0, token |-> <<>>, lapsed |-> FALSE]
Fresh(version) == [NoJob EXCEPT !.version = version, !.status = "pending"]
Version(r) == runs[r].does[2]
Token(r) == <<r, runs[r].turn>>
OnlyQc == UNCHANGED <<vault, attempts, claims, done, faults>>
OnlyRun == UNCHANGED <<source, mark, job, reports, claimed>>

\* The key of a request for a version; StagedStorage refuses a key for another version.
Asked(r, version) == <<"asked", <<KeyOf[r], version>>>>

\* qcAvailability, qcAutomation and qcMark.
Ready(src) == src.ready /\ ~src.deleted
State(src, m) == IF m.version = src.version THEN m.state ELSE "none"
Kept(version, m) == IF m.version = version THEN m ELSE [NoMark EXCEPT !.version = version]
Marked(version, m, state, tries, retryable) ==
  [Kept(version, m) EXCEPT !.state = state, !.attempts = tries, !.retryable = retryable]

\* enqueueTraceQc, in the transaction that changed the source to src.
Enqueue(src) ==
  IF ~Ready(src) THEN UNCHANGED <<mark, job>>
  ELSE IF State(src, mark) \in {"complete", "failed"} \/ job.version = src.version
  THEN job' = (IF job.version = src.version THEN job ELSE NoJob) /\ UNCHANGED mark
  ELSE job' = Fresh(src.version) /\ mark' = Marked(src.version, mark, "queued", 0, FALSE)

QcInit ==
  /\ StagedInit
  /\ source = [version |-> 1, ready |-> TRUE, deleted |-> FALSE, removed |-> FALSE]
  /\ mark = NoMark /\ job = NoJob
  /\ reports = <<>>
  /\ claimed = [v \in Versions |-> 0]

(***************************************************************************)
(* The source: a capture goes on or is edited, with its check queued in the    *)
(* same transaction; the owner deletes the trace, or its retention ends.       *)
(***************************************************************************)
Change ==
  /\ ~source.deleted /\ source.version < LastVersion /\ Counts("endings", MAX_ENDINGS)
  /\ \E ready \in BOOLEAN :
       LET src == [source EXCEPT !.version = @ + 1, !.ready = ready]
       IN source' = src /\ Enqueue(src)
  /\ UNCHANGED <<vault, attempts, claims, done, runs, reports, claimed>>
Discover ==
  /\ Enqueue(source)
  /\ OnlyQc /\ UNCHANGED <<runs, source, reports, claimed>>
Delete ==
  /\ ~source.deleted /\ Counts("endings", MAX_ENDINGS)
  /\ source' = [source EXCEPT !.deleted = TRUE]
  /\ UNCHANGED <<vault, attempts, claims, done, runs, mark, job, reports, claimed>>
\* The part of deleteTraceObjects that is about checks.
DeleteTraceObjects ==
  /\ source.deleted /\ ~source.removed
  /\ source' = [source EXCEPT !.removed = TRUE]
  /\ job' = NoJob /\ mark' = NoMark /\ reports' = <<>>
  /\ vault' = vault \ {reports[v] : v \in DOMAIN reports}
  /\ UNCHANGED <<attempts, claims, done, runs, faults, claimed>>

(***************************************************************************)
(* claim: leases that ran out first, then the pending job.                   *)
(***************************************************************************)
Expired == job.status = "processing" /\ job.lapsed
\* What the first half leaves of the job and of the mark.
JobAfter_Kept == job
JobAfter ==
  IF ~Expired THEN job
  ELSE IF State(source, mark) = "complete" THEN [job EXCEPT !.status = "done"]
  ELSE [job EXCEPT !.status = IF job.attempts >= QC_ATTEMPT_LIMIT THEN "failed" ELSE "pending"]
MarkAfter ==
  IF Expired /\ State(source, mark) # "complete" /\ Ready(source) /\ job.version = source.version
  THEN LET over == job.attempts >= QC_ATTEMPT_LIMIT
       IN Marked(job.version, mark, IF over THEN "failed" ELSE "queued", job.attempts,
                 over /\ Kept(job.version, mark).retries < MAX_RETRIES)
  ELSE mark
Claimed(r, key, version, tries) ==
  /\ job' = [JobAfter EXCEPT !.status = "processing", !.attempts = tries, !.token = <<r, runs[r].turn + 1>>, !.lapsed = FALSE]
  /\ mark' = Marked(version, MarkAfter, "running", tries, FALSE)
  /\ runs' = [runs EXCEPT ![r] = Begun(r, "look", <<"check", version>>, key)]
  /\ claimed' = [claimed EXCEPT ![version] = @ + 1]
Idle(r) == [NoRun EXCEPT !.turn = runs[r].turn]
Claim(r, key, may) ==
  /\ IF ~(JobAfter.status = "pending" /\ may)
     THEN job' = JobAfter /\ mark' = MarkAfter /\ runs' = [runs EXCEPT ![r] = Idle(r)] /\ UNCHANGED claimed
     ELSE IF JobAfter.version # source.version \/ ~Ready(source) \/ State(source, MarkAfter) = "complete"
     THEN /\ job' = [JobAfter EXCEPT !.status = "done"] /\ mark' = MarkAfter
          /\ runs' = [runs EXCEPT ![r] = Idle(r)] /\ UNCHANGED claimed
     ELSE Claimed(r, key, JobAfter.version, JobAfter.attempts + 1)
  /\ OnlyQc /\ UNCHANGED <<source, reports>>
ClaimNext(r) == r \in Workers /\ At(r, "idle") /\ Claim(r, <<r, runs[r].turn + 1>>, TRUE)

\* run: the owner's request queues the version, and claims that very job before its first attempt.
Ask(r) ==
  /\ r \in Owners /\ At(r, "idle") /\ Ready(source) /\ source.version \notin DOMAIN reports
  /\ State(source, mark) \notin {"failed", "running"} /\ (mark.version = source.version => mark.attempts = 0)
  /\ Enqueue(source)
  /\ runs' = [runs EXCEPT ![r].pc = "claim", ![r].does = <<"check", source.version>>]
  /\ OnlyQc /\ UNCHANGED <<source, reports, claimed>>
ClaimAsked(r) ==
  /\ r \in Owners /\ At(r, "claim")
  /\ Claim(r, Asked(r, Version(r)), JobAfter.version = Version(r) /\ JobAfter.attempts = 0)

(***************************************************************************)
(* execute, whose storage steps are those of StagedStorage.                   *)
(***************************************************************************)
Authorized(r) ==
  job.version = Version(r) /\ job.status = "processing" /\ job.token = Token(r) /\ ~job.lapsed
Current(r) == ~source.deleted /\ source.version = Version(r)

LookAtSource(r) ==
  /\ At(r, "look") /\ OnlyQc /\ OnlyRun
  /\ IF Current(r) /\ Authorized(r) THEN Go(r, "reserve") ELSE Base(r, <<"superseded">>, "failed")
Alike(r) == {v \in DOMAIN reports : ContentOf[v] = ContentOf[Version(r)]}
Prepare(r) ==
  /\ At(r, "prepare") /\ Held(r) /\ OnlyQc /\ OnlyRun
  /\ IF Version(r) \in DOMAIN reports THEN Base(r, <<"cached">>, "commit")
     ELSE IF ~Current(r) THEN Base(r, <<"superseded">>, "undo")
     ELSE IF Alike(r) # {} THEN \E v \in Alike(r) : Base(r, <<"reused", reports[v]>>, "commit")
     ELSE IF Evaluation[ContentOf[Version(r)]] = "report" THEN Base(r, <<"new">>, "seal")
     ELSE Base(r, <<Evaluation[ContentOf[Version(r)]]>>, "undo")

Object(r) == IF runs[r].base = <<"new">> THEN Attempt(r) ELSE runs[r].base[2]
PublishReport(r) ==
  /\ mark' = [Kept(Version(r), mark) EXCEPT !.state = "complete", !.retryable = FALSE]
  /\ IF Version(r) \in DOMAIN reports THEN Publish(r, runs[r].base = <<"new">>) /\ UNCHANGED reports
     ELSE Publish(r, FALSE) /\ reports' = With(reports, Version(r), Object(r))
  /\ UNCHANGED <<source, job, claimed>>
Commit_Stale(r) == At(r, "commit") /\ Held(r) /\ PublishReport(r)
Commit(r) ==
  /\ At(r, "commit") /\ Held(r)
  /\ IF Authorized(r) /\ Current(r) THEN PublishReport(r)
     ELSE Base(r, <<"superseded">>, "undo") /\ OnlyQc /\ OnlyRun
Finish(r) ==
  /\ At(r, "done")
  /\ \/ Authorized(r) /\ job' = [job EXCEPT !.status = "done"] /\ runs' = [runs EXCEPT ![r] = Idle(r)]
     \/ ~(Authorized(r) /\ Current(r)) /\ Base(r, <<"superseded">>, "failed") /\ UNCHANGED job
  /\ OnlyQc /\ UNCHANGED <<source, mark, reports, claimed>>

\* The catch of performJob.
Fail_MarksLate(r) ==
  LET over == job.attempts >= QC_ATTEMPT_LIMIT \/ runs[r].base = <<"limit">>
  IN /\ At(r, "failed")
     /\ job' = IF ~Authorized(r) THEN job ELSE [job EXCEPT !.status = IF over THEN "failed" ELSE "pending"]
     /\ mark' = IF ~(Current(r) /\ Ready(source)) THEN mark
                ELSE Marked(Version(r), mark, IF over THEN "failed" ELSE "queued", job.attempts, over)
     /\ runs' = [runs EXCEPT ![r] = Idle(r)]
     /\ OnlyQc /\ UNCHANGED <<source, reports, claimed>>
Fail(r) ==
  LET over == job.attempts >= QC_ATTEMPT_LIMIT \/ runs[r].base = <<"limit">>
  IN /\ At(r, "failed")
     /\ IF ~Authorized(r) THEN UNCHANGED <<job, mark>>
        ELSE IF runs[r].base = <<"superseded">> \/ ~(Current(r) /\ Ready(source))
        THEN job' = [job EXCEPT !.status = "done"] /\ UNCHANGED mark
        ELSE /\ job' = [job EXCEPT !.status = IF over THEN "failed" ELSE "pending"]
             /\ mark' = Marked(Version(r), mark, IF over THEN "failed" ELSE "queued", job.attempts,
                               over /\ runs[r].base # <<"limit">> /\ Kept(Version(r), mark).retries < MAX_RETRIES)
     /\ runs' = [runs EXCEPT ![r] = Idle(r)]
     /\ OnlyQc /\ UNCHANGED <<source, reports, claimed>>

\* The owner's retry of a check that failed.
Retry ==
  /\ Ready(source) /\ State(source, mark) = "failed" /\ mark.retryable
  /\ job.version = source.version /\ job.status = "failed"
  /\ job' = Fresh(source.version)
  /\ mark' = [Marked(source.version, mark, "queued", 0, FALSE) EXCEPT !.retries = @ + 1]
  /\ OnlyQc /\ UNCHANGED <<runs, source, reports, claimed>>

(***************************************************************************)
(* Leases run out and processes crash.                                      *)
(***************************************************************************)
LeaseEnds ==
  /\ job.status = "processing" /\ ~job.lapsed
  /\ job' = [job EXCEPT !.lapsed = TRUE]
  /\ IF \E r \in Checkers : ~At(r, "idle") /\ Token(r) = job.token THEN Counts("lapses", MAX_LAPSES) ELSE UNCHANGED faults
  /\ UNCHANGED <<vault, attempts, claims, done, runs, source, mark, reports, claimed>>
CheckCrash(r) ==
  /\ runs[r].pc \notin {"idle", "over"} /\ Counts("crashes", MAX_CRASHES)
  /\ runs' = [runs EXCEPT ![r] = Idle(r)]
  /\ OnlyRun /\ UNCHANGED <<vault, attempts, claims, done>>

RunStep(r) ==
  \/ ClaimNext(r) \/ ClaimAsked(r) \/ LookAtSource(r) \/ (StagedStep(r) /\ OnlyRun)
  \/ Prepare(r) \/ Commit(r) \/ Finish(r) \/ Fail(r)
Upkeep == LeaseEnds \/ ((Cleanup \/ \E a \in DOMAIN attempts : Lapse(a)) /\ OnlyRun)
QcNext ==
  \/ \E r \in Checkers : RunStep(r) \/ Ask(r) \/ CheckCrash(r)
  \/ Change \/ Discover \/ Retry \/ Delete \/ DeleteTraceObjects \/ Upkeep

\* A process goes on with what it began, the workers look for jobs and sources again and again, deleted
\* traces are removed, and leases end.
QcFairness ==
  /\ \A r \in Checkers : WF_qcVars(RunStep(r))
  /\ WF_qcVars(Discover) /\ WF_qcVars(DeleteTraceObjects) /\ WF_qcVars(Upkeep)
QcSpec == QcInit /\ [][QcNext]_qcVars /\ QcFairness

(***************************************************************************)
(* Properties.                                                             *)
(***************************************************************************)
\* A request whose key another request of the owner has too may be answered with the other's result,
\* and ends the job although it has not marked its own attempt: the report is there, the mark is not.
Repeated(r) == \E o \in Owners : o # r /\ KeyOf[o] = KeyOf[r]
Replayed ==
  /\ source.version \in DOMAIN reports /\ job.status = "done"
  /\ \E r \in Owners : Repeated(r) /\ job.token[1] = r

\* What the owner is shown of a source that is ready is what the queue does about it: a check that is
\* shown as queued will be claimed, a running one is leased, or was answered to a repeated request, a
\* failed one can be retried, and a complete one has a report that can be opened, although attempts
\* lapse, overlap and end late, and although reports are reused for other versions; and a version is
\* claimed a bounded number of times, however many workers and requests of the owner there are, and
\* however often they crash and lose their leases.
MarksMatchJobs ==
  /\ Ready(source) =>
       CASE State(source, mark) = "queued" -> job.version = source.version /\ job.status = "pending"
         [] State(source, mark) = "running" -> job.version = source.version /\ (job.status = "processing" \/ Replayed)
         [] State(source, mark) = "failed" -> job.version = source.version /\ job.status = "failed"
         [] State(source, mark) = "complete" -> source.version \in DOMAIN reports
         [] OTHER -> TRUE
  /\ \A v \in DOMAIN reports : reports[v] \in vault
  /\ \A v \in Versions : claimed[v] <= QC_ATTEMPT_LIMIT * (MAX_RETRIES + 1)

\* After the objects of a deleted trace were removed nothing of its checks comes back.
DeletedTracesKeepNoReports == source.removed => reports = <<>> /\ job = NoJob /\ mark = NoMark

\* Both: what is shown is current, of a source that changes, and of one that is removed.
ReportsAreCurrent == MarksMatchJobs /\ DeletedTracesKeepNoReports

\* "The server queues local checks automatically" (docs/reusable-qc.md): every source that stays gets
\* a report, which it shows unless the answer was repeated, or is shown as failed, and no report is left that no row names.
CheckObjects == {a \in vault : a[1] \in Checkers}
ChecksEnd ==
  /\ <>[](Ready(source) => \/ State(source, mark) \in {"complete", "failed"}
                           \/ State(source, mark) = "running" /\ Replayed)
  /\ <>[](CheckObjects \subseteq Range(reports) \cup {a \in DOMAIN attempts : attempts[a].object = "pending"})
=============================================================================
