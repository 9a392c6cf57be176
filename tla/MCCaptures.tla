----------------------------- MODULE MCCaptures -----------------------------
\* The runs of a capture and those of its checks, which keep their objects in one vault and write
\* their attempts down in one table.
EXTENDS AgentCapture, TraceQc

Saving(key, root, final) == [does |-> <<"save", root, final>>, key |-> <<key>>]
Sending(key, part) == [does |-> <<"part", part>>, key |-> <<key>>]
MCRequests ==
  [p1 |-> Sending("p1", 1), p1again |-> Sending("p1", 1), p1other |-> Sending("other", 1),
   s1 |-> Saving("s1", 1, FALSE), s2 |-> Saving("s2", 2, FALSE), c2 |-> Saving("c2", 2, TRUE)]
MCWorkers == {"q1", "q2"}
\* The owner sends two requests with one key, and a third with its own.
MCOwners == {"owner", "sent", "resent"}
MCKeyOf == [owner |-> "key", sent |-> "same", resent |-> "same"]
MCRuns == DOMAIN MCRequests \cup {"worker"} \cup MCWorkers \cup MCOwners
MCContentOf == <<"large", "odd", "same", "same">>
MCEvaluation == [large |-> "limit", odd |-> "throws", same |-> "report"]

\* A case: the runs that take place, what is there of the capture already (nothing; both parts; both and
\* their checkpoint with its view), the version of the source that is checked (0: it is deleted, as a
\* capture is over when there is "no" capture), and what may happen.
Spent == [crashes |-> MAX_CRASHES, lapses |-> MAX_LAPSES, faults |-> MAX_FAULTS, endings |-> MAX_ENDINGS]
Case(active, there, version, may) ==
  [active |-> active, there |-> there, version |-> version,
   may |-> [k \in DOMAIN Spent |-> IF k \in may THEN 0 ELSE Spent[k]]]
Capturing(active, there, may) == Case(active \cup {"worker"}, there, 0, may)
Checking(active, version, may) == Case(active, "no", version, may)
MCCases ==
  {Capturing({"p1", "p1again", "p1other"}, "nothing", {"lapses"}),
   Capturing({"p1", "p1again"}, "nothing", {"crashes", "lapses", "faults", "endings"}),
   Capturing({"s1", "s2"}, "parts", {}),
   Capturing({"s2", "c2"}, "view", {"endings"}),
   Capturing({"c2"}, "parts", {"crashes", "endings"}),
   Capturing({"c2"}, "parts", {"lapses", "endings"}),
   Capturing({"c2"}, "parts", {"faults", "endings"}),
   Capturing({"c2"}, "parts", {"crashes", "faults"}),
   Checking({"q1", "q2"}, 3, {"lapses", "endings"}),
   Checking({"q1", "q2"}, 3, {"crashes", "endings"}),
   Checking({"q1", "q2"}, 4, {"lapses", "faults"}),
   Checking({"q1", "owner"}, 4, {"lapses", "faults", "endings"}),
   Checking({"q1", "owner"}, 2, {"crashes", "lapses", "faults"}),
   Checking({"q1", "owner"}, 1, {"lapses", "endings"}),
   Checking({"q1", "owner", "sent"}, 4, {"crashes", "faults"}),
   Checking({"q1", "sent", "resent"}, 4, {"crashes", "faults"})}
Both == {Case({"q1", "p1", "worker"}, "nothing", 4, {"lapses"}), Case({"q1", "c2", "worker"}, "parts", 4, {})}

Before(step, i) == <<step, 0, i>>
Parts == <<Before("p1", 1), Before("p1", 2)>>
StartCapture(case) ==
  /\ vault = CASE case.there \in {"no", "nothing"} -> {} [] case.there = "parts" -> Range(Parts)
               [] OTHER -> Range(Parts) \cup {Before("s2", 1), Before("worker", 1)}
  /\ capture = [status |-> IF case.there = "no" THEN "EXPIRED" ELSE "AWAITING_UPLOAD", expired |-> case.there = "no",
                parts |-> IF case.there \in {"no", "nothing"} THEN <<>> ELSE Parts,
                root |-> IF case.there = "view" THEN 2 ELSE 0]
  /\ IF case.there = "view"
     THEN /\ trace = [NoTrace EXCEPT !.view = "READY", !.root = 2, !.raw = Before("worker", 1),
                                     !.sources = {Before("s2", 1)}, !.state = "RECORDING"]
          /\ built = {<<2, Before("worker", 1)>>}
     ELSE trace = NoTrace /\ built = {}
  /\ jobs = {} /\ failed = {}
StartChecks(case) ==
  /\ source = [version |-> IF case.version = 0 THEN LastVersion ELSE case.version, ready |-> TRUE,
               deleted |-> case.version = 0, removed |-> case.version = 0]
  /\ mark = NoMark /\ job = NoJob /\ reports = <<>> /\ claimed = [v \in Versions |-> 0]
MCInit ==
  \E case \in MCCases \cup Both :
    /\ attempts = <<>> /\ claims = <<>> /\ done = {} /\ faults = case.may
    /\ runs = [r \in Runs |-> IF r \in case.active THEN NoRun ELSE [NoRun EXCEPT !.pc = "over"]]
    /\ StartCapture(case) /\ StartChecks(case)
MCNext ==
  \/ CaptureNext /\ UNCHANGED <<source, mark, job, reports, claimed>>
  \/ QcNext /\ UNCHANGED <<capture, trace, jobs, failed, built>>
MCSpec == MCInit /\ [][MCNext]_<<captureVars, qcVars>> /\ CaptureFairness /\ QcFairness
\* Both kinds of work end, although crashes, lapsed leases and faults interrupt them: nothing that nobody
\* wants stays stored, every saved root gets its view or its error, and every ready source its report.
CaptureWorkEnds == CapturesEnd /\ ChecksEnd
=============================================================================
