---------------------------- MODULE StagedStorage ----------------------------
(***************************************************************************)
(* StagedStorage of packages/market: a command that stores private objects   *)
(* uploads them outside of its transaction.  It claims its key for an attempt *)
(* with a lease, writes each object down in the attempt before it is         *)
(* uploaded, and publishes the references in one transaction that is fenced  *)
(* by the attempt.  Objects of attempts that did not publish are reclaimed.   *)
(*                                                                         *)
(* A run is one execution of a command by a process; each of its steps is a   *)
(* transaction or one upload, and the process may crash at any of them.  The  *)
(* objects a command seals in a row are one object here, named by its attempt. *)
(* What a command reads and writes itself is in the module that extends this   *)
(* one.                                                                    *)
(***************************************************************************)
EXTENDS Integers, FiniteSets, Functions

CONSTANTS
  Runs,        \* executions of commands, by any process
  TRIES,       \* preparations of a command when the state changes under it (3)
  MAX_CRASHES, \* bound: crashes of a behaviour
  MAX_LAPSES,  \* bound: leases that run out while their process is still running
  MAX_FAULTS,  \* bound: failed uploads and unknown outcomes of a commit
  MAX_ENDINGS  \* bound: what else ends under a command (expiry, deletion, another version)

VARIABLES
  vault,    \* the objects stored
  attempts, \* storage_write_attempts
  claims,   \* storage_command_claims that name an attempt
  done,     \* idempotency_keys: the keys whose command has a result
  runs,     \* where each run is
  faults    \* how many of the bounded events have happened
stagedVars == <<vault, attempts, claims, done, runs, faults>>

NoKey == <<>>
NoRun == [pc |-> "idle", does |-> <<>>, key |-> NoKey, turn |-> 0, try |-> 1, base |-> <<>>, again |-> FALSE]
\* The attempt of a run, which also names the object that is sealed in it.
Attempt(r) == <<r, runs[r].turn, runs[r].try>>
NoAttempt == [status |-> "none", lapsed |-> FALSE, object |-> "none"]
Row(a) == IF a \in DOMAIN attempts THEN attempts[a] ELSE NoAttempt
With(f, x, y) == [z \in DOMAIN f \cup {x} |-> IF z = x THEN y ELSE f[z]]
Put(a, row) == With(attempts, a, row)
Drop(a) == [b \in DOMAIN attempts \ {a} |-> attempts[b]]
At(r, pc) == runs[r].pc = pc
\* A run that starts a command.
Begun(r, pc, does, key) ==
  [NoRun EXCEPT !.pc = pc, !.does = does, !.key = key, !.turn = runs[r].turn + 1]
Go(r, pc) == runs' = [runs EXCEPT ![r].pc = pc]
\* What a command read, and where it goes on with it.
Base(r, base, pc) == runs' = [runs EXCEPT ![r].base = base, ![r].pc = pc]
Counts(kind, bound) == faults[kind] < bound /\ faults' = [faults EXCEPT ![kind] = @ + 1]

StagedInit ==
  /\ vault = {} /\ attempts = <<>> /\ claims = <<>> /\ done = {}
  /\ runs = [r \in Runs |-> NoRun]
  /\ faults = [crashes |-> 0, lapses |-> 0, faults |-> 0, endings |-> 0]

\* The claim of a key is live while its attempt is active and its lease runs.
Live(a) == Row(a).status = "active" /\ ~Row(a).lapsed
Held(r) == Live(Attempt(r)) /\ runs[r].key \in DOMAIN claims /\ claims[runs[r].key] = Attempt(r)

(***************************************************************************)
(* execute: the reservation of an attempt.                                  *)
(***************************************************************************)
Replay(r) ==
  /\ At(r, "reserve") /\ runs[r].key \in done
  /\ Go(r, "done")
  /\ UNCHANGED <<vault, attempts, claims, done, faults>>
InProgress(r) ==
  /\ At(r, "reserve") /\ runs[r].key \notin done
  /\ runs[r].key \in DOMAIN claims /\ Live(claims[runs[r].key])
  /\ Go(r, "failed")
  /\ UNCHANGED <<vault, attempts, claims, done, faults>>
\* The row of an attempt that is abandoned is forgotten here when no object is noted in it: nothing
\* reads it any more.
Abandon(rows, lost) ==
  [a \in {b \in DOMAIN rows : b \in lost => rows[b].object # "none"} |->
     IF a \in lost /\ rows[a].status = "active" THEN [rows[a] EXCEPT !.status = "abandoned"] ELSE rows[a]]
Reserve(r) ==
  LET key == runs[r].key
      fresh == Put(Attempt(r), [NoAttempt EXCEPT !.status = "active"])
  IN /\ At(r, "reserve") /\ key \notin done
     /\ key \in DOMAIN claims => ~Live(claims[key])
     /\ attempts' = IF key \in DOMAIN claims THEN Abandon(fresh, {claims[key]}) ELSE fresh
     /\ claims' = With(claims, key, Attempt(r))
     /\ Go(r, "prepare")
     /\ UNCHANGED <<vault, done, faults>>

(***************************************************************************)
(* seal: written down, uploaded, confirmed.                                 *)
(***************************************************************************)
WriteDown(r) ==
  /\ At(r, "seal") /\ Held(r)
  /\ attempts' = [attempts EXCEPT ![Attempt(r)].object = "pending"]
  /\ Go(r, "upload")
  /\ UNCHANGED <<vault, claims, done, faults>>
Upload(r) ==
  /\ At(r, "upload")
  /\ vault' = vault \cup {Attempt(r)}
  /\ Go(r, "confirm")
  /\ UNCHANGED <<attempts, claims, done, faults>>
\* The upload fails, or seems to.
UploadFails(r) ==
  /\ At(r, "upload") /\ Counts("faults", MAX_FAULTS)
  /\ vault' \in {vault, vault \cup {Attempt(r)}}
  /\ Go(r, "undo")
  /\ UNCHANGED <<attempts, claims, done>>
\* Also when the lease has run out meanwhile, so that the object can be reclaimed.
Confirm(r) ==
  /\ At(r, "confirm")
  /\ attempts' = [attempts EXCEPT ![Attempt(r)].object = "stored"]
  /\ Go(r, "commit")
  /\ UNCHANGED <<vault, claims, done, faults>>
\* check: the attempt is not the live claim of its key any more.
Fenced(r) ==
  /\ runs[r].pc \in {"prepare", "seal", "commit"} /\ ~Held(r)
  /\ Go(r, "undo")
  /\ UNCHANGED <<vault, attempts, claims, done, faults>>

(***************************************************************************)
(* The commit publishes, or leaves the object to be reclaimed (discard).  The *)
(* process may not come to know that it succeeded.                          *)
(***************************************************************************)
Publish_KeepsAttempt(r, discarded) ==
  /\ attempts' = attempts
  /\ done' = done \cup {runs[r].key}
  /\ claims' = [k \in DOMAIN claims \ {runs[r].key} |-> claims[k]]
  /\ \/ Go(r, "done") /\ UNCHANGED faults
     \/ Go(r, "undo") /\ Counts("faults", MAX_FAULTS)
  /\ UNCHANGED vault
Publish(r, discarded) ==
  /\ attempts' = IF discarded THEN Abandon(attempts, {Attempt(r)})
                 ELSE IF Row(Attempt(r)).object = "pending" THEN attempts ELSE Drop(Attempt(r))
  /\ done' = done \cup {runs[r].key}
  /\ claims' = [k \in DOMAIN claims \ {runs[r].key} |-> claims[k]]
  /\ \/ Go(r, "done") /\ UNCHANGED faults
     \/ Go(r, "undo") /\ Counts("faults", MAX_FAULTS)
  /\ UNCHANGED vault
\* The command refuses, or asks for another preparation (STAGED_STATE_CHANGED).
Refuse(r) == Go(r, "undo") /\ UNCHANGED <<vault, attempts, claims, done, faults>>
Changed(r) ==
  /\ runs' = [runs EXCEPT ![r].pc = "undo", ![r].again = TRUE]
  /\ UNCHANGED <<vault, attempts, claims, done, faults>>
Undo_Forgets(r) ==
  LET run == runs[r] IN
  /\ At(r, "undo")
  /\ attempts' = Drop(Attempt(r))
  /\ claims' = IF run.key \in DOMAIN claims /\ claims[run.key] = Attempt(r)
               THEN [k \in DOMAIN claims \ {run.key} |-> claims[k]] ELSE claims
  /\ runs' = [runs EXCEPT ![r] = IF run.again /\ run.try < TRIES
                                 THEN [run EXCEPT !.pc = "reserve", !.try = @ + 1, !.again = FALSE]
                                 ELSE [run EXCEPT !.pc = "failed"]]
  /\ UNCHANGED <<vault, done, faults>>
Undo(r) ==
  LET run == runs[r] IN
  /\ At(r, "undo")
  /\ attempts' = Abandon(attempts, {Attempt(r)})
  /\ claims' = IF run.key \in DOMAIN claims /\ claims[run.key] = Attempt(r)
               THEN [k \in DOMAIN claims \ {run.key} |-> claims[k]] ELSE claims
  /\ runs' = [runs EXCEPT ![r] = IF run.again /\ run.try < TRIES
                                 THEN [run EXCEPT !.pc = "reserve", !.try = @ + 1, !.again = FALSE]
                                 ELSE [run EXCEPT !.pc = "failed"]]
  /\ UNCHANGED <<vault, done, faults>>

StagedStep(r) ==
  \/ Replay(r) \/ InProgress(r) \/ Reserve(r) \/ WriteDown(r) \/ Upload(r) \/ UploadFails(r)
  \/ Confirm(r) \/ Fenced(r) \/ Undo(r)

Staging == {"reserve", "prepare", "seal", "upload", "confirm", "commit", "undo"}
\* A lease runs out, under a running process or after it ended.
Lapse(a) ==
  /\ Live(a)
  /\ attempts' = [attempts EXCEPT ![a].lapsed = TRUE]
  /\ IF a[1] \in Runs /\ Attempt(a[1]) = a /\ runs[a[1]].pc \in Staging
     THEN Counts("lapses", MAX_LAPSES) ELSE UNCHANGED faults
  /\ UNCHANGED <<vault, claims, done, runs>>

(***************************************************************************)
(* cleanup: attempts whose lease ran out are abandoned, and the confirmed     *)
(* objects of abandoned attempts removed.  An object whose removal fails is   *)
(* tried again later.                                                      *)
(***************************************************************************)
AbandonLapsed ==
  LET lapsed == {a \in DOMAIN attempts : attempts[a].status = "active" /\ attempts[a].lapsed}
  IN /\ lapsed # {}
     /\ attempts' = Abandon(attempts, lapsed)
     /\ UNCHANGED <<vault, claims, done, runs, faults>>
Reclaimable(a) == Row(a).status = "abandoned" /\ Row(a).object = "stored"
Reclaim(a) ==
  /\ Reclaimable(a)
  /\ vault' = vault \ {a}
  /\ attempts' = Drop(a)
  /\ UNCHANGED <<claims, done, runs, faults>>
Cleanup == AbandonLapsed \/ \E a \in DOMAIN attempts : Reclaim(a)
=============================================================================
