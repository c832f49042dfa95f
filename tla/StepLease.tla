----------------------------- MODULE StepLease -----------------------------
(***************************************************************************)
(* The fencing protocol on one processing step.  BullMQ delivers a job at  *)
(* least once: a stalled job is handed to a second worker while the first  *)
(* still runs, a failed attempt is retried, an operator replays a parked   *)
(* job.  Each execution claims the step under a token of its own, renews   *)
(* it while it works, and ends it with complete or fail.  The queue's      *)
(* `failed' listener marks the step DEAD under no token at all, whenever   *)
(* it gets to run.                                                         *)
(***************************************************************************)
EXTENDS Naturals, StepRow

CONSTANTS Attempts,   \* executions of the stage for this step
          Unclaimed   \* lock_token of a row no execution has claimed

ASSUME UnclaimedAssumption == Unclaimed \notin Attempts

VARIABLES row,         \* the row of processing_steps
          pc,          \* pc[a]: how far execution a got
          unhandled,   \* failed attempts whose listener has not run yet
          superseded,  \* history: tokens a later claim replaced
          commits,     \* history: completions the row accepted
          revoked      \* history: times the listener took a DONE row back

vars == <<row, pc, unhandled, superseded, commits, revoked>>

Places == {"queued", "held", "committed", "skipped", "fenced", "failed", "crashed"}

TypeOK ==
  /\ row \in StepRows(Attempts \cup {Unclaimed})
  /\ pc \in [Attempts -> Places]
  /\ unhandled \in SUBSET Attempts
  /\ superseded \in SUBSET Attempts
  /\ commits \in Nat
  /\ revoked \in Nat

Init ==
  /\ row = NoStep(Unclaimed)
  /\ pc = [a \in Attempts |-> "queued"]
  /\ unhandled = {}
  /\ superseded = {}
  /\ commits = 0
  /\ revoked = 0

-----------------------------------------------------------------------------
Goto(a, place) == pc' = [pc EXCEPT ![a] = place]

(* The claim wins: the row is this execution's, whoever held it before.    *)
Claim(a) ==
  /\ pc[a] = "queued"
  /\ Claimable(row)
  /\ row' = Claimed(a)
  /\ superseded' = superseded \cup ({row.token} \ {Unclaimed})
  /\ Goto(a, "held")
  /\ UNCHANGED <<unhandled, commits, revoked>>

(* The claim is fenced: the step is DONE and the stage returns at once.    *)
Skip(a) ==
  /\ pc[a] = "queued"
  /\ ~Claimable(row)
  /\ Goto(a, "skipped")
  /\ UNCHANGED <<row, unhandled, superseded, commits, revoked>>

(* A lease renewal during the encode that matches no row: a later claim    *)
(* holds the step, the encode is aborted and the execution commits nothing.*)
(* A renewal that does match changes nothing a guard reads.                *)
LoseLease(a) ==
  /\ pc[a] = "held"
  /\ ~Holds(row, a)
  /\ Goto(a, "fenced")
  /\ UNCHANGED <<row, unhandled, superseded, commits, revoked>>

(* A completion that forgets to compare the token.                         *)
UnfencedComplete(a) ==
  /\ pc[a] = "held"
  /\ row' = Completed(row)
  /\ commits' = commits + 1
  /\ Goto(a, "committed")
  /\ UNCHANGED <<unhandled, superseded, revoked>>

Complete(a) ==
  /\ pc[a] = "held"
  /\ \/ /\ Holds(row, a)
        /\ row' = Completed(row)
        /\ commits' = commits + 1
        /\ Goto(a, "committed")
     \/ /\ ~Holds(row, a)
        /\ Goto(a, "fenced")
        /\ UNCHANGED <<row, commits>>
  /\ UNCHANGED <<unhandled, superseded, revoked>>

(* The stage ends in error.  It may have recorded the failure on the row   *)
(* (steps.fail) or not (a storage or database error is just returned), and *)
(* the queue reports a failed attempt only to the worker that still owns   *)
(* the job's lock.                                                         *)
Fail(a) ==
  /\ pc[a] = "held"
  /\ \/ row' = IF Holds(row, a) THEN Failed(row) ELSE row
     \/ UNCHANGED row
  /\ unhandled' \in {unhandled, unhandled \cup {a}}
  /\ Goto(a, "failed")
  /\ UNCHANGED <<superseded, commits, revoked>>

(* The process dies.  The job stalls; past maxStalledCount the queue fails *)
(* it on behalf of the dead worker.                                        *)
Crash(a) ==
  /\ pc[a] = "held"
  /\ unhandled' \in {unhandled, unhandled \cup {a}}
  /\ Goto(a, "crashed")
  /\ UNCHANGED <<row, superseded, commits, revoked>>

(* The `failed' listener.  Nothing awaits it, so later executions may have *)
(* claimed, and even completed, the step by the time it runs.              *)
MarkDead(a) ==
  /\ a \in unhandled
  /\ unhandled' = unhandled \ {a}
  /\ row' = MarkedDead(row)
  /\ revoked' = IF row.status = "DONE" THEN revoked + 1 ELSE revoked
  /\ UNCHANGED <<pc, superseded, commits>>

Work(a) == Claim(a) \/ Skip(a) \/ LoseLease(a) \/ Complete(a) \/ Fail(a)

Next == \E a \in Attempts : Work(a) \/ Crash(a) \/ MarkDead(a)

(* Fairness: a worker process that runs keeps running its job, and Node    *)
(* runs the listener of an event it emitted.                               *)
Fairness == \A a \in Attempts : WF_vars(Work(a)) /\ WF_vars(MarkDead(a))

Spec == Init /\ [][Next]_vars /\ Fairness

-----------------------------------------------------------------------------
(* Effectively once.  However many executions run, and in whatever order   *)
(* they claim, stall, crash and finish, the row accepts one completion,    *)
(* plus one for each time a late listener took a DONE row back.  "Make the *)
(* commit exclusive" (SDD 9.5) is exactly this.                            *)
CommitLedger == commits = revoked + (IF row.status = "DONE" THEN 1 ELSE 0)

(* A DONE or RUNNING row names the latest claimant, and a DONE row the one *)
(* that completed it: no zombie's result is ever published under the       *)
(* current holder's token, nor the reverse.                                *)
RowNamesItsHolder ==
  /\ row.token \notin superseded
  /\ row.status = "DONE" => pc[row.token] = "committed"
  /\ row.status = "RUNNING" => pc[row.token] \in {"held", "failed", "crashed"}

(* A zombie, an execution whose token was replaced while it was still      *)
(* working, never gets to commit.                                          *)
ZombieNeverCommits ==
  [][\A a \in superseded : pc[a] = "held" => pc'[a] # "committed"]_vars

(* A finished step is never handed out again: from DONE the row leaves     *)
(* only to DEAD, by the listener, never straight to RUNNING or FAILED.     *)
DoneIsNotReclaimed ==
  [][row.status = "DONE" => row'.status \in {"DONE", "DEAD"}]_vars
=============================================================================
