------------------------------ MODULE StageJob ------------------------------
(***************************************************************************)
(* One BullMQ job of a pipeline stage, as the stages rely on it: the       *)
(* worker that owns its lock, the attempts and stalls it has used up, and  *)
(* what the queue makes of a worker's answer.  The queue is a library; the *)
(* limits are the repository's (stagePolicies, registry.ts).               *)
(*                                                                         *)
(* A delayed or prioritized job is a waiting one.  Jobs are kept for a day *)
(* when they complete and a week when they fail, longer than anything      *)
(* modelled here, so an id once added stays known.                         *)
(***************************************************************************)
EXTENDS Naturals

CONSTANTS MaxAttempts,   \* `attempts' of the stage's policy
          MaxStalled     \* maxStalledCount of the stage

ASSUME JobAssumption == MaxAttempts \in Nat \ {0} /\ MaxStalled \in Nat

(* The lock token of a job no worker owns, and of a row no claim made.     *)
NoToken == 0

JobStates == {"absent", "waitingChildren", "waiting", "active", "completed", "failed"}

StageJobs(tokens) ==
  [state : JobStates, attempts : Nat, stalls : Nat, owner : tokens \cup {NoToken}]

NewJob == [state |-> "absent", attempts |-> 0, stalls |-> 0, owner |-> NoToken]

(* An add under an id the queue knows changes nothing.                     *)
Added(job, state) == IF job.state = "absent" THEN [job EXCEPT !.state = state] ELSE job

Ready(job) == [job EXCEPT !.state = "waiting"]
Taken(job, token) == [job EXCEPT !.state = "active", !.owner = token]
OwnedBy(job, token) == job.state = "active" /\ job.owner = token

(* An answer to a retry that the queue would not know.                     *)
DelayedAnswer(job, outcome) == [job EXCEPT !.state = "delayed", !.owner = NoToken]

(* A failed attempt goes back to the queue while attempts are left, unless *)
(* its error is permanent (rethrowClassified).  An unclassified error is   *)
(* parked at the third attempt: a transient one with a lower limit.        *)
Answered(job, outcome) ==
  LET made == job.attempts + 1
      again == outcome = "transient" /\ made < MaxAttempts
  IN  IF outcome = "ok" THEN [job EXCEPT !.state = "completed", !.owner = NoToken]
      ELSE [job EXCEPT !.attempts = made, !.owner = NoToken,
                       !.state = IF again THEN "waiting" ELSE "failed"]

(* A job whose lock expired goes back to the queue, or fails past          *)
(* maxStalledCount.                                                        *)
Stalled(job) ==
  [job EXCEPT !.stalls = @ + 1, !.owner = NoToken,
              !.state = IF job.stalls < MaxStalled THEN "waiting" ELSE "failed"]

(* A look that takes a finished job for a live one.                        *)
Known(job) == job.state # "absent"

(* Still in a queue or in a worker's hands.  A parent that waits for its   *)
(* children is not looked for itself, but the children are.                *)
Live(job) == job.state \in {"waiting", "active", "waitingChildren"}
=============================================================================
