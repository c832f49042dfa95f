------------------------------ MODULE StepRow ------------------------------
(***************************************************************************)
(* One row of the table processing_steps, as PostgresStepRepository writes *)
(* it.  The row of a (video, step, rendition) is created by the first      *)
(* claim and never deleted while the video exists, so an ABSENT row is a   *)
(* step no worker has claimed.                                             *)
(*                                                                         *)
(* Every execution of a stage draws a fresh UUIDv7 as its lock token, so a *)
(* token stands for the execution that drew it.  The columns that no guard *)
(* reads (worker, timestamps, error, result) are left out.                 *)
(***************************************************************************)

StepStatus == {"ABSENT", "RUNNING", "DONE", "FAILED", "DEAD"}

StepRows(tokens) == [status : StepStatus, token : tokens]

NoStep(noToken) == [status |-> "ABSENT", token |-> noToken]

(* A claim that takes a step whatever its status, as without the setWhere. *)
UnguardedClaimable(row) == TRUE

(* claim: INSERT ... ON CONFLICT DO UPDATE ... WHERE status <> 'DONE'.     *)
Claimable(row) == row.status # "DONE"
Claimed(token) == [status |-> "RUNNING", token |-> token]

(* fencedStep: the WHERE of complete and fail.  It compares the token and  *)
(* not the status, so a holder whose row was marked DEAD still matches.    *)
Holds(row, token) == row.token = token

(* complete, fail and markDead keep the token; markDead asks nothing of    *)
(* the row but that it exists.                                             *)
Ended(row, status) == [row EXCEPT !.status = status]

(* A status outside the column's enumeration.                              *)
MisnamedCompleted(row) == Ended(row, "COMPLETED")

Completed(row) == Ended(row, "DONE")
Failed(row) == Ended(row, "FAILED")
MarkedDead(row) == IF row.status = "ABSENT" THEN row ELSE Ended(row, "DEAD")
=============================================================================
