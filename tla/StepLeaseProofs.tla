-------------------------- MODULE StepLeaseProofs --------------------------
(***************************************************************************)
(* The safety of the fencing protocol for any set of executions, finite or *)
(* not, and that the notify stage, with its queue, its relays and its dead *)
(* letters, keeps it.                                                      *)
(***************************************************************************)
EXTENDS NoticeDelivery, TLAPS

(* The token of the row is fresh: no claim that was replaced can name it,  *)
(* and an execution that has not claimed yet was never replaced.           *)
Freshness ==
  /\ row.token \notin superseded
  /\ Unclaimed \notin superseded
  /\ \A a \in Attempts : pc[a] = "queued" => a \notin superseded /\ row.token # a

(* While its claimant still works, a row is not DONE.                      *)
HolderNotDone ==
  \A a \in Attempts : pc[a] = "held" /\ row.token = a => row.status # "DONE"

(* A row that some claim made names an execution.                          *)
ClaimedByAttempt == row.status \in {"DONE", "RUNNING"} => row.token \in Attempts

IInv ==
  /\ TypeOK
  /\ Freshness
  /\ HolderNotDone
  /\ ClaimedByAttempt
  /\ CommitLedger
  /\ RowNamesItsHolder

-----------------------------------------------------------------------------
(* The invariant holds before any worker has seen the job.                 *)
LEMMA InitEstablishes == Init => IInv
  BY UnclaimedAssumption
  DEF Init, IInv, TypeOK, Places, StepRows, StepStatus, NoStep, Freshness,
      HolderNotDone, ClaimedByAttempt, CommitLedger, RowNamesItsHolder

(* Every step of a worker, a crash or the `failed' listener preserves it.  *)
LEMMA StepPreserves == IInv /\ [Next]_vars => IInv'
<1> SUFFICES ASSUME IInv, [Next]_vars PROVE IInv'
  OBVIOUS
<1> USE UnclaimedAssumption
    DEF IInv, TypeOK, Places, StepRows, StepStatus, Freshness, HolderNotDone,
        ClaimedByAttempt, CommitLedger, RowNamesItsHolder, Goto
<1>1. ASSUME NEW a \in Attempts, Claim(a) PROVE IInv'
  <2>1. TypeOK'
    BY <1>1 DEF Claim, Claimed
  <2>2. Freshness'
    BY <1>1 DEF Claim, Claimed
  <2>3. HolderNotDone' /\ ClaimedByAttempt' /\ RowNamesItsHolder'
    BY <1>1, <2>2 DEF Claim, Claimed
  <2>4. CommitLedger'
    BY <1>1 DEF Claim, Claimed, Claimable
  <2> QED
    BY <2>1, <2>2, <2>3, <2>4
<1>2. ASSUME NEW a \in Attempts, Skip(a) PROVE IInv'
  BY <1>2 DEF Skip
<1>3. ASSUME NEW a \in Attempts, LoseLease(a) PROVE IInv'
  BY <1>3 DEF LoseLease, Holds
<1>4. ASSUME NEW a \in Attempts, Complete(a) PROVE IInv'
  <2>1. CASE Holds(row, a)
    <3>1. /\ row' = [row EXCEPT !.status = "DONE"]
          /\ row.status # "DONE"
          /\ row.token = a
          /\ commits' = commits + 1
          /\ pc' = [pc EXCEPT ![a] = "committed"]
          /\ UNCHANGED <<unhandled, superseded, revoked>>
      BY <1>4, <2>1 DEF Complete, Completed, Ended, Holds
    <3>2. TypeOK' /\ Freshness' /\ HolderNotDone' /\ ClaimedByAttempt'
      BY <3>1
    <3>3. CommitLedger'
      BY <3>1
    <3>4. RowNamesItsHolder'
      BY <3>1
    <3> QED
      BY <3>2, <3>3, <3>4
  <2>2. CASE ~Holds(row, a)
    BY <1>4, <2>2 DEF Complete, Holds
  <2> QED
    BY <2>1, <2>2
<1>5. ASSUME NEW a \in Attempts, Fail(a) PROVE IInv'
  <2>1. row' = row \/ (Holds(row, a) /\ row' = Ended(row, "FAILED"))
    BY <1>5 DEF Fail, Failed
  <2>2. TypeOK'
    BY <1>5, <2>1 DEF Fail, Ended
  <2>3. Freshness' /\ HolderNotDone' /\ ClaimedByAttempt'
    BY <1>5, <2>1 DEF Fail, Ended
  <2>4. CommitLedger'
    BY <1>5, <2>1 DEF Fail, Ended, Holds
  <2>5. RowNamesItsHolder'
    BY <1>5, <2>1 DEF Fail, Ended, Holds
  <2> QED
    BY <2>2, <2>3, <2>4, <2>5
<1>6. ASSUME NEW a \in Attempts, Crash(a) PROVE IInv'
  BY <1>6 DEF Crash
<1>7. ASSUME NEW a \in Attempts, MarkDead(a) PROVE IInv'
  <2>1. CASE row.status = "ABSENT"
    BY <1>7, <2>1 DEF MarkDead, MarkedDead
  <2>2. CASE row.status # "ABSENT"
    <3>1. /\ row' = [row EXCEPT !.status = "DEAD"]
          /\ revoked' = IF row.status = "DONE" THEN revoked + 1 ELSE revoked
          /\ unhandled' \subseteq unhandled
          /\ UNCHANGED <<pc, superseded, commits>>
      BY <1>7, <2>2 DEF MarkDead, MarkedDead, Ended
    <3>2. TypeOK' /\ Freshness' /\ HolderNotDone' /\ ClaimedByAttempt'
      BY <3>1
    <3>3. CommitLedger' /\ RowNamesItsHolder'
      BY <3>1
    <3> QED
      BY <3>2, <3>3
  <2> QED
    BY <2>1, <2>2
<1>8. CASE UNCHANGED vars
  BY <1>8 DEF vars
<1> QED
  BY <1>1, <1>2, <1>3, <1>4, <1>5, <1>6, <1>7, <1>8 DEF Next, Work

(* A zombie's step never moves it to committed: its token is not the row's.*)
LEMMA ZombieStep ==
  IInv /\ [Next]_vars => \A a \in superseded : pc[a] = "held" => pc'[a] # "committed"
<1> SUFFICES ASSUME IInv, [Next]_vars, NEW z \in superseded, pc[z] = "held"
             PROVE  pc'[z] # "committed"
  OBVIOUS
<1>1. z \in Attempts /\ row.token # z /\ pc \in [Attempts -> Places]
  BY DEF IInv, TypeOK, Freshness
<1>2. ASSUME NEW a \in Attempts, Work(a) PROVE pc'[z] # "committed"
  BY <1>1, <1>2
  DEF Work, Claim, Skip, LoseLease, Complete, Fail, Goto, Holds, Places
<1>3. ASSUME NEW a \in Attempts, Crash(a) PROVE pc'[z] # "committed"
  BY <1>1, <1>3 DEF Crash, Goto
<1>4. ASSUME NEW a \in Attempts, MarkDead(a) PROVE pc'[z] # "committed"
  BY <1>4 DEF MarkDead
<1>5. CASE UNCHANGED vars
  BY <1>5 DEF vars
<1> QED
  BY <1>2, <1>3, <1>4, <1>5 DEF Next

(* From DONE the row is left as it is or marked DEAD: a claim is refused,  *)
(* and the only token that could fail the row belongs to an execution that *)
(* has already committed.                                                  *)
LEMMA DoneStep ==
  IInv /\ [Next]_vars => (row.status = "DONE" => row'.status \in {"DONE", "DEAD"})
<1> SUFFICES ASSUME IInv, [Next]_vars, row.status = "DONE"
             PROVE  row'.status \in {"DONE", "DEAD"}
  OBVIOUS
<1>1. row \in StepRows(Attempts \cup {Unclaimed})
  BY DEF IInv, TypeOK
<1>2. \A a \in Attempts : pc[a] = "held" => ~Holds(row, a)
  BY DEF IInv, HolderNotDone, Holds
<1>3. ASSUME NEW a \in Attempts, Work(a) PROVE row' = row
  BY <1>2, <1>3
  DEF Work, Claim, Skip, LoseLease, Complete, Fail, Claimable
<1>4. ASSUME NEW a \in Attempts, MarkDead(a) PROVE row'.status \in {"DONE", "DEAD"}
  BY <1>1, <1>4 DEF MarkDead, MarkedDead, Ended, StepRows
<1>5. ASSUME NEW a \in Attempts, Crash(a) PROVE row' = row
  BY <1>5 DEF Crash
<1>6. CASE UNCHANGED vars
  BY <1>6 DEF vars
<1> QED
  BY <1>3, <1>4, <1>5, <1>6 DEF Next

-----------------------------------------------------------------------------
(* The strengthened invariant holds in every reachable state of a step.    *)
THEOREM Inductive == Spec => []IInv
<1>1. Init => IInv
  BY InitEstablishes
<1>2. IInv /\ [Next]_vars => IInv'
  BY StepPreserves
<1> QED
  BY <1>1, <1>2, PTL DEF Spec

(* The rows, tokens and program counters keep their types.                 *)
THEOREM TypeCorrect == Spec => []TypeOK
<1>1. IInv => TypeOK
  BY DEF IInv
<1> QED
  BY <1>1, Inductive, PTL

(* Effectively once: the row accepts one completion, plus one for each     *)
(* DONE row a late `failed' listener took back.                            *)
THEOREM EffectivelyOnce == Spec => []CommitLedger
<1>1. IInv => CommitLedger
  BY DEF IInv
<1> QED
  BY <1>1, Inductive, PTL

(* No zombie's result stands under the current holder's token.             *)
THEOREM RowIsItsHolders == Spec => []RowNamesItsHolder
<1>1. IInv => RowNamesItsHolder
  BY DEF IInv
<1> QED
  BY <1>1, Inductive, PTL

(* An execution whose token was replaced never commits.                    *)
THEOREM ZombiesAreFenced == Spec => ZombieNeverCommits
<1>1. IInv /\ [Next]_vars =>
        [\A a \in superseded : pc[a] = "held" => pc'[a] # "committed"]_vars
  BY ZombieStep
<1> QED
  BY <1>1, Inductive, PTL DEF Spec, ZombieNeverCommits

(* A finished step is never handed out again.                              *)
THEOREM FinishedStepsStayFinished == Spec => DoneIsNotReclaimed
<1>1. IInv /\ [Next]_vars =>
        [row.status = "DONE" => row'.status \in {"DONE", "DEAD"}]_vars
  BY DoneStep
<1> QED
  BY <1>1, Inductive, PTL DEF Spec, DoneIsNotReclaimed

-----------------------------------------------------------------------------
(* The notify stage: what it does to the lease, besides steps of the       *)
(* lease, is to end an execution that never claimed and to owe a listener. *)
LEMMA AsideFromTheLease ==
  ASSUME IInv, UNCHANGED <<row, superseded, commits, revoked>>,
         unhandled' \in SUBSET Attempts,
         \/ UNCHANGED pc
         \/ \E a \in Attempts, place \in {"failed", "crashed"} : pc[a] = "queued" /\ Goto(a, place)
  PROVE  IInv'
  BY DEF IInv, TypeOK, Places, Freshness, HolderNotDone, ClaimedByAttempt, CommitLedger,
         RowNamesItsHolder, Goto

(* A status is published before its step is closed to later notices.       *)
DoneWasSaid == row.status = "DONE" => row.token \in said

(* What a step of the notify stage is to the lease.                        *)
LEMMA NoticeStepKeepsLease == IInv /\ [NoticeNext]_allVars => IInv'
<1> SUFFICES ASSUME IInv, [NoticeNext]_allVars PROVE IInv'
  OBVIOUS
<1>1. unhandled \in SUBSET Attempts
  BY DEF IInv, TypeOK
<1>2. ASSUME NEW a \in Attempts, Work(a) \/ Crash(a) \/ MarkDead(a) PROVE IInv'
  BY <1>2, StepPreserves DEF Next
<1>3. ASSUME UNCHANGED lease PROVE IInv'
  BY <1>1, <1>3, AsideFromTheLease DEF lease
<1>4. ASSUME \/ \E e \in Events : Change(e)
             \/ \E j \in Ids : Add(j) \/ RelayMark(j) \/ Deliver(j)
      PROVE  IInv'
  BY <1>3, <1>4 DEF Change, Add, RelayMark, Deliver
<1>5. ASSUME NEW a \in Attempts, Notify(a) PROVE IInv'
  BY <1>2, <1>3, <1>5 DEF Notify, ClaimStep, SkipStep, Publish, CompleteStep, Finish, Work
<1>6. ASSUME NEW a \in Attempts, ClaimErrs(a) PROVE IInv'
  BY <1>1, <1>6, AsideFromTheLease DEF ClaimErrs, SettleErr, Report
<1>7. ASSUME NEW a \in Attempts, FailStep(a) PROVE IInv'
  BY <1>2, <1>7 DEF FailStep, Work
<1>8. ASSUME NEW a \in Attempts, Stall(a) PROVE IInv'
  <2>1. unhandled' \in SUBSET Attempts
    BY <1>1, <1>8 DEF Stall, Expire, Report
  <2> QED
    BY <1>8, <2>1, AsideFromTheLease DEF Stall
<1>9. ASSUME NEW a \in Attempts, Die(a) PROVE IInv'
  <2>1. unhandled' \in SUBSET Attempts
    BY <1>1, <1>9 DEF Die, Expire, Report
  <2>2. CASE pc[a] = "held" /\ Crash(a)
    BY <1>2, <2>2
  <2>3. CASE UNCHANGED <<row, superseded, commits, revoked>>
             /\ (UNCHANGED pc \/ (pc[a] = "queued" /\ Goto(a, "crashed")))
    BY <2>1, <2>3, AsideFromTheLease
  <2> QED
    BY <1>9, <2>2, <2>3 DEF Die
<1>10. ASSUME NEW a \in Attempts, MarkStep(a) PROVE IInv'
  BY <1>2, <1>10 DEF MarkStep
<1>11. ASSUME NEW a \in Attempts, Park(a) \/ Replay(a) \/ Discard(a) PROVE IInv'
  BY <1>3, <1>11 DEF Park, Discard, Replay
<1>12. CASE UNCHANGED allVars
  BY <1>3, <1>12 DEF allVars, vars, lease
<1> QED
  BY <1>4, <1>5, <1>6, <1>7, <1>8, <1>9, <1>10, <1>11, <1>12 DEF NoticeNext

(* Only a completion makes the row DONE, by an execution that has spoken.  *)
LEMMA NoticeStepKeepsSaid ==
  IInv /\ DoneWasSaid /\ [NoticeNext]_allVars => DoneWasSaid'
<1> SUFFICES ASSUME IInv, DoneWasSaid, [NoticeNext]_allVars PROVE DoneWasSaid'
  OBVIOUS
<1>1. row \in StepRows(Attempts \cup {Unclaimed})
  BY DEF IInv, TypeOK
<1>2. ASSUME said \subseteq said', row' = row \/ row'.status # "DONE" PROVE DoneWasSaid'
  BY <1>2 DEF DoneWasSaid
<1>3. ASSUME \/ \E e \in Events : Change(e)
             \/ \E j \in Ids : Add(j) \/ RelayMark(j) \/ Deliver(j)
      PROVE  DoneWasSaid'
  BY <1>2, <1>3 DEF Change, Add, RelayMark, Deliver, lease
<1>4. ASSUME NEW a \in Attempts, CompleteStep(a) PROVE DoneWasSaid'
  <2>1. UNCHANGED said /\ a \in said
    BY <1>4 DEF CompleteStep, noticeVars
  <2>2. CASE Holds(row, a) /\ row' = Completed(row)
    BY <1>1, <2>1, <2>2 DEF Holds, Completed, Ended, StepRows, DoneWasSaid
  <2>3. CASE row' = row
    BY <1>2, <2>1, <2>3
  <2> QED
    BY <1>4, <2>2, <2>3 DEF CompleteStep, Complete
<1>5. ASSUME NEW a \in Attempts, ClaimStep(a) PROVE DoneWasSaid'
  BY <1>2, <1>5 DEF ClaimStep, Claim, Claimed, noticeVars
<1>6. ASSUME NEW a \in Attempts,
             SkipStep(a) \/ Publish(a) \/ Finish(a) \/ ClaimErrs(a) \/ FailStep(a) \/ Stall(a)
      PROVE  DoneWasSaid'
  BY <1>2, <1>6
  DEF SkipStep, Skip, Publish, Finish, ClaimErrs, FailStep, Stall, lease
<1>7. ASSUME NEW a \in Attempts, Die(a) PROVE DoneWasSaid'
  BY <1>2, <1>7 DEF Die, Crash
<1>8. ASSUME NEW a \in Attempts, MarkStep(a) PROVE DoneWasSaid'
  <2>1. row' = row \/ row'.status = "DEAD"
    BY <1>1, <1>8 DEF MarkStep, MarkDead, MarkedDead, Ended, StepRows
  <2>2. UNCHANGED said
    BY <1>8 DEF MarkStep, noticeVars
  <2> QED
    BY <1>2, <2>1, <2>2
<1>9. ASSUME NEW a \in Attempts, Park(a) \/ Replay(a) \/ Discard(a) PROVE DoneWasSaid'
  BY <1>2, <1>9 DEF Park, Discard, Replay, lease
<1>10. CASE UNCHANGED allVars
  BY <1>2, <1>10 DEF allVars, vars, noticeVars
<1> QED
  BY <1>3, <1>4, <1>5, <1>6, <1>7, <1>8, <1>9, <1>10 DEF NoticeNext, Notify

(* The notify stage keeps the invariant of the lease: what is proved above *)
(* of a step holds of the notify step, whatever its queue, its relays and  *)
(* its operators do.                                                       *)
THEOREM NoticeKeepsLease == NoticeSpec => [](IInv /\ DoneWasSaid)
<1>1. NoticeInit => IInv /\ DoneWasSaid
  <2>1. NoticeInit => IInv
    BY InitEstablishes DEF NoticeInit
  <2>2. NoticeInit => DoneWasSaid
    BY DEF NoticeInit, Init, NoStep, DoneWasSaid
  <2> QED
    BY <2>1, <2>2
<1> QED
  BY <1>1, NoticeStepKeepsLease, NoticeStepKeepsSaid, PTL DEF NoticeSpec

(* A notify step that is DONE was closed by an execution that had          *)
(* published its status (notify.ts).                                       *)
THEOREM ViewersWereTold == NoticeSpec => []DoneWasPublished
<1>1. DoneWasSaid => DoneWasPublished
  BY DEF DoneWasSaid, DoneWasPublished
<1> QED
  BY <1>1, NoticeKeepsLease, PTL
=============================================================================
