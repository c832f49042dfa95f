--------------------------- MODULE NoticeDelivery ---------------------------
(***************************************************************************)
(* How a status change of a video reaches its viewers: the outbox row of   *)
(* its transaction, the relays that turn rows into jobs, the notify stage  *)
(* and, for attempts that failed, the dead letter queue an operator        *)
(* replays from.  The notify step is a StepLease: every change of its row  *)
(* is an action of that module, and so is every move of an execution that  *)
(* has claimed it.                                                         *)
(*                                                                         *)
(* All notices of a video share one step row, and the job id of an event   *)
(* names the video and the event only, so the row of an event that happens *)
(* again (after a reprocess) names a job that may be known.  So does that  *)
(* of a second replay: the id of a replay follows from the id of the job.  *)
(***************************************************************************)
EXTENDS StepLease, FiniteSets

CONSTANTS Events,        \* the events a video has notices of
          MaxAttempts,   \* `attempts' of the notify policy
          MaxStalled,    \* maxStalledCount of the stage
          MaxTroubles,   \* bound: failed calls, stalls and crashes
          NoJob          \* none of the job ids

(* ids.notify and generateReplayJobId: an event and how many replays deep  *)
(* the job is.  Each depth has cost a trouble.                             *)
Ids == Events \X (0..MaxTroubles)
NoticeOf(e) == <<e, 0>>
ReplayOf(j) == <<j[1], j[2] + 1>>

(* A trouble costs at most one more delivery and one more job, the replay. *)
ASSUME NoticeAssumption ==
  /\ NoJob \notin Ids
  /\ MaxTroubles \in Nat
  /\ Cardinality(Attempts) >= Cardinality(Events) + 2 * MaxTroubles

Queue == INSTANCE StageJob

VARIABLES
  outbox,    \* the job ids named by rows of outbox that are not published
  job,       \* job[j]: the notify job j
  exec,      \* exec[a]: the job execution a was delivered
  said,      \* executions that published their status event
  dlq,       \* dlq[a]: what execution a's failure left: the job, the dead letter
  troubles   \* failed calls, stalls and crashes so far

lease == <<row, pc, unhandled, superseded, commits, revoked>>
noticeVars == <<outbox, job, exec, said, dlq, troubles>>
allVars == <<vars, noticeVars>>

NoticeInit ==
  /\ Init
  /\ outbox = {}
  /\ job = [j \in Ids |-> Queue!NewJob]
  /\ exec = [a \in Attempts |-> NoJob]
  /\ said = {}
  /\ dlq = [a \in Attempts |-> [job |-> NoJob, status |-> "none"]]
  /\ troubles = 0

Trouble == troubles < MaxTroubles /\ troubles' = troubles + 1

-----------------------------------------------------------------------------
(* The transition of the video commits the outbox row, each time the event *)
(* happens.                                                                *)
Change(e) ==
  /\ outbox' = outbox \cup {NoticeOf(e)}
  /\ UNCHANGED <<lease, job, exec, said, dlq, troubles>>

(* The row's job is added: by a relay, or by the process that wrote the    *)
(* row, which does not rely on one.  A queue that cannot be reached leaves *)
(* the row for the relay's next tick; one that knows the id does nothing.  *)
Add(j) ==
  /\ j \in outbox
  /\ job[j].state = "absent"
  /\ job' = [job EXCEPT ![j] = Queue!Added(@, "waiting")]
  /\ UNCHANGED <<lease, outbox, exec, said, dlq, troubles>>

(* A relay that marks what it has not added.                               *)
RelayMarkFirst(j) ==
  /\ j \in outbox
  /\ outbox' = outbox \ {j}
  /\ UNCHANGED <<lease, job, exec, said, dlq, troubles>>

(* The relay marks a row published once its job is known (rows of one id   *)
(* are as good as one: none of them adds to the others).  The locks of     *)
(* claimBatch end with its select, so several relays may add one row, and  *)
(* one that dies before it marks leaves it to the next: the id of the job  *)
(* makes every further add a repetition the queue ignores, so that how far *)
(* each relay is in its batch need not be kept.                            *)
RelayMark(j) ==
  /\ j \in outbox
  /\ Queue!Known(job[j])
  /\ outbox' = outbox \ {j}
  /\ UNCHANGED <<lease, job, exec, said, dlq, troubles>>

-----------------------------------------------------------------------------
(* The notify stage.                                                       *)
Running(a) == exec[a] # NoJob
Owner(a) == Running(a) /\ Queue!OwnedBy(job[exec[a]], a)

(* The stage returns ok; only the owner of the job's lock settles it.      *)
SettleOk(a) ==
  /\ job' = IF Owner(a) THEN [job EXCEPT ![exec[a]] = Queue!Answered(@, "ok")] ELSE job
  /\ exec' = [exec EXCEPT ![a] = NoJob]

(* The queue tells the listener of the attempt, and what job it was.       *)
Report(a) ==
  /\ unhandled' = unhandled \cup {a}
  /\ dlq' = [dlq EXCEPT ![a].job = exec[a]]

(* The stage returns an error: the owner's listener is told.               *)
SettleErr(a) ==
  /\ job' = IF Owner(a) THEN [job EXCEPT ![exec[a]] = Queue!Answered(@, "transient")] ELSE job
  /\ exec' = [exec EXCEPT ![a] = NoJob]
  /\ IF Owner(a) THEN Report(a) ELSE UNCHANGED <<unhandled, dlq>>

(* The queue takes the job from a worker that stalled or died.             *)
Expire(a) ==
  LET stalled == Queue!Stalled(job[exec[a]]) IN
  /\ job' = [job EXCEPT ![exec[a]] = stalled]
  /\ IF stalled.state = "failed" THEN Report(a) ELSE UNCHANGED <<unhandled, dlq>>

Unused == {a \in Attempts : pc[a] = "queued" /\ ~Running(a)}

Deliver(j) ==
  /\ job[j].state = "waiting" /\ Unused # {}
  /\ LET a == CHOOSE a \in Unused : TRUE IN
       /\ job' = [job EXCEPT ![j] = Queue!Taken(@, a)]
       /\ exec' = [exec EXCEPT ![a] = j]
  /\ UNCHANGED <<lease, outbox, said, dlq, troubles>>

ClaimStep(a) ==
  /\ Running(a) /\ Claim(a)
  /\ UNCHANGED noticeVars

(* Another notice of the video was published: this one is dropped.         *)
SkipStep(a) ==
  /\ Running(a) /\ Skip(a) /\ SettleOk(a)
  /\ UNCHANGED <<outbox, said, dlq, troubles>>

ClaimErrs(a) ==
  /\ Running(a) /\ pc[a] = "queued"
  /\ Trouble
  /\ Goto(a, "failed") /\ SettleErr(a)
  /\ UNCHANGED <<row, superseded, commits, revoked, outbox, said>>

Publish(a) ==
  /\ Running(a) /\ pc[a] = "held" /\ a \notin said
  /\ said' = said \cup {a}
  /\ UNCHANGED <<lease, outbox, job, exec, dlq, troubles>>

(* A stage that completes its step without a look at what it published.    *)
CompleteAnyway(a) ==
  /\ Running(a) /\ Complete(a)
  /\ UNCHANGED noticeVars

CompleteStep(a) ==
  /\ Running(a) /\ a \in said /\ Complete(a)
  /\ UNCHANGED noticeVars

(* The webhooks follow the completion, accepted or not, and only log what  *)
(* fails.                                                                  *)
Finish(a) ==
  /\ Running(a) /\ pc[a] \in {"committed", "fenced"}
  /\ SettleOk(a)
  /\ UNCHANGED <<lease, outbox, said, dlq, troubles>>

(* The heartbeat, the publication or the completion errs.                  *)
FailStep(a) ==
  /\ Running(a) /\ Fail(a) /\ SettleErr(a)
  /\ Trouble
  /\ UNCHANGED <<row, outbox, said>>

Stall(a) ==
  /\ Owner(a)
  /\ Trouble /\ Expire(a)
  /\ UNCHANGED <<row, pc, superseded, commits, revoked, outbox, exec, said>>

(* The worker dies, with or without the step.                              *)
Die(a) ==
  /\ Running(a)
  /\ Trouble
  /\ \/ pc[a] = "held" /\ Crash(a)
     \/ pc[a] = "queued" /\ Goto(a, "crashed") /\ UNCHANGED <<row, superseded, commits, revoked>>
     \/ pc[a] \in {"committed", "fenced"} /\ UNCHANGED <<row, pc, superseded, commits, revoked>>
  /\ IF Owner(a) THEN Expire(a) ELSE UNCHANGED <<job, unhandled, dlq>>
  /\ exec' = [exec EXCEPT ![a] = NoJob]
  /\ UNCHANGED <<outbox, said>>

-----------------------------------------------------------------------------
(* The `failed' listener parks the attempt, then marks the step.           *)
Park(a) ==
  /\ a \in unhandled /\ dlq[a].status = "none"
  /\ \/ dlq' = [dlq EXCEPT ![a].status = "PARKED"] /\ UNCHANGED troubles
     \/ Trouble /\ dlq' = [dlq EXCEPT ![a].status = "missing"]
  /\ UNCHANGED <<lease, outbox, job, exec, said>>

MarkStep(a) ==
  /\ dlq[a].status # "none" /\ MarkDead(a)
  /\ UNCHANGED noticeVars

Found(a) == dlq[a].status \in {"PARKED", "REPLAYED", "DISCARDED"}

(* The status and the outbox row are one transaction, whatever the status  *)
(* was.  The entry holds the job's id: a second replay of one job, from    *)
(* the same entry or from that of another attempt, names the first one's.  *)
Replay(a) ==
  /\ Found(a)
  /\ dlq' = [dlq EXCEPT ![a].status = "REPLAYED"]
  /\ outbox' = outbox \cup {ReplayOf(dlq[a].job)}
  /\ UNCHANGED <<lease, job, exec, said, troubles>>

Discard(a) ==
  /\ Found(a) /\ dlq[a].status # "DISCARDED"
  /\ dlq' = [dlq EXCEPT ![a].status = "DISCARDED"]
  /\ UNCHANGED <<lease, outbox, job, exec, said, troubles>>

-----------------------------------------------------------------------------
Notify(a) ==
  ClaimStep(a) \/ SkipStep(a) \/ Publish(a) \/ CompleteStep(a) \/ Finish(a)

NoticeNext ==
  \/ \E e \in Events : Change(e)
  \/ \E j \in Ids : Add(j) \/ RelayMark(j) \/ Deliver(j)
  \/ \E a \in Attempts : \/ Notify(a) \/ ClaimErrs(a) \/ FailStep(a) \/ Stall(a) \/ Die(a)
                         \/ Park(a) \/ MarkStep(a) \/ Replay(a) \/ Discard(a)

(* Relays tick, workers take jobs and run them, listeners run.  Nothing    *)
(* makes an operator replay or discard.                                    *)
NoticeFairness ==
  /\ \A j \in Ids : WF_allVars(Add(j)) /\ WF_allVars(Deliver(j))
  /\ \A a \in Attempts : WF_allVars(Notify(a)) /\ WF_allVars(Park(a)) /\ WF_allVars(MarkStep(a))

NoticeSpec == NoticeInit /\ [][NoticeNext]_allVars /\ NoticeFairness

-----------------------------------------------------------------------------
(* A row committed to the outbox ends with the job it names settled by the *)
(* queue, whatever becomes of the direct add, of the relays and of the     *)
(* workers: the first row of an id is never lost between the database and  *)
(* the queue.  A later one, of an event that happens again or of a second  *)
(* replay, may only find that job, settled or under way.                   *)
EveryRowIsHandled ==
  \A j \in Ids : j \in outbox ~> job[j].state \in {"completed", "failed"}

(* A notify step of the queue's is DONE only by an execution that had      *)
(* published its status: viewers are told before the step is closed to     *)
(* every later notice, also when workers stall, die and are replayed.      *)
DoneWasPublished ==
  (\E j \in Ids : Queue!Known(job[j])) /\ row.status = "DONE" => row.token \in said
=============================================================================
