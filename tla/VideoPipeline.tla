--------------------------- MODULE VideoPipeline ---------------------------
(***************************************************************************)
(* One video on its way from UPLOADED to READY: the probe and package      *)
(* stages, the queues that deliver their jobs, the `failed' listeners, the *)
(* outbox relay, the reconciler of orphaned videos, and the owner who may  *)
(* ask for a reprocess or delete the video at any moment.                  *)
(*                                                                         *)
(* Every database statement, queue call and storage write of a stage is a  *)
(* step of its own, so a stall, a crash, an error, or another worker may   *)
(* come between any two of them.                                           *)
(***************************************************************************)
EXTENDS Naturals, StepRow, StageJob

CONSTANTS MaxGen,        \* bound: generations asked for
          Tokens,        \* lock tokens in use at once, numbers from 1
          Users,         \* concurrent requesters of a reprocess
          MaxFaults,     \* bound: stalls, crashes and fenced encodes
          MayErr,        \* whether the database, storage and queues may err
          MayReject,     \* whether probe and the encodes may reject the source
          MayDelete      \* whether the owner may delete the video

ASSUME PipelineAssumption ==
  /\ MaxGen \in Nat \ {0}
  /\ Tokens \subseteq Nat \ {NoToken}
  /\ MaxFaults \in Nat
  /\ {MayErr, MayReject, MayDelete} \subseteq BOOLEAN

Gens == 1..MaxGen

(* ids.probe and ids.package: a job id names the stage and the generation. *)
Probe(g) == <<"probe", g>>
Package(g) == <<"package", g>>
Jobs == {"probe", "package"} \X Gens
NoJob == <<"none", 0>>

(* ids.notify: the video, the event, and an eventSeq that is always 1.     *)
ReadyNotice == <<"notify", "ready">>
FailedNotice == <<"notify", "failed">>
Notices == {ReadyNotice, FailedNotice}

VARIABLES
  video,      \* the videos row: status and generation
  steps,      \* the processing_steps rows of probe and package
  rendered,   \* the renditions rows exist
  playlists,  \* generations whose rendition playlists are all in storage
  masters,    \* generations whose master playlist is in storage
  jobs,       \* the BullMQ jobs
  execs,      \* executions, by lock token
  outbox,     \* the jobs of the outbox rows not published yet
  notices,    \* jobs of the notify queue
  reports,    \* reports[j]: runs of the `failed' listener still to start
  parking,    \* parking[g]: package listeners between markDead and the flip
  sweep,      \* where reconcile-processing stands on this video
  asked,      \* asked[u]: generation a reprocess request has computed
  faults,     \* stalls, crashes and fenced encodes so far
  published   \* history: PROCESSING to READY flips, by generation packaged

vars == <<video, steps, rendered, playlists, masters, jobs, execs, outbox,
          notices, reports, parking, sweep, asked, faults, published>>

database == <<video, steps, rendered>>
store == <<playlists, masters>>
messages == <<outbox, notices>>
listeners == <<reports, parking>>
others == <<sweep, asked, faults>>

Statuses == {"UPLOADED", "PROBING", "PROCESSING", "READY", "FAILED", "DELETED"}
Reprocessable == {"READY", "FAILED", "PROCESSING"}
PastProbing == {"PROCESSING", "READY", "FAILED", "DELETED"}

ProbePlaces == {"start", "claim", "probing", "rejecting", "rows", "accepted", "dispatch"}
PackagePlaces == {"claim", "verify", "upload", "complete", "flip", "announce"}

TypeOK ==
  /\ video \in [status : Statuses, gen : Gens]
  /\ steps \in [{"probe", "package"} -> StepRows(Tokens \cup {NoToken})]
  /\ rendered \in BOOLEAN
  /\ playlists \subseteq Gens
  /\ masters \subseteq Gens
  /\ jobs \in [Jobs -> StageJobs(Tokens)]
  /\ execs \in [Tokens -> [job : Jobs \cup {NoJob},
                           pc : ProbePlaces \cup PackagePlaces \cup {"idle"}]]
  /\ outbox \subseteq Jobs \cup Notices
  /\ notices \subseteq Notices
  /\ reports \in [Jobs -> Nat]
  /\ parking \in [Gens -> Nat]
  /\ sweep \in {"idle", "looking", "condemned"}
  /\ asked \in [Users -> Gens \cup {0}]
  /\ faults \in 0..MaxFaults
  /\ published \in [Gens -> Nat]

Idle == [job |-> NoJob, pc |-> "idle"]

(* completeUpload has committed UPLOADED and the probe's outbox row.       *)
Init ==
  /\ video = [status |-> "UPLOADED", gen |-> 1]
  /\ steps = [s \in {"probe", "package"} |-> NoStep(NoToken)]
  /\ rendered = FALSE
  /\ playlists = {}
  /\ masters = {}
  /\ jobs = [j \in Jobs |-> NewJob]
  /\ execs = [t \in Tokens |-> Idle]
  /\ outbox = {Probe(1)}
  /\ notices = {}
  /\ reports = [j \in Jobs |-> 0]
  /\ parking = [g \in Gens |-> 0]
  /\ sweep = "idle"
  /\ asked = [u \in Users |-> 0]
  /\ faults = 0
  /\ published = [g \in Gens |-> 0]

-----------------------------------------------------------------------------
(* An update whose WHERE names the video and not its status.               *)
BlindTransition(from, to) == video' = [video EXCEPT !.status = to]

(* The compare-and-set of PostgresVideoRepository.transition.              *)
Transition(from, to) ==
  /\ video.status \in from
  /\ video' = [video EXCEPT !.status = to]

SetStep(stage, row) == steps' = [steps EXCEPT ![stage] = row]

JobOf(t) == execs[t].job
GenOf(t) == JobOf(t)[2]
Owns(t) == JobOf(t) # NoJob /\ OwnedBy(jobs[JobOf(t)], t)
At(t, stage, pc) == JobOf(t)[1] = stage /\ execs[t].pc = pc
Goto(t, pc) == execs' = [execs EXCEPT ![t].pc = pc]

(* The stage returns.  Only the worker that still owns the job's lock can  *)
(* settle it, and only then does the queue emit `failed', after every      *)
(* failed attempt.                                                         *)
Settle(t, outcome) ==
  /\ execs' = [execs EXCEPT ![t] = Idle]
  /\ jobs' = IF Owns(t) THEN [jobs EXCEPT ![JobOf(t)] = Answered(@, outcome)] ELSE jobs
  /\ reports' = IF Owns(t) /\ outcome # "ok"
                THEN [reports EXCEPT ![JobOf(t)] = @ + 1] ELSE reports

Working == UNCHANGED <<jobs, reports>>
StillOn(t, pc) == Goto(t, pc) /\ Working

(* A UUIDv7 no running execution uses and no row remembers.                *)
FreshTokens ==
  {t \in Tokens : execs[t] = Idle /\ \A s \in DOMAIN steps : steps[s].token # t}

(* A worker picks the job up.                                              *)
StartJob(j) ==
  /\ jobs[j].state = "waiting"
  /\ \E t \in FreshTokens :
       /\ \A u \in FreshTokens : t <= u
       /\ jobs' = [jobs EXCEPT ![j] = Taken(@, t)]
       /\ execs' = [execs EXCEPT ![t] = [job |-> j,
                      pc |-> IF j[1] = "probe" THEN "start" ELSE "claim"]]
  /\ UNCHANGED <<database, store, messages, listeners, others, published>>

(* Any await of a stage may come back with DatabaseUnavailable,            *)
(* StorageUnavailable or QueueUnavailable, which the stage returns as is.  *)
StageErrs(t) ==
  /\ MayErr
  /\ execs[t].pc # "idle"
  /\ Settle(t, "transient")
  /\ UNCHANGED <<database, store, messages, parking, others, published>>

-----------------------------------------------------------------------------
(* The probe stage (probe.ts).                                             *)

(* CAS UPLOADED to PROBING; a video that is past PROBING needs no probe.   *)
ProbeStart(t) ==
  /\ At(t, "probe", "start")
  /\ \/ Transition({"UPLOADED"}, "PROBING") /\ StillOn(t, "claim")
     \/ video.status = "PROBING" /\ UNCHANGED video /\ StillOn(t, "claim")
     \/ video.status \in PastProbing /\ UNCHANGED video /\ Settle(t, "ok")
  /\ UNCHANGED <<steps, rendered, store, messages, parking, others, published>>

Claims(t, stage, held) ==
  /\ At(t, stage, "claim")
  /\ \/ /\ Claimable(steps[stage])
        /\ SetStep(stage, Claimed(t))
        /\ StillOn(t, held)
     \/ /\ ~Claimable(steps[stage])
        /\ UNCHANGED steps
        /\ Settle(t, "ok")
  /\ UNCHANGED <<video, rendered, store, messages, parking, others, published>>

ProbeClaim(t) == Claims(t, "probe", "probing")

(* The source is missing, or ffprobe will not have it: failProbe records   *)
(* it on the step.                                                         *)
ProbeReject(t) ==
  /\ MayReject
  /\ At(t, "probe", "probing")
  /\ SetStep("probe", IF Holds(steps["probe"], t) THEN Failed(steps["probe"])
                      ELSE steps["probe"])
  /\ StillOn(t, "rejecting")
  /\ UNCHANGED <<video, rendered, store, messages, parking, others, published>>

(* The second half of recordProbeFailure: CAS PROBING to FAILED, then a    *)
(* notice nobody insists on.  ffprobe's verdict is permanent unless it     *)
(* carries a transient code of its own (a timeout, a full disk).           *)
ProbeRejected(t) ==
  /\ At(t, "probe", "rejecting")
  /\ \/ /\ Transition({"PROBING"}, "FAILED")
        /\ notices' \in {notices, notices \cup {FailedNotice}}
     \/ /\ video.status # "PROBING"
        /\ UNCHANGED <<video, notices>>
  /\ \E outcome \in {"permanent", "transient"} : Settle(t, outcome)
  /\ UNCHANGED <<steps, rendered, store, outbox, parking, others, published>>

(* renditions.create is a plain INSERT under unique (video_id, name): a    *)
(* second probe of the video gets DatabaseUnavailable.                     *)
ProbeRows(t) ==
  /\ At(t, "probe", "probing")
  /\ \/ ~rendered /\ rendered' = TRUE /\ StillOn(t, "rows")
     \/ rendered /\ UNCHANGED rendered /\ Settle(t, "transient")
  /\ UNCHANGED <<video, steps, store, messages, parking, others, published>>

Completes(t, stage, from, to) ==
  /\ At(t, stage, from)
  /\ \/ /\ Holds(steps[stage], t)
        /\ SetStep(stage, Completed(steps[stage]))
        /\ StillOn(t, to)
     \/ /\ ~Holds(steps[stage], t)
        /\ UNCHANGED steps
        /\ Settle(t, "ok")
  /\ UNCHANGED <<video, rendered, store, messages, parking, others, published>>

ProbeComplete(t) == Completes(t, "probe", "rows", "accepted")

(* A probe that leaves the video as it found it.                           *)
ForgetfulCommit(t) ==
  /\ At(t, "probe", "accepted")
  /\ StillOn(t, "dispatch")
  /\ UNCHANGED <<database, store, messages, parking, others, published>>

(* CAS PROBING to PROCESSING.  Whether it applied is not looked at.        *)
ProbeCommit(t) ==
  /\ At(t, "probe", "accepted")
  /\ \/ Transition({"PROBING"}, "PROCESSING")
     \/ video.status # "PROBING" /\ UNCHANGED video
  /\ StillOn(t, "dispatch")
  /\ UNCHANGED <<steps, rendered, store, messages, parking, others, published>>

(* The flow: package waits for its transcodes.                             *)
ProbeDispatch(t) ==
  /\ At(t, "probe", "dispatch")
  /\ execs' = [execs EXCEPT ![t] = Idle]
  /\ LET flow == [jobs EXCEPT ![Package(GenOf(t))] = Added(@, "waitingChildren")]
     IN  jobs' = IF Owns(t) THEN [flow EXCEPT ![JobOf(t)] = Answered(@, "ok")] ELSE flow
  /\ UNCHANGED <<database, store, messages, listeners, others, published>>

ProbeStage(t) ==
  \/ ProbeStart(t) \/ ProbeClaim(t) \/ ProbeReject(t) \/ ProbeRejected(t)
  \/ ProbeRows(t) \/ ProbeComplete(t) \/ ProbeCommit(t) \/ ProbeDispatch(t)

-----------------------------------------------------------------------------
(* The transcode children of Package(g), all of them together.             *)

(* Each uploaded its rendition playlist last.                              *)
EncodesDone(g) ==
  /\ jobs[Package(g)].state = "waitingChildren"
  /\ playlists' = playlists \cup {g}
  /\ jobs' = [jobs EXCEPT ![Package(g)] = Ready(@)]
  /\ UNCHANGED <<database, masters, execs, messages, listeners, others, published>>

(* A transcode that is fenced out still completes its job: the step, whose *)
(* row has no generation, is DONE already, or a later claim holds it.      *)
EncodesFenced(g) ==
  /\ jobs[Package(g)].state = "waitingChildren"
  /\ \/ playlists # {} /\ UNCHANGED faults
     \/ faults < MaxFaults /\ faults' = faults + 1
  /\ jobs' = [jobs EXCEPT ![Package(g)] = Ready(@)]
  /\ UNCHANGED <<database, store, execs, messages, listeners, sweep, asked, published>>

(* The holder of the later claim finishes after all.                       *)
EncodesLate(g) ==
  /\ jobs[Package(g)].state \notin {"absent", "waitingChildren"}
  /\ playlists' = playlists \cup {g}
  /\ UNCHANGED <<database, masters, jobs, execs, messages, listeners, others, published>>

(* failParentOnFailure: a worker takes the parent up only to fail it.      *)
EncodesFail(g) ==
  /\ MayReject
  /\ jobs[Package(g)].state = "waitingChildren"
  /\ jobs' = [jobs EXCEPT ![Package(g)] = Answered(@, "permanent")]
  /\ reports' = [reports EXCEPT ![Package(g)] = @ + 1]
  /\ UNCHANGED <<database, store, execs, messages, parking, others, published>>

Encodes(g) == EncodesDone(g) \/ EncodesFenced(g) \/ EncodesLate(g) \/ EncodesFail(g)

-----------------------------------------------------------------------------
(* The package stage (package.ts).                                         *)

PackageClaim(t) == Claims(t, "package", "verify")

(* A verification that takes the encodes' word for their playlists.        *)
TrustingVerify(t) ==
  /\ At(t, "package", "verify")
  /\ StillOn(t, "upload")
  /\ UNCHANGED <<database, store, messages, parking, others, published>>

(* HEAD every rendition playlist; one that is missing fails the attempt as *)
(* SEGMENT_VERIFY_FAILED, which is transient.                              *)
PackageVerify(t) ==
  /\ At(t, "package", "verify")
  /\ \/ GenOf(t) \in playlists /\ UNCHANGED steps /\ StillOn(t, "upload")
     \/ /\ GenOf(t) \notin playlists
        /\ SetStep("package", IF Holds(steps["package"], t) THEN Failed(steps["package"])
                              ELSE steps["package"])
        /\ Settle(t, "transient")
  /\ UNCHANGED <<video, rendered, store, messages, parking, others, published>>

PackageUpload(t) ==
  /\ At(t, "package", "upload")
  /\ masters' = masters \cup {GenOf(t)}
  /\ StillOn(t, "complete")
  /\ UNCHANGED <<database, playlists, messages, parking, others, published>>

PackageComplete(t) == Completes(t, "package", "complete", "flip")

(* A flip that does not ask what the video's status is.                    *)
UncheckedFlip(t) ==
  /\ At(t, "package", "flip")
  /\ video' = [video EXCEPT !.status = "READY"]
  /\ outbox' = outbox \cup {ReadyNotice}
  /\ published' = [published EXCEPT ![GenOf(t)] = @ + 1]
  /\ StillOn(t, "announce")
  /\ UNCHANGED <<steps, rendered, store, notices, parking, others>>

(* A flip that commits the notice before it knows whether the CAS applied. *)
HastyFlip(t) ==
  /\ At(t, "package", "flip")
  /\ outbox' = outbox \cup {ReadyNotice}
  /\ \/ /\ Transition({"PROCESSING"}, "READY")
        /\ published' = [published EXCEPT ![GenOf(t)] = @ + 1]
        /\ StillOn(t, "announce")
     \/ /\ video.status # "PROCESSING"
        /\ UNCHANGED <<video, published>>
        /\ Settle(t, "ok")
  /\ UNCHANGED <<steps, rendered, store, notices, parking, others>>

(* CAS PROCESSING to READY, with the notice in the same transaction.       *)
PackageFlip(t) ==
  /\ At(t, "package", "flip")
  /\ \/ /\ Transition({"PROCESSING"}, "READY")
        /\ outbox' = outbox \cup {ReadyNotice}
        /\ published' = [published EXCEPT ![GenOf(t)] = @ + 1]
        /\ StillOn(t, "announce")
     \/ /\ video.status # "PROCESSING"
        /\ UNCHANGED <<video, outbox, published>>
        /\ Settle(t, "ok")
  /\ UNCHANGED <<steps, rendered, store, notices, parking, others>>

(* The fast path of the notice the outbox already holds.                   *)
PackageAnnounce(t) ==
  /\ At(t, "package", "announce")
  /\ notices' = notices \cup {ReadyNotice}
  /\ Settle(t, "ok")
  /\ UNCHANGED <<database, store, outbox, parking, others, published>>

PackageStage(t) ==
  \/ PackageClaim(t) \/ PackageVerify(t) \/ PackageUpload(t)
  \/ PackageComplete(t) \/ PackageFlip(t) \/ PackageAnnounce(t)

-----------------------------------------------------------------------------
(* The queues and their listeners.                                         *)

(* The lock of the job expired; the worker that fails it for having        *)
(* stalled too often emits `failed'.                                       *)
Expire(j) ==
  /\ jobs' = [jobs EXCEPT ![j] = Stalled(@)]
  /\ reports' = [reports EXCEPT ![j] = IF Stalled(jobs[j]).state = "failed" THEN @ + 1 ELSE @]

(* The worker lives on, a zombie, and keeps working.                       *)
Stall(t) ==
  /\ Owns(t)
  /\ faults < MaxFaults
  /\ faults' = faults + 1
  /\ Expire(JobOf(t))
  /\ UNCHANGED <<database, store, execs, messages, parking, sweep, asked, published>>

(* The worker process dies, a zombie or the owner of its job.              *)
Crash(t) ==
  /\ execs[t].pc # "idle"
  /\ faults < MaxFaults
  /\ faults' = faults + 1
  /\ execs' = [execs EXCEPT ![t] = Idle]
  /\ IF Owns(t) THEN Expire(JobOf(t)) ELSE Working
  /\ UNCHANGED <<database, store, messages, parking, sweep, asked, published>>

(* The listener of a failed attempt (failure-handler.ts): it marks the     *)
(* step DEAD and, for package, goes on to flip the video, with a notice if *)
(* it could load the video.  A statement of it that errs is only logged.   *)
ListenerMarks(j) ==
  /\ reports[j] > 0
  /\ reports' = [reports EXCEPT ![j] = @ - 1]
  /\ SetStep(j[1], MarkedDead(steps[j[1]])) \/ (MayErr /\ UNCHANGED steps)
  /\ parking' = IF j[1] = "package" THEN [parking EXCEPT ![j[2]] = @ + 1] ELSE parking
  /\ UNCHANGED <<video, rendered, store, jobs, execs, messages, others, published>>

ListenerFlips(g) ==
  /\ parking[g] > 0
  /\ parking' = [parking EXCEPT ![g] = @ - 1]
  /\ \/ /\ Transition({"PROCESSING", "PROBING"}, "FAILED")
        /\ \/ /\ outbox' = outbox \cup {FailedNotice}
              /\ notices' \in {notices, notices \cup {FailedNotice}}
           \/ MayErr /\ UNCHANGED messages
     \/ /\ video.status \notin {"PROCESSING", "PROBING"} \/ MayErr
        /\ UNCHANGED <<video, messages>>
  /\ UNCHANGED <<steps, rendered, store, jobs, execs, reports, others, published>>

(* The relay publishes a row and then marks it published; it may die in    *)
(* between.  The fast paths of the API publish the same jobs under the     *)
(* same ids.                                                               *)
RelayPublish(m) ==
  /\ m \in outbox
  /\ outbox' \in {outbox, outbox \ {m}}
  /\ jobs' = IF m \in Notices THEN jobs ELSE [jobs EXCEPT ![m] = Added(@, "waiting")]
  /\ notices' = IF m \in Notices THEN notices \cup {m} ELSE notices
  /\ UNCHANGED <<database, store, execs, listeners, others, published>>

-----------------------------------------------------------------------------
(* reconcile-processing, one round over this video.                        *)

(* The scan finds it PROCESSING, for hours, and none of its steps RUNNING. *)
(* How long it has been PROCESSING is left out: the sweep may come at any  *)
(* time.                                                                   *)
SweepScan ==
  /\ sweep = "idle"
  /\ video.status = "PROCESSING"
  /\ \A s \in DOMAIN steps : steps[s].status # "RUNNING"
  /\ sweep' = "looking"
  /\ UNCHANGED <<database, store, jobs, execs, messages, listeners, asked, faults, published>>

(* It then looks for a job of the video in the queues.                     *)
SweepLook ==
  /\ sweep = "looking"
  /\ sweep' = IF \E j \in Jobs : Live(jobs[j]) THEN "idle" ELSE "condemned"
  /\ UNCHANGED <<database, store, jobs, execs, messages, listeners, asked, faults, published>>

(* CAS PROCESSING to FAILED, as ORPHANED.                                  *)
SweepFlip ==
  /\ sweep = "condemned"
  /\ sweep' = "idle"
  /\ \/ Transition({"PROCESSING"}, "FAILED")
     \/ video.status # "PROCESSING" /\ UNCHANGED video
  /\ UNCHANGED <<steps, rendered, store, jobs, execs, messages, listeners, asked, faults, published>>

(* reconcile-uploads re-adds the probe of a video left UPLOADED with no    *)
(* probe step, once its owner is under the in-flight limit.                *)
SweepUploaded ==
  /\ video.status = "UPLOADED"
  /\ steps["probe"].status = "ABSENT"
  /\ jobs' = [jobs EXCEPT ![Probe(video.gen)] = Added(@, "waiting")]
  /\ UNCHANGED <<database, store, execs, messages, listeners, others, published>>

Housekeeping == SweepScan \/ SweepLook \/ SweepFlip

-----------------------------------------------------------------------------
(* The owner (video-lifecycle.ts).  A reprocess reads the video first and  *)
(* commits on its status alone, so requests may overlap.                   *)

AskReprocess(u) ==
  /\ asked[u] = 0
  /\ video.status \in Reprocessable
  /\ video.gen < MaxGen
  /\ asked' = [asked EXCEPT ![u] = video.gen + 1]
  /\ UNCHANGED <<database, store, jobs, execs, messages, listeners, sweep, faults, published>>

CommitReprocess(u) ==
  /\ asked[u] # 0
  /\ asked' = [asked EXCEPT ![u] = 0]
  /\ \/ /\ video.status \in Reprocessable
        /\ video' = [status |-> "PROBING", gen |-> asked[u]]
        /\ outbox' = outbox \cup {Probe(asked[u])}
     \/ /\ video.status \notin Reprocessable
        /\ UNCHANGED <<video, outbox>>
  /\ UNCHANGED <<steps, rendered, store, jobs, execs, notices, listeners, sweep, faults, published>>

SoftDelete ==
  /\ MayDelete
  /\ Transition(Statuses \ {"DELETED"}, "DELETED")
  /\ UNCHANGED <<steps, rendered, store, jobs, execs, messages, listeners, others, published>>

Owner == SoftDelete \/ \E u \in Users : AskReprocess(u) \/ CommitReprocess(u)

-----------------------------------------------------------------------------
Stages(t) == ProbeStage(t) \/ PackageStage(t)
Listeners == (\E j \in Jobs : ListenerMarks(j)) \/ (\E g \in Gens : ListenerFlips(g))

Next ==
  \/ \E j \in Jobs : StartJob(j)
  \/ \E t \in Tokens : Stages(t) \/ StageErrs(t) \/ Stall(t) \/ Crash(t)
  \/ \E g \in Gens : Encodes(g)
  \/ Listeners
  \/ \E m \in Jobs \cup Notices : RelayPublish(m)
  \/ Housekeeping \/ SweepUploaded
  \/ Owner

(* Fairness: workers run the jobs they hold and take up the ones that      *)
(* wait, Node runs the listeners of events it emitted, the relay and the   *)
(* schedulers keep polling.  The owner and the faults owe nothing.         *)
Fairness ==
  /\ \A j \in Jobs : WF_vars(StartJob(j))
  /\ \A t \in Tokens : WF_vars(Stages(t) \/ StageErrs(t))
  /\ \A g \in Gens : WF_vars(EncodesDone(g) \/ EncodesFenced(g) \/ EncodesFail(g))
  /\ WF_vars(Listeners)
  /\ \A m \in Jobs \cup Notices : WF_vars(RelayPublish(m) /\ m \notin outbox')
  /\ WF_vars(SweepScan) /\ WF_vars(SweepLook) /\ WF_vars(SweepFlip)
  /\ WF_vars(SweepUploaded)

Spec == Init /\ [][Next]_vars /\ Fairness

-----------------------------------------------------------------------------
Playable(g) == g \in masters /\ g \in playlists

(* The pipeline implements what the viewer is promised: READY only over a  *)
(* playable ladder and with the notice committed, and the status moves by  *)
(* the promise's edges alone, whatever stalls, errs or is asked for.       *)
Promise == INSTANCE VideoLifecycle WITH
  status <- video.status,
  playable <- \E g \in Gens : Playable(g),
  announced <- ReadyNotice \in outbox \cup notices

KeepsPromise == Promise!Spec

(* A generation turns READY at most once, though a late `failed' listener  *)
(* may open its package step again and a reprocess may start it over: the  *)
(* CAS from PROCESSING applies once, as the rows that lead there are       *)
(* inserted once (probe.ts).                                               *)
PublishedOnce == \A g \in Gens : published[g] <= 1

(* The owner is never told of a READY that did not happen or of a ladder   *)
(* that does not play, however many workers raced to package the video.    *)
NoticeFollowsReady ==
  ReadyNotice \in outbox \cup notices =>
    \E g \in Gens : published[g] > 0 /\ Playable(g)

(* A video does not stay PROCESSING once no step of it is RUNNING: its     *)
(* package job publishes or fails it, or the reconciler finds it orphaned. *)
OrphansAreFound ==
  ~<>[](/\ video.status = "PROCESSING"
        /\ \A s \in DOMAIN steps : steps[s].status # "RUNNING")

(* When nothing stalls, crashes, errs or is refused, and the owner leaves  *)
(* the video alone, it ends READY.                                         *)
Untroubled ==
  /\ faults = 0 /\ \A j \in Jobs : jobs[j].attempts = 0
  /\ video.gen = 1 /\ video.status # "DELETED"

SmoothUploadIsReady == []Untroubled => <>(video.status = "READY")

-----------------------------------------------------------------------------
(* What the documents say and the code does not do.                        *)

(* SDD 3.2: a video turns FAILED when attempts are exhausted or an         *)
(* UnrecoverableError is thrown.                                           *)
FailsOnlyWhenSpent ==
  [][video'.status = "FAILED" /\ video.status # "FAILED"
       => \E j \in Jobs : jobs[j].state = "failed"]_vars

(* worker-stuck.md: a reprocess re-runs the pipeline under a generation    *)
(* that collides with nothing.                                             *)
ReprocessRuns ==
  video.status = "PROBING" /\ video.gen > 1 ~> video.status # "PROBING"
=============================================================================
