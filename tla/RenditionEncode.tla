--------------------------- MODULE RenditionEncode ---------------------------
(***************************************************************************)
(* One rendition of one video: the transcode job that writes its HLS       *)
(* output, or, for a long source, joins the chunks its child jobs left in  *)
(* the raw bucket.  The step row is fenced; the rendition row, the objects *)
(* in storage and the chunks are not.                                      *)
(***************************************************************************)
EXTENDS Naturals, StepRow, StageJob, SegmentUploader

CONSTANTS Tokens,      \* lock tokens in use at once, numbers from 1
          Chunked,     \* whether the source is long enough to be chunked
          MaxFaults,   \* bound: stalls and crashes
          MayErr,      \* whether the database and storage may err
          MayReject    \* whether FFmpeg may fail

ASSUME EncodeAssumption ==
  /\ Tokens \subseteq Nat \ {NoToken}
  /\ MaxFaults \in Nat
  /\ {Chunked, MayErr, MayReject} \subseteq BOOLEAN

VARIABLES
  row,        \* the processing_steps row of (video, transcode, rendition)
  rendition,  \* renditions.status
  chunks,     \* every chunk object is in the raw bucket
  segments,   \* segments in the public bucket
  playlist,   \* the rendition playlist is in the public bucket
  uploader,   \* uploader[t]: the uploader of the execution under token t
  job,        \* the transcode job
  pc,         \* pc[t]: how far the execution under token t got
  reports,    \* `failed' listeners still to run
  marked,     \* `failed' listeners between markDead and the rendition
  faults,     \* stalls and crashes so far
  commits,    \* history: completions the row accepted
  revoked,    \* history: times a listener took a DONE row back
  events      \* history: transcode.completed events

vars == <<row, rendition, chunks, segments, playlist, uploader, job, pc, reports, marked, faults,
          commits, revoked, events>>

output == <<chunks, segments, playlist>>
listeners == <<reports, marked>>
history == <<commits, revoked, events>>

Places == {"idle", "claim", "starting", "input", "encoding", "draining",
           "failing", "uploaded", "recorded", "purgeHeld", "purgeLost", "event"}

TypeOK ==
  /\ row \in StepRows(Tokens \cup {NoToken})
  /\ rendition \in {"PENDING", "RUNNING", "DONE", "FAILED"}
  /\ chunks \in BOOLEAN /\ playlist \in BOOLEAN
  /\ segments \subseteq 1..Segments
  /\ uploader \in [Tokens -> Uploaders]
  /\ job \in StageJobs(Tokens)
  /\ pc \in [Tokens -> Places]
  /\ reports \in Nat /\ marked \in Nat
  /\ faults \in 0..MaxFaults
  /\ commits \in Nat /\ revoked \in Nat /\ events \in Nat

(* The chunk jobs, if any, are done: the flow has released their parent.   *)
Init ==
  /\ row = NoStep(NoToken)
  /\ rendition = "PENDING"
  /\ chunks = Chunked
  /\ segments = {} /\ playlist = FALSE
  /\ uploader = [t \in Tokens |-> NewUploader]
  /\ job = Added(NewJob, "waiting")
  /\ pc = [t \in Tokens |-> "idle"]
  /\ reports = 0 /\ marked = 0
  /\ faults = 0
  /\ commits = 0 /\ revoked = 0 /\ events = 0

-----------------------------------------------------------------------------
(* Only an encode has an uploader.  What is in flight when the encode ends *)
(* is forgotten: landing late, it adds a segment another encode would.     *)
Encoding == {"encoding", "draining"}

Goto(t, place) ==
  /\ pc' = [pc EXCEPT ![t] = place]
  /\ uploader' = IF place \in Encoding THEN uploader ELSE [uploader EXCEPT ![t] = NewUploader]

StillOn(t, place) == Goto(t, place) /\ UNCHANGED <<job, reports>>

Uploads(t, u) ==
  /\ uploader' = [uploader EXCEPT ![t] = u]
  /\ UNCHANGED <<row, rendition, chunks, playlist, job, pc, reports, marked, faults, history>>

(* The stage returns; only the owner of the job's lock settles it.         *)
Settle(t, outcome) ==
  /\ Goto(t, "idle")
  /\ job' = IF OwnedBy(job, t) THEN Answered(job, outcome) ELSE job
  /\ reports' = IF OwnedBy(job, t) /\ outcome # "ok" THEN reports + 1 ELSE reports

FreshTokens == {t \in Tokens : pc[t] = "idle" /\ row.token # t}

StartJob ==
  /\ job.state = "waiting"
  /\ \E t \in FreshTokens :
       /\ \A u \in FreshTokens : t <= u
       /\ job' = Taken(job, t)
       /\ Goto(t, "claim")
  /\ UNCHANGED <<row, rendition, output, listeners, faults, history>>

StageErrs(t) ==
  /\ MayErr
  /\ pc[t] # "idle"
  /\ Settle(t, "transient")
  /\ UNCHANGED <<row, rendition, output, marked, faults, history>>

-----------------------------------------------------------------------------
(* A step that is DONE was transcoded before: there is nothing to do.      *)
Claim(t) ==
  /\ pc[t] = "claim"
  /\ \/ Claimable(row) /\ row' = Claimed(t) /\ StillOn(t, "starting")
     \/ ~Claimable(row) /\ UNCHANGED row /\ Settle(t, "ok")
  /\ UNCHANGED <<rendition, output, marked, faults, history>>

MarkRunning(t) ==
  /\ pc[t] = "starting"
  /\ rendition' = "RUNNING"
  /\ StillOn(t, "input")
  /\ UNCHANGED <<row, output, marked, faults, history>>

FailStep(t) == row' = IF Holds(row, t) THEN Failed(row) ELSE row

(* The chunks are downloaded; one that is missing is SOURCE_MISSING, and   *)
(* so is a source that is gone.                                            *)
ReadInput(t) ==
  /\ pc[t] = "input"
  /\ \/ chunks = Chunked /\ UNCHANGED row /\ StillOn(t, "encoding")
     \/ /\ chunks # Chunked \/ MayReject
        /\ FailStep(t)
        /\ StillOn(t, "failing")
  /\ UNCHANGED <<rendition, output, marked, faults, history>>

(* A renewal of the lease found another token: the encode is aborted and   *)
(* nothing more is uploaded.  The job completes.                           *)
LoseLease(t) ==
  /\ pc[t] = "encoding"
  /\ ~Holds(row, t)
  /\ Settle(t, "ok")
  /\ UNCHANGED <<row, rendition, output, marked, faults, history>>

(* FFmpeg failed, and the uploader is stopped without a last scan.         *)
EncodeFails(t) ==
  /\ MayReject
  /\ pc[t] = "encoding"
  /\ FailStep(t)
  /\ StillOn(t, "failing")
  /\ UNCHANGED <<rendition, output, marked, faults, history>>

(* The second half of failTranscode.  A missing chunk is permanent, and so *)
(* are some of FFmpeg's failures.                                          *)
MarkFailed(t) ==
  /\ pc[t] = "failing"
  /\ rendition' = "FAILED"
  /\ \E outcome \in {"permanent", "transient"} : Settle(t, outcome)
  /\ UNCHANGED <<row, output, marked, faults, history>>

(* A scan finds a segment FFmpeg renamed into the directory.               *)
Poll(t) ==
  /\ pc[t] = "encoding" /\ ~uploader[t].fatal
  /\ \E n \in uploader[t].seen + 1..Segments : Uploads(t, Scanned(uploader[t], n))
  /\ UNCHANGED segments

UploadSegment(t) ==
  \E segment \in uploader[t].active :
    \/ segments' = segments \cup {segment} /\ Uploads(t, SegmentEnded(uploader[t], segment, TRUE))
    \/ MayErr /\ UNCHANGED segments /\ Uploads(t, SegmentEnded(uploader[t], segment, FALSE))

(* FFmpeg is done, and the uploader is told to stop: it polls no more and  *)
(* takes a last look.  A directory that cannot be read passes for an empty *)
(* one.                                                                    *)
EncodeEnds(t) ==
  /\ pc[t] = "encoding"
  /\ pc' = [pc EXCEPT ![t] = "draining"]
  /\ \E readable \in {TRUE, ~FinalScanErrs} :
       uploader' = IF readable THEN [uploader EXCEPT ![t] = Scanned(@, Segments)] ELSE uploader
  /\ UNCHANGED <<row, rendition, output, job, reports, marked, faults, history>>

(* The playlist, once every queued segment is uploaded.                    *)
UploadPlaylist(t) ==
  /\ pc[t] = "draining" /\ IsIdle(uploader[t]) /\ ~uploader[t].fatal
  /\ playlist' = TRUE
  /\ StillOn(t, "uploaded")
  /\ UNCHANGED <<row, rendition, chunks, segments, marked, faults, history>>

(* A segment or the playlist could not be uploaded.                        *)
UploadFails(t) ==
  /\ pc[t] = "draining" /\ IsIdle(uploader[t])
  /\ uploader[t].fatal \/ MayErr
  /\ FailStep(t)
  /\ StillOn(t, "failing")
  /\ UNCHANGED <<rendition, output, marked, faults, history>>

RecordDone(t) ==
  /\ pc[t] = "uploaded"
  /\ rendition' = "DONE"
  /\ StillOn(t, "recorded")
  /\ UNCHANGED <<row, output, marked, faults, history>>

(* A completion that forgets to compare the token.                         *)
UnfencedComplete(t) ==
  /\ pc[t] = "recorded"
  /\ row' = Completed(row)
  /\ commits' = commits + 1
  /\ StillOn(t, "purgeHeld")
  /\ UNCHANGED <<rendition, output, marked, faults, revoked, events>>

Complete(t) ==
  /\ pc[t] = "recorded"
  /\ \/ /\ Holds(row, t)
        /\ row' = Completed(row)
        /\ commits' = commits + 1
        /\ StillOn(t, "purgeHeld")
     \/ /\ ~Holds(row, t)
        /\ UNCHANGED <<row, commits>>
        /\ StillOn(t, "purgeLost")
  /\ UNCHANGED <<rendition, output, marked, faults, revoked, events>>

(* The chunks are purged before the answer of complete is looked at; a     *)
(* purge that errs is only logged.  A fenced execution then returns        *)
(* without its event.                                                      *)
Purge(t) ==
  /\ chunks' \in {FALSE, chunks}
  /\ \/ pc[t] = "purgeHeld" /\ StillOn(t, "event")
     \/ pc[t] = "purgeLost" /\ Settle(t, "ok")
  /\ UNCHANGED <<row, rendition, segments, playlist, marked, faults, history>>

Announce(t) ==
  /\ pc[t] = "event"
  /\ events' = events + 1
  /\ Settle(t, "ok")
  /\ UNCHANGED <<row, rendition, output, marked, faults, commits, revoked>>

Stage(t) ==
  \/ Claim(t) \/ MarkRunning(t) \/ ReadInput(t) \/ LoseLease(t) \/ EncodeFails(t)
  \/ Poll(t) \/ UploadSegment(t) \/ EncodeEnds(t)
  \/ UploadPlaylist(t) \/ UploadFails(t)
  \/ MarkFailed(t) \/ RecordDone(t) \/ Complete(t) \/ Purge(t) \/ Announce(t)

-----------------------------------------------------------------------------
Expire ==
  /\ job' = Stalled(job)
  /\ reports' = IF Stalled(job).state = "failed" THEN reports + 1 ELSE reports

Stall(t) ==
  /\ OwnedBy(job, t)
  /\ faults < MaxFaults
  /\ faults' = faults + 1
  /\ Expire
  /\ UNCHANGED <<row, rendition, output, uploader, pc, marked, history>>

Crash(t) ==
  /\ pc[t] # "idle"
  /\ faults < MaxFaults
  /\ faults' = faults + 1
  /\ Goto(t, "idle")
  /\ IF OwnedBy(job, t) THEN Expire ELSE UNCHANGED <<job, reports>>
  /\ UNCHANGED <<row, rendition, output, marked, history>>

(* The `failed' listener: the step first, the rendition after it.  What    *)
(* errs is only logged.                                                    *)
ListenerMarks ==
  /\ reports > 0
  /\ reports' = reports - 1
  /\ marked' = marked + 1
  /\ \/ /\ row' = MarkedDead(row)
        /\ revoked' = IF row.status = "DONE" THEN revoked + 1 ELSE revoked
     \/ MayErr /\ UNCHANGED <<row, revoked>>
  /\ UNCHANGED <<rendition, output, uploader, job, pc, faults, commits, events>>

ListenerFails ==
  /\ marked > 0
  /\ marked' = marked - 1
  /\ rendition' = "FAILED" \/ (MayErr /\ UNCHANGED rendition)
  /\ UNCHANGED <<row, output, uploader, job, pc, reports, faults, history>>

Next ==
  \/ StartJob
  \/ \E t \in Tokens : Stage(t) \/ StageErrs(t) \/ Stall(t) \/ Crash(t)
  \/ ListenerMarks \/ ListenerFails

Fairness ==
  /\ WF_vars(StartJob)
  /\ \A t \in Tokens : WF_vars(Stage(t))
  /\ WF_vars(ListenerMarks) /\ WF_vars(ListenerFails)

Spec == Init /\ [][Next]_vars /\ Fairness

-----------------------------------------------------------------------------
(* DONE, of the step and of the rendition, means a playlist, and a         *)
(* playlist means every segment it names (segment-uploader.ts:57-58): also *)
(* when uploads fail, workers die, and a zombie encodes beside its         *)
(* successor.                                                              *)
DoneHasPlaylist ==
  /\ row.status = "DONE" \/ rendition = "DONE" => playlist
  /\ playlist => segments = 1..Segments

(* One transcode.completed per completion the row accepted, and one        *)
(* completion per time the row became DONE.                                *)
EventsFollowCommits ==
  /\ events <= commits
  /\ commits = revoked + (IF row.status = "DONE" THEN 1 ELSE 0)

(* The job is answered for good, whoever stalls or dies meanwhile.         *)
EncodeSettles == <>[](job.state \in {"completed", "failed"} /\ reports = 0)
=============================================================================
