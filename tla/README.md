# A verification of the taitube pipeline in TLA+

taitube takes an uploaded video file, probes it, encodes it into an HLS ladder, and publishes
it. The work is done by stateless workers behind BullMQ queues that deliver a job at least once;
the truth is in Postgres rows that the workers update by compare-and-set (CAS) and by a fencing
token; the bytes are in an S3 store that has neither. What makes the system correct is the order
in which stages write rows, objects and jobs, and what the other parties may do in between. That
is what these modules describe, what TLC checks on small instances and, for every safety property
the passing runs check, what TLAPS proves for any instance.

Paths below are relative to the repository.

## 1. The system

### 1.1 Components

| Component | Where | State it keeps | Operations | What makes it correct |
|---|---|---|---|---|
| Step leases | `packages/server/adapters/postgres/repositories/postgres-step-repository.ts`, `worker/src/stages/step-lease.ts` | one `processing_steps` row per (video, step, rendition): status, lock token | claim, heartbeat, complete, fail, markDead | a replaced execution commits nothing; a DONE step is not handed out again |
| Video lifecycle | `postgres-video-repository.ts` (`transition`), `api/src/services/video-lifecycle.ts` | `videos.status`, `videos.generation` | CAS transition, reprocess, soft delete, restore, hard delete | READY only over something that plays; statuses move by legal edges |
| Probe | `worker/src/stages/probe.ts`, `probe-enqueue.ts`, `probe-failure.ts` | rendition rows; the package flow in the queues | CAS to PROBING, claim, reject or accept, rows, complete, CAS to PROCESSING, enqueue | a video it leaves behind is found by someone |
| Transcode | `worker/src/stages/transcode.ts` and helpers | rendition row, segments, playlist, chunks | claim, encode under a renewed lease, upload, record, complete, purge, event | the playlist is last; DONE means it is there |
| Segment uploader | `worker/src/stages/segment-uploader.ts` | scan set, queue, uploads in flight, fatal error | poll, upload, stop | no playlist without its segments |
| Package | `worker/src/stages/package.ts` | master playlist | claim, verify, upload, complete, CAS to READY with an outbox row, notify | published at most once, with its notice |
| Failed listeners | `worker/src/failure-handler.ts` | dead letters, DEAD steps | on every failed attempt: dead letter, markDead, rendition FAILED, video FAILED | a late one does no harm |
| Job queue | `packages/server/adapters/bullmq/`, `job-contracts` | jobs by deterministic id | add, flow, process, stall, retry | at least once; one job per id |
| Outbox relay | `stages/housekeeping/outbox-relay.ts` | unpublished rows | claim a batch, publish, mark | what was committed reaches the queue |
| Reconcilers | `stages/housekeeping/reconcile-processing.ts`, `reconcile-uploads.ts` | none | scan, look, repair | orphans are found, live work is not touched |
| Upload session | `api/src/services/upload-initiate.ts`, `upload-complete.ts`, `upload-abort.ts` | `uploads` row, multipart session, source object | initiate, PUT, complete, abort, expire, abandon | the first outcome stands; UPLOADED over a source |
| Dead letter queue | `api/src/services/dlq-service.ts` | `dlq_entries` | list, replay, discard | a first replay reaches the queue; the stage bears being replayed |
| Notify | `worker/src/stages/notify.ts` | notify step row, notifications, webhooks | claim, publish, complete | DONE only after viewers were told |
| View buffer and flush | `redis-view-buffer.adapter.ts`, `fallback-view-buffer.ts`, `held-views.ts`, `flush-video-views.ts`, `postgres-video-view-repository.ts` | Redis hashes, a batch pointer, a ledger of applied batches, views held in process | record, hold, hand back, snapshot, apply, release, forget | views neither lost nor counted twice |
| Caption tracks | `stages/captions/`, `api/src/services/caption-*.ts`, `postgres-caption-repository.ts`, `reconcile-captions.ts` | `video_captions` rows with a version, a public `.vtt` per language, windows in the raw bucket | generate, switch, upload, edit, remove; run, window, merge, fail, reconcile | the creator's text is not lost to a run; no track waits for good |
| Live streaming | `stages/live/`, `api/src/services/live-ingest-service.ts`, `creator-live-service.ts`, `postgres-live-stream-repository.ts`, `adapters/mediamtx/` | `live_streams` rows that hand on one stream key, the archive's state, playlists and media | admit, go live, stop, package, finalize, kick | playlists name what is stored; the archive survives retries; a broadcast ends |
| Event streams | `api/src/services/sse-hub.ts`, `sse-connection.ts`, `sse-service.ts`, `postgres-user-event-repository.ts`; `packages/client/queries/src/user-event-source.ts`, `use-live-video-events.ts` | the user event log, what each connection has buffered, read and written, what each tab has seen | log and announce, open, replay, read the log, back off for a slow reader, resume, hand on between tabs | what is logged arrives, in order, once; the latest tick and the end are not lost to a slow reader |
| Thumbnail, chunk encode | `thumbnail.ts`, `transcode-chunk.ts` | their step rows and objects | as transcode | as transcode |
| Everything else | catalogue, comments, search, analytics, auth, web clients | single rows, caches, user interface | requests | decisions on one request |

`worker` and `api` stand for `apps/server/worker` and `apps/server/api`.

### 1.2 How they interact

`completeUpload` moves the video to UPLOADED and writes the probe job to the outbox in one
transaction, then adds the job itself (the fast path). The relay publishes outbox rows again under
the same job id. Probe adds a flow: `package` waits for its transcode children. A child that fails
for good fails the parent. A worker holds a lock on its job; if it does not renew the lock in time
the job is stalled and goes to another worker, while the first may still be running. Each execution
draws a fresh token, writes it into the step row when it claims, and every later `complete` and `fail`
compares it. The queue's `failed` event runs a listener that nothing awaits and that carries no token.
Reconcilers poll the tables for what the above has lost. Beside the pipeline, API processes record views in
Redis, and every ten seconds a housekeeping worker moves them to Postgres in a batch.

Status changes leave the database through the outbox: the transaction writes a row, the process that
wrote it tries to add the job at once, and relays add what is still unpublished. A job that used up an
attempt leaves a dead letter an operator may replay, under the job's id with a count behind it and through the outbox again.
Captions are a flow of their own on a queue of their own; a run carries the version of the track it was
asked for and commits by compare-and-set on it, while the creator writes the same row and the same file.
A live broadcast starts with the media gateway's auth call, which takes the stream's row live and
writes the job; the worker packages the ingest, checks with the gateway whether anybody still publishes, and
ends the row, at which the key passes to the channel's next stream.
Browsers hear of all this over two kinds of stream. What happens to a video is published on its channel, and a connection writes what it hears unless it has written that id before. What concerns a
user is a row of a log first; the message on her channel only tells each connection to read on. One tab per browser holds the user's stream and posts what it hears to the others.

### 1.3 What is hard

Interleavings of two executions of one stage; a late listener between any two statements of a
retry; a crash between a row and the job it stands for; a sweep that decides on what it read; a
request that decides on rows it loaded before another one changed them; objects and rendition rows,
which have no fence; a flush that writes to two stores and may die between them; a file written before
the row that decides whether it should have been; a broadcast carried on by a second worker from what
the first one had stored; a publisher admitted before, and sending after, the end of the stream; messages that are lost, late or
doubled between a log, a connection, a slow socket and tabs that come and go. `PROJECT.json` lists each hazard at its line, with the property that would
catch it or the reason there is none.

## 2. The modules

| Module | Models | Lines that matter most |
|---|---|---|
| `StepRow` | one row of `processing_steps` and what claim, complete, fail and markDead make of it | `postgres-step-repository.ts` 25-143, 191-198 |
| `StepLease` | any number of executions of one step, with crashes and listeners | the same, `step-lease.ts`, `failure-handler.ts` 111-136 |
| `StepLeaseProofs` | the theorems about `StepLease`, and about `NoticeDelivery` on top of it | |
| `StageJob` | one BullMQ job as the stages see it | `bullmq-job-queue.ts`, `bullmq-processor.ts`, `policies.ts` |
| `VideoLifecycle` | the abstract promise to the viewer | `lifecycle.rule.ts`, the CAS calls of the stages |
| `VideoPipeline` | one video from UPLOADED to READY: probe, package, queues, listeners, relay, reconcilers, owner | `probe.ts`, `package.ts`, `failure-handler.ts`, the reconcilers, `video-lifecycle.ts` |
| `VideoPipelineProofs` | the theorems about `VideoPipeline`, and its refinement of `VideoLifecycle` | |
| `SegmentUploader` | the upload pool of one encode, as operators on its state | `segment-uploader.ts` 75-204 |
| `RenditionEncode` | one rendition inside transcode, chunked or not, with its uploader | `transcode.ts`, `segment-uploader.ts` |
| `RenditionEncodeProofs` | the theorems about `RenditionEncode` and its uploaders | |
| `NoticeDelivery` | from a committed status change to the notify stage and back through the dead letters | `outbox-relay.ts`, `notify.ts`, `failure-handler.ts` 49-136, `dlq-service.ts` |
| `UploadSession` | one upload from its presigned URLs to its first status after UPLOADING | `upload-complete.ts`, `upload-abort.ts`, `reconcile-uploads.ts` |
| `UploadSessionProofs` | the theorems about `UploadSession` | |
| `ViewBuffer` | the views of one video on one day, from beacon to database | the Redis scripts, `fallback-view-buffer.ts`, `flush-video-views.ts`, `applyBatch` |
| `ViewBufferProofs` | the theorems about `ViewBuffer` | |
| `LiveBroadcast` | a channel's broadcasts on one stream key | `live-stage.ts`, `live-session.ts`, `live-uploader.ts`, `live-finalize.ts`, `live-ingest-service.ts`, `postgres-live-stream-repository.ts` |
| `LiveBroadcastProofs` | the theorems about `LiveBroadcast` | |
| `CaptionTrack` | the caption tracks of one video, their files and runs | `captions.ts`, `captions-run.ts`, `caption-runs.ts`, `caption-track-service.ts`, `postgres-caption-repository.ts` |
| `CaptionTrackProofs` | the theorems about `CaptionTrack` | |
| `EventConnection` | one server-sent event stream in its API process, as operators on its state | `sse-connection.ts` |
| `UserEventStream` | a user's event log, its stream, and the tabs of one browser | `postgres-user-event-repository.ts`, `sse-service.ts` 188-230, `user-event-source.ts` |
| `VideoEventStream` | a viewer's stream of a video that is processed or broadcast | `sse-service.ts` 139-186, `events.ts`, `notify.ts`, `progress-reporter.ts`, `use-live-video-events.ts` |
| `EventStreamProofs` | the theorems about `UserEventStream`, `VideoEventStream` and the `EventConnection` in each, and about both as `MCEventStreams` has them | |
| `MCStepLease` | one step lease in two settings, free or under `NoticeDelivery` | |
| `MCEventStreams` | the user's stream and a video's under three bounds, each on its own | |
| `MCVideoPipeline`, `MCRenditionEncode`, `MCLiveBroadcast` | constants for TLC | |

`StepRow` and `StageJob` are operators on one row and one job. `StepLease`, `VideoPipeline` and
`RenditionEncode` compose them: what is proved of the row's operators under every interleaving in
`StepLease` is the protocol the others run. `VideoPipeline` implements `VideoLifecycle`. `NoticeDelivery` extends `StepLease`: each of its
actions that touches the row or an execution's place conjoins the action of that module, so every behaviour of the notify stage is one of the proved
protocol, with reasons for each delivery. `RenditionEncode` holds one `SegmentUploader` per execution. `CaptionTrack` uses `StepRow` and `StageJob`,
`LiveBroadcast` only `StageJob`: nothing in it is fenced. Both stream modules instantiate
`EventConnection`, with a log (`Logged`) or without.

### 2.1 State and actions

**StepLease.** `row` is the row; `pc[a]` is how far the execution with token `a` got. A token is a
UUIDv7 drawn per execution, so executions and tokens are the same thing. `Claim` is the upsert whose
`setWhere` refuses DONE; `Skip` the stage's early return when the claim is fenced; `LoseLease` the heartbeat that
finds another token; `Complete` and `Fail` the fenced updates; `MarkDead` the listener, at any
later time and without a token. `Fail` may leave the row alone, because a database or storage error is
returned without `steps.fail`.

**VideoPipeline.** Each `await` of `processProbeJob` and `processPackageJob` that touches the
database, the store or a queue is one action (`ProbeStart`, `ProbeClaim`, ..., `PackageAnnounce`), so
everything else may come in between. `execs[t]` is an execution by its token. `jobs` are BullMQ jobs by id (stage,
generation); `Settle` is what happens when a stage returns: only the owner of the lock settles its job,
a failed attempt makes a report for the `failed` listener, whose two statements are
`ListenerMarks` and `ListenerFlips`. `Stall` takes the job from a worker that lives on, `Crash` ends the worker.
`StageErrs` lets any statement come back with an error. The transcode children of a generation are four actions
(`Encodes`): they upload their playlists, are fenced out and complete without one, finish late, or fail the parent. `SweepScan`, `SweepLook`,
`SweepFlip` are the three reads and writes of reconcile-processing. `AskReprocess` and `CommitReprocess` are the two
halves of a request, so two requests may overlap.

**RenditionEncode.** The same style, inside one transcode job. `chunks` are the child jobs' outputs in the raw
bucket, `playlist` the rendition playlist. While FFmpeg runs, `Poll` is a scan that finds a few more
segments and `UploadSegment` the end, good or bad, of one upload in flight; `EncodeEnds` is `stop(true)` with its last scan, `UploadPlaylist` and
`UploadFails` what follows the wait for idle. Names are queued and served in order, so two counters stand for the queue and the set of queued names.

**NoticeDelivery.** `Change` is any transaction that commits an outbox row; `Add` the row's job being added, by the writer or by a relay;
`RelayMark` the relay's mark. How far each relay is in its batch is not kept, because every further add of a known id is ignored. `Deliver` gives a job to an execution, `ClaimStep` to `Finish`
are `processNotifyJob`, `Park` and `MarkStep` the failed listener, `Replay` and `Discard` the operator, in any status of the entry, since the code does not compare it. All notices of the video share the
one step row, as in the code. A job id is an event with a count of replays, as `ids.notify` and `generateReplayJobId` make it, so an event may happen, and a dead letter be replayed, again under an id the queue knows. What a failed attempt leaves, `dlq[a]`, names its job.

**LiveBroadcast.** `stream`, `video` and `outbox` are rows; `store` the objects of a broadcast: media, the archive's state, the two playlists and the master playlist. `calls` are the gateway's auth
calls under way in the API (`HookAsk` reads and decides, `HookGoLive` is the compare-and-set, `PublisherReady` the publisher admitted earlier). `run[r]` is an execution of the live stage with its session and the
uploader's queue. Each object is stored by its own `Upload`; behind a failed one nothing is written. `Closed` ends a segment: media first, then the state, then the archive playlist. `EncoderStops` covers the
end of the input, an FFmpeg failure, the longest broadcast and an abort. `CheckPublisher` to `KickOrphan` are the rest of the stage in its order. A recorded segment is its place in the archive and the epoch that wrote it.

**CaptionTrack.** `track[t]` is a row with its version, `file[l]` who wrote the public `.vtt` of a language, `call[k]` one call of the creator (or the probe) between its reads and its writes. `asked[v]` is what the jobs of
version `v` carry: their ids name the version and not the track. A run is one job, or a merge over its windows. `Deliver` reads the track, claims the step or skips; `UploadTrack` writes the file, `CommitTrack` the row by
compare-and-set on the version, `FailTaken`, `DisableSilentTrack`, `Settle` and `Purge` the rest. `Listener` runs for every failed attempt at any later time; it fails the track only for the last one.

**EventConnection, UserEventStream.** `conn` is the connection: `buffer` until the opening is sent, `lossy` and `queue` behind a slow reader, `wire` what the browser has not taken. `Draw` takes the lock and the number, `Commit` the
row with its announcement; `PublishCue` is the relay, which may do it twice, `LoseCue` a message Redis could not hand on. `Connect` registers, `ReadOpening` reads, `GoLive` sends the opening and what came meanwhile. `ReadPage` is a page's
answer in the database and `TakePage` its arrival: rows are committed, and cues come, between the two. `Prune` assumes that no relay, read or open stream lasts as long as the retention (days). A `tab` has a role in the Web Lock's queue; `inbox` are channel messages on
their way, `heard` and `from` history: what its handlers were given, and up to where a page load or a refetch has spoken for it.

**VideoEventStream.** `kind` is chosen at the start and stays: an upload with progress or a broadcast with counts. `Authorise` reads the video row, `Register` comes after it, then `ReadLatest` and `ReadRows`. `LogTick` writes a decile's row and `SendTick` publishes it;
`Tick` has no number. `Finish` is the transition, `NoticeRead` and `NoticePublish` the notify stage, or the live worker's one publication. `Shown` is what the page makes of a frame. `owed` is history: what was published while this stream was registered.

**UploadSession.** Each request is a process: `CompleteLoads` reads the rows and decides, later steps act on
that decision. `Assemble` is CompleteMultipartUpload, idempotent while storage remembers the session; `Put` the
client's upload on a presigned URL of a single upload. `SweepAbandon`, `SweepMark`, `SweepCancel` are the three writes of the
reconciler. Only `videos.status` changes by CAS (`Transition`); `uploads.status` does not ask what it replaces.

**ViewBuffer.** A view is the viewer it counts, so "lost" and "twice" can be told. Each Redis script and the transaction of
`applyBatch` is one action; `ReadViews` and `ReadHours` are the reads of the batch's hashes, which come after the snapshot script and
are not atomic with it. `run[f]` is a flush with what it has read and what the ledger may forget by its clock. `Die` is an error or the end
of its worker between any two of its steps. `held` and `replays` are an API process's held views and the sets it is handing back. The HyperLogLog
that deduplicates viewers is taken to be exact: a viewer it wrongly takes for known is, for every guard, one who was counted.

## 3. The runs

| Run | What it asks | Instance | States |
|---|---|---|---|
| `step_lease` | is the fencing protocol right, freely delivered and under the outbox, the queue, notify and the dead letters | four executions; two events, up to two jobs, two attempts, one trouble | 80 thousand |
| `pipeline_faults` | does one generation keep the promise under a fault and errors anywhere, are orphans found | one generation, two attempts, one stall allowed, one fault, three tokens | 508 thousand |
| `pipeline_reprocess` | the same with two overlapping reprocesses, a delete, a rejected source | two generations, two requesters, one attempt, one fault, no errors | 273 thousand |
| `rendition_encode` | is DONE over a playlist and the playlist over its segments, are events right, does the job settle | two segments uploaded one at a time, two attempts, two faults, three tokens, everything may fail, chunked | 411 thousand |
| `upload_session` | who wins when completions, an abort and the sweep race | two completers, one aborter, both strategies, errors | 531 thousand |
| `view_buffer` | are views counted once, whatever dies | two viewers, two flushes at once, one API process with room for one view, three batch ids, two faults | 456 thousand |
| `live_broadcast` | do playlists name what is stored, does the archive survive, does a broadcast end | one broadcast and the stream after it, two attempts, segments of two parts, one trouble | 521 thousand |
| `caption_track` | is the creator's text safe, is every pending track settled | three calls, or two and a trouble; two workers, one language, sources with and without a window, silent or not | 486 thousand |
| `event_streams` | does the log reach the tabs of a browser in order and without a gap, whatever is lost, repeated, pruned or broken; are ticks in order and the latest kept behind a slow reader; does the end arrive | two tabs, three numbers of which one is of an unknown kind, two turns; an upload with two ticks and a trouble, one with a tick and two troubles, a broadcast with four counts and three | 309 thousand |
| `pipeline_fail_early`, `pipeline_rerun`, `captions_file` | one statement of the documents each, which the code does not keep | small | until the counterexample |

**What they show.** In `step_lease`: the row accepts one completion per time it becomes DONE, no zombie commits; the job that a row committed to the outbox names ends settled by the queue, whichever relay dies; and under any
number of stalls, deaths and replays the notify step is DONE only by an execution that published. In the pipeline runs: whatever stalls, crashes, errs or is asked for, the video moves by the
promise's edges alone, is READY only when a master stands over complete playlists and with the notice committed in the same
step, is published at most once per generation, its owner is not told of a READY that did not happen or does not play, and a video with no RUNNING step does not stay PROCESSING. In `rendition_encode`: no
worker leaves the step or the rendition DONE without a playlist, and no playlist, not even a zombie's, is there without every segment; there is at most one event per accepted completion. In
`upload_session`: the first move out of UPLOADING stands, the probe is dispatched with UPLOADED and once, an abort does not abandon a
multipart video that storage has assembled, and every upload ends. In `view_buffer`: at every moment a view the sketch holds is in exactly one of
the buffer, the batch under way and the counts, the hours agree with the totals, every recorded view reaches the counts, and an API process gives up a view
only when it stops or has no room. In `live_broadcast`: whatever write fails and whoever takes over, a playlist or an archive state names stored media only; with one execution at a time no recorded
segment is written again, what was recorded stays recorded, and READY stands over the closed archive of all of it; a broadcast ends unless its job is parked. In `caption_track`: once the creator's text is on a ready track, only
later calls of hers take it away, and no track stays pending for good. In `event_streams`: no tab goes past an event its handlers were not given, a stream never repeats or goes back, every logged event reaches each open tab or is refetched; behind a slow reader
ticks stay in order, the latest is kept, the end of a broadcast is not dropped, and a client of an upload learns of READY in the end.

**The disagreements with the documents** that a run shows, each by the violation of what is quoted in `PROJECT.json`:
a package attempt that fails with retries left turns the video FAILED; a reprocess is fenced by the step rows of the generation before
and stays PROBING; a captions run that lost to the creator's upload leaves its text in her public file.

Others that the modules have and no run states, because what follows from them is small or repaired:

- A fenced-out zombie purges the chunks of a rendition before it looks at the answer of its `complete` (`transcode.ts:268`, `:291`); the step's holder then finds no input. `docs/SDD.md:2288` calls two workers on one rendition harmless.
- A tab that takes over the user's stream resumes from the last id it handled itself (`user-event-source.ts:112`); `docs/SDD.md:2434` says the last id any tab saw. A lower id only means more to replay, but a tab that has handled none opens without an id and is told `fresh`.
- The snapshot of a video says what its row said before the stream was registered (`sse-service.ts:143`, `events.ts:40`), so READY can fall between the two, or be dropped under the id the snapshot took (`notify.ts:67`). `sse-service.ts:29-31` and `docs/SDD.md:2405` rule the gap out. The snapshot of the next stream repairs it, after the idle timeout: `UploadEndArrives`.
- The snapshot carries the newest id and is sent before the replay, so a stream cut in between comes back past the rows it was owed (`sse-service.ts:181`); `docs/SDD.md:2389` promises exactly the missed transitions.
- A viewer whose stream is renewed while a broadcast ends is not told of the end. `live-stage.ts:165` and `docs/SDD.md:2496` count on a status event that follows; none is published, and `use-live-video-events.ts:75-77` listens to none.
- A replay's job id is the dead letter's with a count behind it (`generateReplayJobId`, `job-contracts/src/index.ts:175`), so a second replay of an entry, or the replay of another attempt of the same job, names the job of the first one, and the queue ignores it for as long as it keeps that job; the entry says REPLAYED all the same. `dlq-service.ts:77` and
  `docs/SDD.md:1915` speak of a fresh id.

**What the properties leave out, and why.** Each of these is a behaviour of the code that the modules have and a property excuses:

- `PendingSettles` excuses a track whose failed listener was lost (the reconciler's re-add is refused while the queue keeps the failed job) and one whose run's id is known from a deleted track:
  ids and step rows carry the version and not the track, so a generated track that is deleted and asked for again starts at version 1 with ids already used.
- `BroadcastsEnd` excuses what `Parked` says. An error in the last attempt's finalize, or a permanent FFmpeg failure in an earlier one, parks the job with the stream LIVE.
- `OrphanIsDropped` speaks of untroubled runs: a death between the row's end and the kick, a failed kick (only logged), or a publisher admitted before the end that sends after the kick leave an orphan on the key.
- The second part of `ListedMediaStands`, `ReadyPlays` and `ArchiveOnlyGrows` speak of one execution at a time. A worker that loses its lock goes on packaging beside its successor, over one archive and under one epoch.
  `ArchiveOnlyGrows` claims that a closed archive stays closed only once the row has ended: a finalize that died before is reopened if the publisher came back.
- `DoneWasPublished` does not say that each event is told: all events of a video share one step row, and after one of them is DONE every later one is skipped.
- `OrphansAreFound` speaks of PROCESSING. A probe that used up its attempts before its first write leaves the video UPLOADED, and reconcile-uploads re-adds the job under an id the queue still knows.
- A second completion that comes between the update of the upload and that of the video is refused (`NotOpen`) where `docs/SDD.md:2332` has it answered with the status; nothing is lost by it.
- `EveryRowIsHandled` speaks of the job that a row names. The id of a notice is constant per video and event (`package.ts:207`), so the row of an event that happens again, like that of a second replay, may be answered by the job of the first time, settled or under way: nobody is told again.
- `LatestTickIsKept` excuses a numbered tick: it is dropped as written already when a snapshot took its id. `EndIsDelivered` speaks of streams registered at the time; the one message is not repeated for later ones.
- `NothingIsSkipped` and `EventsArrive` take a refetch to bring what was logged before it. On `fresh` the client refetches its video queries only, so they speak of events about videos.
- `SourceStands` is stated for multipart uploads: for a single one the abort deletes without looking.
- A video that is edited while its generated track is still pending (no document speaks of it): the edit takes the version on, so the run becomes stale, and a run asked for again replaces the text; hence `ready` in `CreatorsTextStands`.

### 3.1 Bounds, and why they are enough

- *Tokens* are finite names for UUIDs: a name is free again when no execution uses it and no row remembers it, which
  no guard of the code can tell from a fresh UUID. The least free name is taken, which breaks the symmetry between names. With two rows in `VideoPipeline`, three tokens leave
  at least one execution beside two remembered ones, and two or three at once before that: the owner of a job and a zombie.
- *Batches* are names for UUIDs in the same way: one is free again when neither the pointer, the ledger nor a run has it. Three let two runs hold different
  batches while the ledger remembers a third.
- *Outage* is FALSE: no batch stays applied and unreleased for `batchRetentionMs` (a day, 8640 flushes). `Age`, the passing of that day, also
  takes for granted that no single run lasts as long. The assumption is needed: with `Outage = TRUE` and two flushers TLC finds a double count (one run recognises, releases and forgets
  the batch that another has read and is still to apply).
- *Attempts, Events, MaxJobs* of `MCStepLease`: four executions are delivery, redelivery, retry and replay. The two events are `video.ready` and `video.failed`; with *MaxJobs* = 2 there are the jobs of both, or one and a replay of it, while rows for
  known jobs are committed again and again. With one trouble they never need more than four executions (`NoticeAssumption`). With *MaxJobs* = 3 (1.2 million states, too many for the liveness) TLC found the safety properties kept as well.
- *MaxTroubles* counts failed calls, stalls and crashes together: one is a fault at any point of every interleaving.
- *Segments* = 2 and *Concurrency* = 1 let an upload be in flight with one queued behind it at the last scan; `FinalScanErrs` is FALSE: the last `readdir` of the worker's own scratch directory succeeds. The assumption is needed: with TRUE a
  playlist goes up without its last segments.
- *MaxStreams* = 2: the broadcast and the stream that inherits its key. *MaxSegments* = 2 of *PartsPerSegment* = 2 let a retry find an archive with a segment, go on, and close one of its own; the live window of one segment makes
  listed and recorded differ. *MaxQueue* = 1 bounds how far the encoder runs ahead of the uploader (the code has no bound): the writes of one part and of the segment it closes are still all queued at once. *StallPlaces*: an execution may lose its lock once its row has ended; a lock lost while
  packaging doubles the session and makes the space too large, and those properties exclude it anyway (`overlap`).
- *MaxCalls*, *MaxEvents* of `CaptionTrack`: three calls, or two and a trouble. *Languages* is one: tracks of other languages meet this one only through the unique index, which `LanguageFree` and the language-less pending track exercise in one language.
  *Windows* = 1 is a run with a merge; more windows repeat it.
- *Tabs, MaxTurns* of `UserEventStream`: two tabs, and two turns that open a tab or go wrong: a leader and a follower that takes over, or one tab and one fault. *MaxEvents* = 3: one event before, at and after each step of a handover or a replay. *ReplayLimit* = 1, *WireLimit* = 1 and *MaxPending* = 1 or 2 put
  every limit within reach of those events: a second page, a full socket, a backlog that costs the stream. *MaxPosted* bounds the channel: the leader takes no frame while another tab has that many messages to hear, which a browser does not do; the tab may still be behind by one.
- *MaxTicks, MaxCounts, MaxTroubles, Remembered, MaxWaiting* of the video streams, in `MCEventStreams`: behind a snapshot on the wire a second tick replaces the first; liveness is asked of the upload with one tick, which leaves room for two troubles; a broadcast's four counts fill its backlog of two
  (*MaxWaiting*). What each of the three takes of the common bounds is `Within`; it cuts the space for TLC and is not used in the proofs.
- *MaxFaults* bounds stalls and crashes together. One is enough for a zombie beside its replacement and for a
  crash at every point; two in `RenditionEncode` give a zombie whose replacement also dies, and two in `ViewBuffer` a flush that dies and another that dies while it takes up the batch.
- *MaxAttempts* is 2 where a retry matters (the policies have 3 to 5; one value serves probe and package, which the code gives their own).
- *MaxStalled* is 1 (the registry says 2): one redelivery, then failure on behalf of the dead worker.
- *MaxGen* is 2: the first upload and a reprocess, by two requesters that may compute the same generation.
- Jobs are kept for a day or a week after they end; within a run that is for ever. Step rows are kept while the video is.
- Time thresholds (hours for the sweeps, minutes for locks) are left out: a sweep or a stall may come at any time, which includes the right time.
- `Chunked = FALSE` is a run of `RenditionEncode` without the purge and the missing-chunk path; the chunked one includes its behaviours otherwise.
- Deadlock checking is off: each instance ends when the work is done and the bounds are used up.

### 3.2 Fairness, and why the code justifies it

Workers poll: a waiting job is taken up (`StartJob`), and a running execution takes its next step or errs
(`Stages(t) \/ StageErrs(t)`), since every I/O call of the adapters has a timeout. Node runs the listeners of an
event it emitted (`Listeners`). The relay and the reconcilers are on timers (`RelayPublish`, which must at some time get to mark the row, and the sweeps). Encodes
end, by completing, being fenced or failing; FFmpeg has a hard timeout. All of it is weak fairness of one process's next step. Stalls,
crashes, errors, rejections, requests, clients and expiries owe nothing. In `UploadSession` only the reconciler's first statement is fair.
In `NoticeDelivery` the adds of the relay, deliveries, the stage's steps and its listeners are fair, an operator and the writer's direct add owe nothing.
`LiveBroadcast` asks that the relay publishes, a free worker takes the job, each execution takes its next step and each uploader writes; an encoder stops at `maxBroadcastMs` at the latest, so `EncoderStops` is among them, and nobody has to publish, leave or stop.
`CaptionTrack` asks one thing: the platform (workers, queue, listeners, the reconciler's schedule) does not rest while any of it can move. Since calls and troubles are bounded and each job has finitely many attempts, everything it can do
comes to be done, so this is as good as fairness for each worker.
In the free setting of `MCStepLease` nothing is asked to come about, so nothing is fair there. In the stream modules transactions end, the relay publishes, the process, the database and the idle timer do their next step, sockets drain and browsers deliver and retry (EventSource and `retryLater` do); nobody has to log an event, open a tab or close one. `NoticePublish` is fair with its
retries because the notify job is retried (`NoticeDelivery`).
In `ViewBuffer` the flush is (the scheduler starts one every ten seconds) and so is the passing of days; viewers and hand-backs owe nothing.

## 4. The proofs

Each proof module extends the module it is about and assumes of the constants only what that module's named `ASSUME` says;
where a theorem needs more, the hypothesis is in its statement. None assumes a bound: tokens, generations, calls, streams, segments, windows and troubles
are arbitrary sets and numbers. In each, an inductive invariant `IInv` is proved from `Init` and kept by every action, one lemma or step per action, and the properties
follow from it. TLC checked every `IInv` on the instances of section 3 before it was proved. A theorem has the conclusion named in the tables; `Inductive` (`Spec => []IInv`, in `ViewBufferProofs` `Invariant`) comes before them in each module.

### 4.1 The fence

`StepLeaseProofs` proves, from `UnclaimedAssumption` (no execution's token is the null token) and for any set of executions,
finite or not:

| Theorem | States |
|---|---|
| `TypeCorrect` | `Spec => []TypeOK` |
| `EffectivelyOnce` | `Spec => []CommitLedger` |
| `RowIsItsHolders` | `Spec => []RowNamesItsHolder` |
| `ZombiesAreFenced` | `Spec => ZombieNeverCommits` |
| `FinishedStepsStayFinished` | `Spec => DoneIsNotReclaimed` |
| `NoticeKeepsLease` | `NoticeSpec => [](IInv /\ DoneWasSaid)` |
| `ViewersWereTold` | `NoticeSpec => []DoneWasPublished` |

`CommitLedger` and `RowNamesItsHolder` are not inductive: from a row that a superseded token could hold again, a zombie could commit. `IInv`
adds what rules that out: an execution that has not claimed is nobody's token (neither in the row nor among the superseded), so a claim always brings a new token and a superseded one
never returns to the row (`Freshness`); while its claimant works a row is not DONE (`HolderNotDone`); a row some claim made names an execution (`ClaimedByAttempt`). `RowNamesItsHolder` and `DoneIsNotReclaimed` are stated by the theorems alone; no run spends time on them. The two action properties follow from
the definition of the actions together with `IInv`: a zombie is in `superseded`, the row's token is not, so `Holds` is
false for it.

`NoticeDelivery` changes the row and the executions by actions of `StepLease` and in two ways besides: an execution that never claimed may end (`ClaimErrs`, `Die`), and a report may be owed for an execution (`Stall` and its like).
`AsideFromTheLease` shows that neither touches `IInv`, so `NoticeKeepsLease` carries it over to the notify stage under its outbox, queue, stalls, dead letters and replays. `ViewersWereTold` then rests on the order in `notify.ts`: an execution completes after it published, and the row's
token is that of the execution that completed it. (`DoneWasSaid` is the property without its excuse for a row no job of the queue has touched.)

### 4.2 The view counts

`ViewBufferProofs` proves, from `ViewAssumption`, for any sets of viewers, API processes, flushes and batches and any
number of faults:

| Theorem | States |
|---|---|
| `TypeCorrect` | `Spec => []TypeOK` |
| `ViewsAreExact` | `Outage = FALSE /\ Spec => []NeitherLostNorDoubled` |
| `LossHasCause` | `Spec => LossNeedsCause` |

`NeitherLostNorDoubled` alone does not survive an `Apply` of something else than the batch under way. `IInv` adds that a run whose batch is not in the ledger
holds the batch under way and has read exactly what is staged there (`ReadsAreFaithful`), although another run may have released its batch between two reads: by then
the batch is in the ledger, and the transaction does nothing. That argument ends when the ledger forgets, so `IInv` also
says that no run and no pointer names a batch that the ledger is about to forget (`NobodyNeedsTheForgettable`); this is the conjunct that an outage would break, and the reason for the hypothesis.
`RecordingPreserves` does what API processes do, `FlushPreserves` what flushes do. The types, and that a process gives up a view only when it stops or has no room, do not depend on the ledger and are proved with an outage too.

### 4.3 The encode of a rendition

`RenditionEncodeProofs`, from `EncodeAssumption`, `UploaderAssumption` and `JobAssumption`, for any tokens (executions), segments, places in the pool, stalls and crashes:

| Theorem | States |
|---|---|
| `TypeCorrect` | `Spec => []TypeOK` |
| `DoneIsComplete` | `~FinalScanErrs /\ Spec => []DoneHasPlaylist` |
| `EventsAreFenced` | `Spec => []EventsFollowCommits` |

The argument for `DoneHasPlaylist` runs from the uploader outwards. The pool's counters are sound: it has taken no more than was queued, has in flight only what it took, and never more than its places (`UploadersAreSound`; `TakingIsSound` and its
neighbours are the lemmas on the pool's operators). What it took and has no longer in flight is stored, unless it is broken (`SentIsThere`). After the last scan it has seen every segment (`DrainingHasSeenAll`), which is where the hypothesis enters: a `readdir` that fails there is passed over. So an idle,
unbroken uploader has stored them all, the playlist comes after that (`SegmentsBehind`), and DONE after the playlist (`PlaylistBehind`). Objects are never taken away, so zombies need no fence here. `EventsFollowCommits` needs the fence: a working execution whose token is in the row finds it
not DONE (`FenceHolds`), and the executions that were accepted and have not sent their event are counted with the events sent (`EventsOwed`).

### 4.4 The upload session

`UploadSessionProofs`, from `UploadAssumption`, for any number of requests to complete and to abort:

| Theorem | States |
|---|---|
| `TypeCorrect` | `Spec => []TypeOK` |
| `SourceIsThere` | `Spec => []SourceStands` |
| `FirstOutcomeIsFinal` | `Spec => FirstOutcomeStands` |
| `AbortsSpareTheSource` | `Spec => AbortSparesAssembled` |

Only the video's CAS orders the requests; the rest they decided on before. `IInv` therefore says what a request still knows where it stands (`SourceAsSeen`): a completion past its look at the object found it right or is on its way to reject it, an abort past its look at storage found a session
nobody can assemble any more. Storage settles the race: an object exists only when its session was completed, and then no abort gets an answer that the session is gone and nothing there (`AssembledOnce`). `upload.status` is written without asking what it replaces, hence `RecordStands`: while the video is UPLOADING nobody but the
sweep, which has abandoned it first (`SweepAbandonedIt`), undoes a completion's record. `ProbeIsOwedOnce` ties the outbox to the move out of UPLOADING.

### 4.5 The pipeline and the promise

`VideoPipelineProofs`, from `PipelineAssumption` and `JobAssumption`, for any number of generations, tokens, requesters and faults, with errors, rejections and deletes or without:

| Theorem | States |
|---|---|
| `TypeCorrect` | `Spec => []TypeOK` |
| `GenerationsPublishOnce` | `Spec => []PublishedOnce` |
| `NoticeIsTrue` | `Spec => []NoticeFollowsReady` |
| `PipelineKeepsPromise` | `Spec => KeepsPromise` |
| `ReadyVideoPlays` | `Spec => [](video.status = "READY" => Plays /\ Announced)` |

What a package execution verified or wrote stands for good, since nothing takes a playlist or a master away (`Ladder`): so what is published plays (`PublishedPlays`), also when a zombie does it. `PublishedOnce` does not rest on the fence of the package step, since a late listener may open that
row again. It rests on the rendition rows: they are inserted once, so one probe execution in all is ever past that insert, only it turns the video PROCESSING, and nothing is published before (`AcceptedOnce`). That is
also why a reprocess does not publish again (the finding of `pipeline_rerun`). A change to the probe that let a reprocess through would have to find another reason for `PublishedOnce`; the invariant says which.

The refinement is proved step by step: every action leaves status and notice alone and takes no object away (`Stands`), moves the status by an edge that asks nothing of the ladder (`Moves`), or publishes (`Publishes`); `StandsMaps`, `MovesMaps` and `PublishesMaps` turn each into a step or a stutter of `VideoLifecycle`, under the mapping of `Promise`.
`ReadyVideoPlays` is what a viewer gets from it.

### 4.6 A live broadcast

`LiveBroadcastProofs`, from `BroadcastAssumption` and `JobAssumption`, for any number of streams, executions, segments, parts and troubles, and any bound on the encoder's lead:

| Theorem | States |
|---|---|
| `TypeCorrect` | `Spec => []TypeOK` |
| `BroadcastMediaStands` | `Spec => []ListedMediaStands` |
| `ReadyBroadcastPlays` | `Spec => []ReadyPlays` |
| `OrphanDropped` | `Spec => []OrphanIsDropped` |
| `ArchiveGrows` | `Spec => ArchiveOnlyGrows` |

*Media* (`MediaStands`): a write in the uploader's queue names only media that are stored or stand before it in the queue, what a session may still list is stored or queued, and a store that took a write names stored media only. Behind a failed write nothing is written, so a queue may be cut off anywhere. This needs no lock.
*Segments* (`EpochsRise`, with `overlap` ruled out by `OneHolder`): a run that takes over reads the archive's state and starts an epoch above every recorded one, and a segment's name carries its epoch. *The archive* (`HolderKnows`): the writes of the one holder are in order, each extending what the one before recorded, the stored archive lags behind the stored state, and
once the row has ended it is sealed (closed, of all that was recorded), which `finalize` sees to before it ends the row; READY and `ArchiveOnlyGrows` follow. *The orphan* (`OrphanIsSeen`): while a publisher sends on the key of a stream that has not gone live, some execution of an ended broadcast is still before its kick. `RowsAgree` says that one stream at a time can be
idle or live, that a job exists for what went live only, and that whoever is past the end of the row finds it ended.

### 4.7 The caption tracks

`CaptionTrackProofs`, from `CaptionAssumption` and `JobAssumption`, for any number of calls, workers, windows, languages and troubles:

| Theorem | States |
|---|---|
| `TypeCorrect` | `Spec => []TypeOK` |
| `CreatorsTextIsKept` | `Spec => CreatorsTextStands` |

Versions are the heart of it. A run's compare-and-set on the version does not by itself protect the creator: two tracks may share a version, and a call that regenerates writes the row too. The invariant says that the track a run was asked for is pending at that version or deleted, or has gone past it (`RunsAreAsked`), so a run never commits
onto a ready row; that a `generate` without `overwrite` found nothing of the creator's on the version it is about to replace (`ConsentHolds`), so its own compare-and-set refuses when she was faster; and that a text of hers on a ready track is never labelled a run's (`KindsAgree`), on which that check relies. `TypeOK` holds since a track takes at most two versions per call,
one of the call and one of the run it asked for (`VersionsSuffice`): the bound on versions in the model cuts nothing off.

### 4.8 The stream of a user's events

`EventStreamProofs`, from `StreamAssumption`, for any number of tabs, events, lost messages, failed reads and broken links, and any size of a page, a socket, a backlog and a channel:

| Theorem | States |
|---|---|
| `TypeCorrect` | `Spec => []TypeOK` |
| `SkipsNothing` | `Spec => []NothingIsSkipped` |
| `StreamRises` | `Spec => []StreamIsInOrder` |

What a tab has not been given is a sequence, `Coming(t)`: for the tab that leads, the frames ahead of it on the stream (on the wire, in the backlog, in an opening that is read and not sent); for another, its channel messages and then those frames, since the leader posts what it hears. A tab has number j by the first n of them
(`HasBy`) if it went past j, refetched after j, or one of the n is j or tells it to refetch. The invariant says of every open tab that whatever is below a frame of that sequence has come before it (`Sound`), and that what the stream will not read any more, because it is behind the cursor or pruned, is somewhere in it (`NoGaps`).
A page, a replay and a refetch each continue such a sequence: their rows are whole between where they began and where they end (`PageIsWhole`), and the lock on the user keeps a number from being committed behind one that was read (`LogInOrder`). A slow reader cuts the stream off with a beginning of what it had to get (`Begins`), and a beginning of a sequence without gaps has none.
The rest is for the handover: a mark names a logged event (`MarksAreLogged`), one tab leads and the stream resumes from nothing it has not seen (`LeaderAgrees`), and what one tab has come to, another has or will hear from its channel before any new leader's stream reaches it (`Shared`), so whichever tab leads next may name its own last number. `Rising` gives the order, and
that a replay's numbers are new to its reader.

Frames are written, handed on and taken one after the other, by recursive functions over a sequence (`AllWritten`, `AllDispatched`, `AllTaken`). What they return for every sequence is proved without an induction theorem: `Trace` gives the states of such a run as a function, and `UpTo` says that a set of numbers that has 0 and, with each number up to n, the next one has them all, which follows from the least number it lacks (`LeastNumber`).

### 4.9 The stream of one video

The second half of `EventStreamProofs`, from `StreamAssumption` and `VideoAssumption`, for any number of ticks, counts and troubles and any size of a socket, a backlog and the memory of written ids:

| Theorem | States |
|---|---|
| `VideoStreamHolds` | `Video!Spec => [](Video!TypeOK /\ Video!TicksInOrder /\ Video!LatestTickIsKept /\ Video!EndIsDelivered)` |
| `StreamsTyped` | `MCSpec => []StreamTypeOK` |
| `StreamsRise` | `MCSpec => []OrderIsKept` |
| `NewestStays` | `MCSpec => []NewestIsKept` |

The first is about the module by itself; the others put it beside the user's stream, with `StreamsInv`: the invariant of whichever stream is under study.

`TicksInOrder` says that ticks rise along buffer, wire, lossy slot and queue put one behind the other. That is not inductive, because a frame moves between these places out of that order: a drained connection sends the lossy slot first, then the queue, and a new frame of a slow one goes to the slot or the queue by its kind. `VInv` says what makes the moves safe.
A stream's ticks are all of one sort (`Fits`): those of an upload may each be replaced by the next, those of a broadcast, like every status, wait in the queue; so slot and queue never both hold a tick and their order does not matter (`Tidy`). The slot holds one frame, both are empty unless the connection is slow, and what waits is newer than what is on the wire (`Under`).
The buffer is in use only while the stream opens, when the other three are empty, and the opening has no ticks (`StreamFits`, `Opens`): so neither handing on the buffer nor sending the opening can put an old tick behind a new one. What is published is newer than all of it, as every tick on its way was published before (`TicksFit`).

`LatestTickIsKept` and `EndIsDelivered` need the reason why a frame is not dropped. A frame is dropped when its id was written before, when a newer one takes its place in the slot, or with the whole connection when the queue is full. `OwedFits` says that what a stream is owed is the last tick of all that were published, so that whatever replaces it is owed in its place, and that it goes without an id, as does the end of a broadcast, so that neither is ever taken for written. (A numbered tick of an upload may be taken for written; once one is published, nothing is owed until the next without a number.) A closed connection is owed nothing.
`RowsFit` bounds the ids: each row belongs to a tick, or is the one row of the end, so `TypeOK` holds for any bounds and the bound on ids cuts nothing off.

What writing does to a connection is proved once, in lemmas about `EventConnection` (`AllWritten`, `AllDispatched`, `AllTaken` over every sequence), and each action of the viewer's stream then has a lemma of its own.

TLC checked `VInv` on two further instances, of 404 thousand and 1.8 million states, with sockets and backlogs of one and two frames, before it was proved. They led to one change of the model: `kind` was a constant and three instances stood side by side; as a variable one instance, and one proof, does for both kinds of video.

### 4.10 What only TLC checks

- Liveness, and what `ENABLED` is needed for, is out of the prover's reach: `EveryRowIsHandled`, `OrphansAreFound`, `SmoothUploadIsReady`, `EncodeSettles`, `UploadEnds`, `ViewsAreCounted`, `BroadcastsEnd`, `PendingSettles`, `UserEventsArrive`, `UploadEndArrives`.
- The three violations are counterexamples, not theorems.

## 5. Not modelled, and why

- In the view buffer: watch time of playback sessions and the retention hash (the same scripts carry both), videos deleted before their views are applied, and the pruning of old hours.
- In notify: webhooks, which follow the completion and are only logged when they fail (a crash in between loses them), and the notifications of comments, hearts and subscribers.
- In live streaming: chat, viewer counts, the schedule, rotation of the key, pictures. MediaMTX and FFmpeg are external.
- In captions: whisper, audio cutting, cue texts, the transcript search, the channel default.
- Thumbnail and chunk encodes: the same step protocol, or none, on objects nothing else guards.
- The admission limit per owner, priorities, backoff: they delay a job and change nothing it does. The hidden case, a video held back for good by its owner's
  other videos, is outside a one-video module.
- Restore and hard delete of videos, notification rows, metrics, logs, traces, playlist contents, FFmpeg.
- Smaller hazards that no property is about: overlapping reprocesses that commit one generation twice (`video-lifecycle.ts:53`), the unfenced rendition row (`postgres-rendition-repository.ts:50`), an old generation's listener that fails the new one (`failure-handler.ts:184`), the constant sequence in a notice's job id (`package.ts:207`), a merge that purges the windows of a newer run (`captions.ts:149`), events of other kinds lost to a `fresh` stream (`user-event-stream.tsx:55`), a broadcast page whose stream was refused (`use-live-video-events.ts:54`). The modules have these behaviours.
- In the event streams: heartbeats, the limits on connections (they refuse a stream, which `OpeningFails` covers), several keys of lossy frames at once, progress ticks on the user's stream (in no log, and each replaced by the next), the presence sets behind the viewer count, polling.
- Catalogue, search, comments, analytics, authentication, web clients: single-row requests, caches and user interface. They are by far the most lines of the repository, and a model of them would restate
  assignments.

## 6. Plan

In the order of what matters most; 1 to 12 are done.

1. `StepRow`, `StepLease` and its proofs: everything else rests on the fence.
2. `StageJob`, `VideoLifecycle`, `VideoPipeline`: the life of a video, with faults and with reprocesses; the refinement.
3. `RenditionEncode`: what the fence does not cover.
4. `UploadSession`.
5. `ViewBuffer` and its proofs.
6. `NoticeDelivery`, on top of `StepLease`: outbox, relays, notify, dead letters.
7. `SegmentUploader` inside `RenditionEncode`: no playlist without its segments.
8. `LiveBroadcast`.
9. `CaptionTrack`.
10. `EventConnection`, `UserEventStream`, `VideoEventStream`: the server-sent events.
11. Proofs about each module with a safety property: the encode, the upload session, the pipeline and its refinement, the broadcast, the caption tracks, the notify stage, the user's event stream.
12. The proofs about `VideoEventStream`: ticks in order and the latest kept behind a slow reader.
13. If room is left: the presence sets of live viewers, and playback sessions in `ViewBuffer`.
