---------------------------- MODULE LiveBroadcast ----------------------------
(***************************************************************************)
(* A channel's live broadcasts, one after another on one stream key: the   *)
(* gateway that asks the API to admit a publisher, the creator's stop, the *)
(* worker that packages the ingest, and the archive it leaves in storage.  *)
(*                                                                         *)
(* Database rows are written in transactions, the packager's objects one   *)
(* by one in the order of its queue.  An execution that lost its job's     *)
(* lock goes on: nothing here is fenced.                                   *)
(***************************************************************************)
EXTENDS Naturals, SequencesExt, StageJob

CONSTANTS MaxStreams,       \* bound: rows; the last one is never taken live
          Runs,             \* executions under way at once, numbers from 1
          PartsPerSegment,  \* segmentMs / partMs
          WindowSegments,   \* whole segments the live playlist lists
          PartSegments,     \* of those, how many have their parts listed
          MaxSegments,      \* bound: whole segments of a broadcast
          MaxQueue,         \* bound: writes queued when the encoder hands on
          MaxTroubles,      \* bound: stalls, crashes and failed calls
          StallPlaces,      \* bound: where an execution may lose its lock
          MayReject         \* whether FFmpeg may fail for good

ASSUME BroadcastAssumption ==
  /\ {MaxStreams, PartsPerSegment, WindowSegments} \subseteq Nat \ {0}
  /\ {PartSegments, MaxSegments, MaxQueue, MaxTroubles} \subseteq Nat
  /\ Runs \subseteq Nat \ {NoToken}
  /\ MayReject \in BOOLEAN

VARIABLES
  stream,      \* stream[s]: row s of live_streams, status and stopRequestedAt
  video,       \* video[s]: status of the video the broadcast made
  outbox,      \* streams whose job the relay has still to add
  job,         \* job[s]: the live job of stream s
  publishing,  \* the gateway has a publisher on the key's path
  calls,       \* auth calls of the gateway under way in the API
  store,       \* store[s]: the broadcast's objects in the public bucket
  run,         \* run[r]: an execution of the live stage
  faults,      \* stalls and crashes so far
  errors,      \* failed calls of database, store and gateway so far
  overlap,     \* history: an execution outlived its hold on the job
  slipped      \* history: a publisher admitted to a stream that had ended

rows == <<stream, video, outbox>>
gate == <<publishing, calls>>
counters == <<faults, errors, overlap, slipped>>
vars == <<rows, job, gate, store, run, counters>>

Streams == 1..MaxStreams
Broadcasts == 1..MaxStreams - 1

-----------------------------------------------------------------------------
(* Media and playlists.  Each run is an epoch with a directory of its own; *)
(* the sequence of segments goes on over the epochs.  A recorded segment   *)
(* is its place in the archive and the epoch that wrote it.                *)
InitKey(e) == <<e, 0, 0>>
SegmentKey(e, i) == <<e, i, 0>>
PartKey(e, i, p) == <<e, i, p>>

MediaKeys == Nat \X (0..MaxSegments) \X (0..PartsPerSegment)

Recorded(segs) == UNION {{InitKey(segs[i]), SegmentKey(segs[i], i)} : i \in DOMAIN segs}

(* renderLivePlaylist: the window, the parts of its newest segments that   *)
(* this run wrote, and the parts of the open segment.                      *)
Listed(segs, own, epoch, parts) ==
  LET n == Len(segs)
      window == {i \in 1..n : i + WindowSegments > n}
      partly == {i \in window : i > own /\ i + PartSegments > n}
  IN  (UNION {{InitKey(segs[i]), SegmentKey(segs[i], i)} : i \in window})
      \cup {PartKey(epoch, i, p) : i \in partly, p \in 1..PartsPerSegment}
      \cup {PartKey(epoch, n + 1, p) : p \in 1..parts}
      \cup (IF parts > 0 THEN {InitKey(epoch)} ELSE {})

EmptyStore == [media |-> {}, state |-> [epochs |-> 0, segs |-> <<>>],
               archive |-> [segs |-> <<>>, ended |-> FALSE],
               index |-> {}, master |-> "none"]

(* A write is the object and its body; storing it replaces the object.     *)
Put(object, body) == [object |-> object, body |-> body]
Stored(st, write) ==
  IF write.object = "media" THEN [st EXCEPT !.media = @ \cup {write.body}]
  ELSE [st EXCEPT ![write.object] = write.body]

(* writeLiveArchive: the state before the playlist.                        *)
ArchiveWrites(epochs, segs, ended) ==
  <<Put("state", [epochs |-> epochs, segs |-> segs]),
    Put("archive", [segs |-> segs, ended |-> ended])>>

-----------------------------------------------------------------------------
NoRun == [pc |-> "idle", stream |-> 1, last |-> FALSE, keyed |-> FALSE,
          epoch |-> 0, own |-> 0, segs |-> <<>>, parts |-> 0,
          queue |-> <<>>, broken |-> FALSE, outcome |-> "ok"]

RunPlaces == {"idle", "load", "wait", "open", "connect", "encode", "drain", "check",
              "lastKick", "archive", "closing", "flip", "next", "kick"}

TypeOK ==
  /\ stream \in [Streams -> [status : {"NONE", "IDLE", "LIVE", "ENDED"}, stop : BOOLEAN]]
  /\ video \in [Streams -> {"none", "LIVE", "READY", "FAILED"}]
  /\ outbox \subseteq Streams
  /\ job \in [Streams -> StageJobs(Runs)]
  /\ {publishing, overlap, slipped} \subseteq BOOLEAN
  /\ calls \subseteq [at : {"goLive", "admitted"}, stream : Streams]
  /\ \A s \in Streams :
       /\ store[s].media \cup store[s].index \subseteq MediaKeys
       /\ store[s].master \in {"none", "index", "archive"}
  /\ \A r \in Runs :
       /\ run[r].pc \in RunPlaces
       /\ run[r].stream \in Streams
       /\ run[r].outcome \in {"ok", "transient", "permanent"}
       /\ run[r].parts \in 0..PartsPerSegment
  /\ faults \in 0..MaxTroubles /\ errors \in 0..MaxTroubles

(* The creator has opened the stream: the channel has its one open row.    *)
Init ==
  /\ stream = [s \in Streams |-> [status |-> IF s = 1 THEN "IDLE" ELSE "NONE", stop |-> FALSE]]
  /\ video = [s \in Streams |-> "none"]
  /\ outbox = {}
  /\ job = [s \in Streams |-> NewJob]
  /\ publishing = FALSE
  /\ calls = {}
  /\ store = [s \in Streams |-> EmptyStore]
  /\ run = [r \in Runs |-> NoRun]
  /\ faults = 0 /\ errors = 0
  /\ overlap = FALSE /\ slipped = FALSE

(* The row that holds the stream key (findByKey): the one open row.        *)
Open == CHOOSE s \in Streams : stream[s].status \in {"IDLE", "LIVE"}

MoreTrouble == faults + errors < MaxTroubles

(* A call of the database, the store or the gateway fails.                 *)
CallFails == MoreTrouble /\ errors' = errors + 1
NoError == UNCHANGED errors

-----------------------------------------------------------------------------
(* The gateway's auth calls.  An element of calls stands for any number of *)
(* calls at one point, so one of them may go on and leave the others.      *)
Call(point, s) == [at |-> point, stream |-> s]

Taking(call, more) == call \in calls /\ calls' \in {calls \cup more, (calls \ {call}) \cup more}

(* decideLiveGatewayCall on the row the key finds; a refusal changes       *)
(* nothing.  The gateway asks for a path that has no publisher.            *)
HookAsk ==
  /\ ~publishing
  /\ \/ stream[Open].status = "IDLE" /\ Open < MaxStreams
        /\ calls' = calls \cup {Call("goLive", Open)}
     \/ stream[Open].status = "LIVE" /\ ~stream[Open].stop
        /\ calls' = calls \cup {Call("admitted", Open)}
  /\ UNCHANGED <<rows, job, publishing, store, run, counters>>

(* goLive: the compare-and-set takes the row, and the video and the job's  *)
(* outbox row are of its transaction.  A call that lost to another looks   *)
(* again, and is admitted if the stream did go live: its two queries are   *)
(* one step, at the second, since no row becomes IDLE again.               *)
HookGoLive(s) ==
  /\ CASE stream[s].status = "IDLE" ->
            /\ stream' = [stream EXCEPT ![s].status = "LIVE"]
            /\ video' = [video EXCEPT ![s] = "LIVE"]
            /\ outbox' = outbox \cup {s}
            /\ Taking(Call("goLive", s), {Call("admitted", s)})
       [] stream[s].status = "LIVE" ->
            Taking(Call("goLive", s), {Call("admitted", s)}) /\ UNCHANGED rows
       [] OTHER -> Taking(Call("goLive", s), {}) /\ UNCHANGED rows
  /\ UNCHANGED <<job, publishing, store, run, counters>>

(* A publisher whose call was admitted starts to send.                     *)
PublisherReady(s) ==
  /\ Taking(Call("admitted", s), {})
  /\ publishing' = TRUE
  /\ slipped' = (slipped \/ stream[s].status # "LIVE")
  /\ UNCHANGED <<rows, job, store, run, faults, errors, overlap>>

(* A publisher leaves of its own accord, or is dropped by a kick.          *)
PublisherLeaves ==
  /\ publishing
  /\ publishing' = FALSE
  /\ UNCHANGED <<rows, job, calls, store, run, counters>>

(* haltBroadcast: the stop is recorded, and a reconnect is refused from    *)
(* then on.  The kick that follows, which may fail or find nobody, is a    *)
(* PublisherLeaves that may never come.                                    *)
StopRequest ==
  /\ stream[Open].status = "LIVE" /\ ~stream[Open].stop
  /\ stream' = [stream EXCEPT ![Open].stop = TRUE]
  /\ UNCHANGED <<video, outbox, job, gate, store, run, counters>>

RelayPublish(s) ==
  /\ s \in outbox
  /\ outbox' = outbox \ {s}
  /\ job' = [job EXCEPT ![s] = Added(@, "waiting")]
  /\ UNCHANGED <<stream, video, gate, store, run, counters>>

-----------------------------------------------------------------------------
(* The execution of the live stage.                                        *)
At(r, place) == run[r].pc = place
Of(r) == run[r].stream
Becomes(r, record) == run' = [run EXCEPT ![r] = record]
Goto(r, place) == Becomes(r, [run[r] EXCEPT !.pc = place])

(* The stage returns; only the owner of the job's lock settles it.         *)
Settle(r, outcome) ==
  /\ Becomes(r, NoRun)
  /\ job' = IF OwnedBy(job[Of(r)], r)
            THEN [job EXCEPT ![Of(r)] = Answered(@, outcome)] ELSE job

Returned(r, place) == Goto(r, place) /\ UNCHANGED job

(* An answer that takes no last attempt into account.                      *)
AlwaysRetried(r, outcome) == Settle(r, outcome)

(* A broadcast that is not over: the retry carries it on, and the last     *)
(* attempt drops the publisher and ends it.                                *)
Unsuccessful(r, outcome) ==
  IF run[r].last
  THEN Becomes(r, [run[r] EXCEPT !.pc = "lastKick", !.outcome = outcome]) /\ UNCHANGED job
  ELSE Settle(r, outcome)

StartJob(r) ==
  /\ At(r, "idle")
  /\ \E s \in Streams :
       /\ job[s].state = "waiting"
       /\ job' = [job EXCEPT ![s] = Taken(@, r)]
       /\ Becomes(r, [NoRun EXCEPT !.pc = "load", !.stream = s,
                                   !.last = job[s].attempts + 1 >= MaxAttempts])
  /\ UNCHANGED <<rows, gate, store, counters>>

(* An ended row has given its key away.                                    *)
LoadStream(r) ==
  /\ At(r, "load")
  /\ \/ /\ NoError /\ UNCHANGED job
        /\ IF stream[Of(r)].status = "ENDED" THEN Goto(r, "archive")
           ELSE Becomes(r, [run[r] EXCEPT !.pc = "wait", !.keyed = TRUE])
     \/ CallFails /\ Settle(r, "transient")
  /\ UNCHANGED <<rows, gate, store, faults, overlap, slipped>>

(* waitForPublisher: until somebody publishes, or the deadline.            *)
WaitForPublisher(r) ==
  /\ At(r, "wait")
  /\ \/ NoError /\ (IF publishing THEN Returned(r, "open") ELSE Unsuccessful(r, "transient"))
     \/ CallFails /\ Unsuccessful(r, "transient")
  /\ UNCHANGED <<rows, gate, store, faults, overlap, slipped>>

(* A session that keeps the epochs of the runs before it and not what they *)
(* recorded.                                                               *)
OpenFresh(r) ==
  /\ At(r, "open")
  /\ Becomes(r, [run[r] EXCEPT !.pc = "connect", !.epoch = store[Of(r)].state.epochs,
                               !.queue = <<Put("master", "index")>>])
  /\ UNCHANGED <<rows, job, gate, store, counters>>

(* The session carries on from the archive of the runs before it.          *)
OpenSession(r) ==
  LET archive == store[Of(r)].state IN
  /\ At(r, "open")
  /\ \/ /\ NoError /\ UNCHANGED job
        /\ Becomes(r, [run[r] EXCEPT !.pc = "connect",
                                     !.epoch = archive.epochs, !.segs = archive.segs,
                                     !.own = Len(archive.segs),
                                     !.queue = <<Put("master", "index")>>])
     \/ CallFails /\ Unsuccessful(r, "transient")
  /\ UNCHANGED <<rows, gate, store, faults, overlap, slipped>>

(* enqueue: behind a failed write nothing is written.                      *)
Enqueue(record, writes) ==
  IF record.broken THEN record ELSE [record EXCEPT !.queue = @ \o writes]

(* acceptInit.                                                             *)
AcceptInit(r) ==
  /\ At(r, "connect")
  /\ publishing
  /\ Becomes(r, Enqueue([run[r] EXCEPT !.pc = "encode"],
                        <<Put("media", InitKey(run[r].epoch))>>))
  /\ UNCHANGED <<rows, job, gate, store, counters>>

(* closeSegment: the segment, then the archive that records it.            *)
Closed(record) ==
  LET segs == Append(record.segs, record.epoch)
      media == Put("media", SegmentKey(record.epoch, Len(segs)))
  IN  Enqueue([record EXCEPT !.segs = segs, !.parts = 0],
              <<media>> \o ArchiveWrites(record.epoch + 1, segs, FALSE))

WithPart(record) ==
  LET media == Put("media", PartKey(record.epoch, Len(record.segs) + 1, record.parts + 1))
  IN  Enqueue([record EXCEPT !.parts = @ + 1], <<media>>)

WithPlaylist(record) ==
  LET body == Listed(record.segs, record.own, record.epoch, record.parts)
  IN  Enqueue(record, <<Put("index", body)>>)

(* Closes a segment one part late.                                         *)
AcceptPartLate(r) ==
  /\ At(r, "encode")
  /\ publishing
  /\ Len(run[r].segs) < MaxSegments /\ Len(run[r].queue) < MaxQueue
  /\ LET next == WithPart(run[r]) IN
     Becomes(r, WithPlaylist(IF next.parts > PartsPerSegment THEN Closed(next) ELSE next))
  /\ UNCHANGED <<rows, job, gate, store, counters>>

(* acceptPart: the last part of a segment closes it before the playlist is *)
(* written.                                                                *)
AcceptPart(r) ==
  /\ At(r, "encode")
  /\ publishing
  /\ Len(run[r].segs) < MaxSegments /\ Len(run[r].queue) < MaxQueue
  /\ LET next == WithPart(run[r]) IN
     Becomes(r, WithPlaylist(IF next.parts = PartsPerSegment THEN Closed(next) ELSE next))
  /\ UNCHANGED <<rows, job, gate, store, counters>>

(* The encoder stops: its input ended, it failed, the longest broadcast is *)
(* over or the uploader aborted it.  session.finish closes the segment     *)
(* being written, short as it is.                                          *)
EncoderStops(r) ==
  /\ run[r].pc \in {"connect", "encode"}
  /\ \E ran \in {"ok", "transient", "permanent"} :
       /\ ran = "ok" => ~publishing
       /\ ran = "permanent" => MayReject
       /\ LET last == IF run[r].parts > 0 THEN Closed(run[r]) ELSE run[r] IN
          Becomes(r, [last EXCEPT !.pc = "drain", !.outcome = ran])
  /\ UNCHANGED <<rows, job, gate, store, counters>>

(* An uploader that goes on behind a failed write.                         *)
UploadOn(r) ==
  /\ run[r].queue # <<>>
  /\ \/ store' = [store EXCEPT ![Of(r)] = Stored(@, Head(run[r].queue))] /\ NoError
     \/ CallFails /\ UNCHANGED store
  /\ Becomes(r, [run[r] EXCEPT !.queue = Tail(@)])
  /\ UNCHANGED <<rows, job, gate, faults, overlap, slipped>>

(* One write of the uploader's queue; the first that fails stops the rest. *)
Upload(r) ==
  /\ run[r].queue # <<>>
  /\ \/ /\ store' = [store EXCEPT ![Of(r)] = Stored(@, Head(run[r].queue))]
        /\ Becomes(r, [run[r] EXCEPT !.queue = Tail(@)])
        /\ NoError
     \/ /\ CallFails
        /\ Becomes(r, [run[r] EXCEPT !.queue = <<>>, !.broken = TRUE])
        /\ UNCHANGED store
  /\ UNCHANGED <<rows, job, gate, faults, overlap, slipped>>

Drained(r) ==
  /\ At(r, "drain") /\ run[r].queue = <<>>
  /\ IF run[r].broken THEN Unsuccessful(r, "transient") ELSE Returned(r, "check")
  /\ UNCHANGED <<rows, gate, store, counters>>

(* The broadcast is over unless the gateway says somebody still publishes; *)
(* a gateway that does not answer counts as nobody.                        *)
CheckPublisher(r) ==
  /\ At(r, "check")
  /\ IF publishing
     THEN \/ NoError /\ Unsuccessful(r, IF run[r].outcome = "ok" THEN "transient"
                                        ELSE run[r].outcome)
          \/ CallFails /\ Becomes(r, [run[r] EXCEPT !.pc = "archive", !.outcome = "ok"])
             /\ UNCHANGED job
     ELSE /\ Becomes(r, [run[r] EXCEPT !.pc = "archive", !.outcome = "ok"])
          /\ NoError /\ UNCHANGED job
  /\ UNCHANGED <<rows, gate, store, faults, overlap, slipped>>

(* kick: a failure is only logged.                                         *)
Kick ==
  \/ publishing' = FALSE /\ NoError
  \/ CallFails /\ UNCHANGED publishing

LastKick(r) ==
  /\ At(r, "lastKick")
  /\ Kick /\ Goto(r, "archive")
  /\ UNCHANGED <<rows, job, calls, store, faults, overlap, slipped>>

(* finalize: a new uploader closes the archive, if one was recorded.       *)
LoadArchive(r) ==
  LET archive == store[Of(r)].state
      writes == ArchiveWrites(archive.epochs, archive.segs, TRUE)
                  \o <<Put("master", "archive")>>
  IN
  /\ At(r, "archive")
  /\ \/ /\ NoError /\ UNCHANGED job
        /\ Becomes(r, [run[r] EXCEPT !.pc = "closing", !.segs = archive.segs, !.broken = FALSE,
                                     !.epoch = archive.epochs, !.parts = 0, !.own = 0,
                                     !.queue = IF archive.segs = <<>> THEN <<>> ELSE writes])
     \/ CallFails /\ Settle(r, "transient")
  /\ UNCHANGED <<rows, gate, store, faults, overlap, slipped>>

(* Ends the row without waiting for the uploader.                          *)
EndBeforeDrained(r) ==
  LET s == Of(r) IN
  /\ At(r, "closing")
  /\ Returned(r, "flip")
  /\ stream' = IF stream[s].status = "LIVE"
               THEN [stream EXCEPT ![s].status = "ENDED", ![s + 1].status = "IDLE"]
               ELSE stream
  /\ UNCHANGED <<video, outbox, gate, store, counters>>

(* end: the row ends and the next one takes its key.  A row that had ended *)
(* is left as it is.                                                       *)
EndStream(r) ==
  LET s == Of(r) IN
  /\ At(r, "closing") /\ run[r].queue = <<>>
  /\ \/ run[r].broken /\ Settle(r, "transient") /\ NoError /\ UNCHANGED stream
     \/ ~run[r].broken /\ CallFails /\ Settle(r, "transient") /\ UNCHANGED stream
     \/ /\ ~run[r].broken /\ NoError /\ Returned(r, "flip")
        /\ stream' = IF stream[s].status = "LIVE"
                     THEN [stream EXCEPT ![s].status = "ENDED", ![s + 1].status = "IDLE"]
                     ELSE stream
  /\ UNCHANGED <<video, outbox, gate, store, faults, overlap, slipped>>

(* The video becomes the archive, or fails if no segment was recorded.     *)
FlipVideo(r) ==
  LET s == Of(r)
      to == IF run[r].segs = <<>> THEN "FAILED" ELSE "READY"
  IN
  /\ At(r, "flip")
  /\ \/ /\ video' = IF video[s] = "LIVE" THEN [video EXCEPT ![s] = to] ELSE video
        /\ NoError
        /\ IF run[r].keyed THEN Returned(r, "next") ELSE Settle(r, run[r].outcome)
     \/ CallFails /\ Settle(r, "transient") /\ UNCHANGED video
  /\ UNCHANGED <<stream, outbox, gate, store, faults, overlap, slipped>>

(* Leaves whoever is on the key alone.                                     *)
NeverKicks(r) ==
  /\ At(r, "next")
  /\ Settle(r, run[r].outcome)
  /\ UNCHANGED <<rows, gate, store, counters>>

(* A publisher who is already live on the next row keeps its connection.   *)
LookAtNext(r) ==
  /\ At(r, "next")
  /\ \/ NoError /\ (IF stream[Open].status = "LIVE" THEN Settle(r, run[r].outcome)
                    ELSE Returned(r, "kick"))
     \/ CallFails /\ Returned(r, "kick")
  /\ UNCHANGED <<rows, gate, store, faults, overlap, slipped>>

KickOrphan(r) ==
  /\ At(r, "kick")
  /\ Kick /\ Settle(r, run[r].outcome)
  /\ UNCHANGED <<rows, calls, store, faults, overlap, slipped>>

(* The worker loses the job's lock and goes on, or dies with its queue.    *)
Lost(s) == job' = [job EXCEPT ![s] = Stalled(@)]

Stall(r) ==
  /\ OwnedBy(job[Of(r)], r) /\ run[r].pc \in StallPlaces /\ MoreTrouble
  /\ faults' = faults + 1 /\ overlap' = TRUE
  /\ Lost(Of(r))
  /\ UNCHANGED <<rows, gate, store, run, errors, slipped>>

Crash(r) ==
  /\ ~At(r, "idle") /\ MoreTrouble
  /\ faults' = faults + 1
  /\ Becomes(r, NoRun)
  /\ IF OwnedBy(job[Of(r)], r) THEN Lost(Of(r)) ELSE UNCHANGED job
  /\ UNCHANGED <<rows, gate, store, errors, overlap, slipped>>

-----------------------------------------------------------------------------
Progress(r) ==
  \/ LoadStream(r) \/ WaitForPublisher(r) \/ OpenSession(r) \/ EncoderStops(r)
  \/ Drained(r) \/ CheckPublisher(r) \/ LastKick(r) \/ LoadArchive(r)
  \/ EndStream(r) \/ FlipVideo(r) \/ LookAtNext(r) \/ KickOrphan(r)

Next ==
  \/ HookAsk \/ PublisherLeaves \/ StopRequest
  \/ \E s \in Streams : HookGoLive(s) \/ PublisherReady(s) \/ RelayPublish(s)
  \/ \E r \in Runs : \/ StartJob(r) \/ Progress(r) \/ Upload(r)
                     \/ AcceptInit(r) \/ AcceptPart(r)
                     \/ Stall(r) \/ Crash(r)

(* Workers take jobs, calls return, the uploader writes and the relay      *)
(* publishes.  An encoder stops at maxBroadcastMs at the latest.  Nobody   *)
(* has to publish, to leave or to stop a broadcast.                        *)
Fairness ==
  /\ \A s \in Streams : WF_vars(RelayPublish(s))
  /\ WF_vars(\E r \in Runs : StartJob(r))
  /\ \A r \in Runs : WF_vars(Progress(r)) /\ WF_vars(Upload(r))

Spec == Init /\ [][Next]_vars /\ Fairness

-----------------------------------------------------------------------------
(* A playlist and the archive's state name only media already stored, also *)
(* when a write fails and when two runs write one broadcast: the queue's   *)
(* promise (live-uploader.ts:9-10).  And while one execution at a time     *)
(* holds the broadcast, no segment the archive records is written again: a *)
(* run that takes over starts an epoch no recorded segment is of.          *)
ListedMediaStands ==
  /\ \A s \in Streams :
       store[s].index \cup Recorded(store[s].state.segs) \cup Recorded(store[s].archive.segs)
         \subseteq store[s].media
  /\ ~overlap =>
       \A r \in Runs : \A i \in DOMAIN run[r].queue :
         run[r].queue[i].object = "media"
           => run[r].queue[i].body \notin Recorded(store[Of(r)].state.segs)

(* A broadcast's video is READY only once its master playlist names a      *)
(* closed archive of every recorded segment.                               *)
ReadyPlays ==
  \A s \in Streams :
    video[s] = "READY" /\ ~overlap =>
      /\ store[s].master = "archive"
      /\ store[s].archive = [segs |-> store[s].state.segs, ended |-> TRUE]
      /\ store[s].state.segs # <<>>

(* What a broadcast recorded stays recorded over its retries, crashes and  *)
(* failed writes, and the closed archive of an ended stream stays closed.   *)
ArchiveOnlyGrows ==
  [][~overlap' => \A s \in Streams :
       /\ IsPrefix(store[s].state.segs, store'[s].state.segs)
       /\ IsPrefix(store[s].archive.segs, store'[s].archive.segs)
       /\ store[s].archive.ended /\ stream[s].status = "ENDED"
            => store'[s].archive.ended]_vars

(* A live video ends as an archive or a failure, whatever the publisher    *)
(* does, unless its job is parked before its last attempt (an error no     *)
(* retry would mend) or a call of an attempt's finalize failed.  So the    *)
(* last attempt does not leave it live (live-stage.ts:69).                 *)
Parked(s) == job[s].state = "failed" /\ (job[s].attempts < MaxAttempts \/ errors > 0)

BroadcastsEnd ==
  \A s \in Broadcasts : video[s] = "LIVE" ~> (video[s] # "LIVE" \/ Parked(s))

(* When the jobs of all broadcasts have settled, no publisher is left on   *)
(* the key of a stream that has not gone live: it was dropped, so that it  *)
(* authenticates again as the next stream.  True where no worker was lost, *)
(* no call failed and no publisher came later than its admission.          *)
Untroubled == faults = 0 /\ errors = 0 /\ ~slipped
Orphaned == publishing /\ stream[Open].status = "IDLE"

OrphanIsDropped ==
  Untroubled /\ (\A s \in Streams : ~Live(job[s])) => ~Orphaned
=============================================================================
