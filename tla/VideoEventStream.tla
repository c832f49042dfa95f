-------------------------- MODULE VideoEventStream --------------------------
(***************************************************************************)
(* GET /v1/videos/:id/events: one viewer's stream of one video, from the   *)
(* request over its snapshot and replay to the live frames, while the      *)
(* video is processed or broadcast and its end is published.               *)
(*                                                                         *)
(* There is no cue here: what is published on the channel is what a stream *)
(* writes, and it drops a number it has written before.  A tick is the     *)
(* progress of an upload's rendition or the viewer count of a broadcast.   *)
(***************************************************************************)
EXTENDS Naturals, Sequences, FiniteSets

CONSTANTS MaxTicks,      \* bound: progress ticks of an upload
          MaxCounts,     \* bound: viewer counts of a broadcast
          MaxTroubles,   \* bound: failed calls, lost messages, broken links
          WireLimit,     \* frames a socket takes before it asks to wait
          MaxPending,    \* maxPendingFrames
          Remembered     \* rememberedIds

VARIABLES
  kind,      \* "upload" or "live"
  status,    \* the videos row
  rows,      \* its video_events: "tick" or "ready"
  ticks,     \* ticks published so far
  unsent,    \* rows of ticks not published yet
  notice,    \* what the worker has still to say of the end
  session,   \* the status `openVideoStream' authorised on
  conn,      \* the stream's connection in its API process
  opening,   \* what `open' has read for it
  source,    \* the page's EventSource
  page,      \* what the page shows
  owed,      \* history: what was published to this stream
  troubles

video == <<kind, status, rows, ticks, unsent, notice>>
stream == <<session, conn, opening, source>>
vars == <<video, stream, page, owed, troubles>>

Link == INSTANCE EventConnection WITH Logged <- FALSE

Running == IF kind = "live" THEN "LIVE" ELSE "PROCESSING"
Statuses == {"PROCESSING", "LIVE", "READY"}
Ids == 1..(MaxTicks + 1)
Most == IF kind = "live" THEN MaxCounts ELSE MaxTicks

(* `says' is the status a snapshot or a status frame carries.  A frame     *)
(* "ended" is live.status, which carries no number.  A published tick has  *)
(* its place in the order of publication, one of a replay has none.        *)
Frames == [id : Ids \cup {0}, kind : {"snapshot", "tick", "status", "ended"},
           says : Statuses \cup {"none"}, tick : Nat, lossy : BOOLEAN]
Snapshot(i, says) == [id |-> i, kind |-> "snapshot", says |-> says, tick |-> 0, lossy |-> FALSE]
StatusFrame(i) == [id |-> i, kind |-> "status", says |-> "READY", tick |-> 0, lossy |-> FALSE]
EndedFrame == [id |-> 0, kind |-> "ended", says |-> "none", tick |-> 0, lossy |-> FALSE]
TickFrame(i, n, lossy) ==
  [id |-> i, kind |-> "tick", says |-> "none", tick |-> n, lossy |-> lossy]

NotRead == [at |-> "latest", frames |-> <<>>]
Nothing == [ended |-> FALSE, tick |-> 0]

TypeOK ==
  /\ kind \in {"upload", "live"} /\ status \in {Running, "READY"}
  /\ rows \in Seq({"tick", "ready"}) /\ ticks \in 0..Most /\ unsent \subseteq DOMAIN rows
  /\ notice \in [at : {"none", "due", "read", "sent"}, id : Ids \cup {0}]
  /\ session \in Statuses \cup {"none"}
  /\ conn \in Link!Connections(Frames, Ids)
  /\ opening \in [at : {"latest", "rows", "ready"}, frames : Seq(Frames)]
  /\ source \in [state : {"waiting", "asking", "connected", "closed"}, lastId : Ids \cup {0}]
  /\ page \in [shows : Statuses \cup {"none", "ENDED"}, tick : Nat]
  /\ owed \in [ended : BOOLEAN, tick : Nat]
  /\ troubles \in 0..MaxTroubles

(* A page that was loaded while the video was running opens its stream.    *)
Init ==
  /\ kind \in {"upload", "live"}
  /\ status = Running
  /\ rows = <<>> /\ ticks = 0 /\ unsent = {} /\ notice = [at |-> "none", id |-> 0]
  /\ session = "none" /\ conn = Link!Closed /\ opening = NotRead
  /\ source = [state |-> "waiting", lastId |-> 0]
  /\ page = [shows |-> Running, tick |-> 0]
  /\ owed = Nothing /\ troubles = 0

Trouble == troubles < MaxTroubles /\ troubles' = troubles + 1
NoTrouble == UNCHANGED troubles

-----------------------------------------------------------------------------
(* The video.                                                              *)
Hears == conn.phase \in {"opening", "live"}
Publish(f) == conn' = Link!LiveEvent(conn, f)

MoreTicks == ticks + Cardinality(unsent) < Most

(* An unnumbered tick: a sample between two deciles, or a viewer count.    *)
Tick ==
  /\ MoreTicks
  /\ kind = "live" => status = "LIVE"
  /\ ticks' = ticks + 1
  /\ Publish(TickFrame(0, ticks + 1, kind = "upload"))
  /\ owed' = IF Hears THEN [owed EXCEPT !.tick = ticks + 1] ELSE owed
  /\ UNCHANGED <<kind, status, rows, unsent, notice, session, opening, source, page, troubles>>

(* report at a decile: the row first.  An encode that lost its step goes   *)
(* on reporting after the video is READY.                                  *)
LogTick ==
  /\ kind = "upload" /\ MoreTicks
  /\ rows' = Append(rows, "tick")
  /\ unsent' = unsent \cup {Len(rows) + 1}
  /\ UNCHANGED <<kind, status, ticks, notice, stream, page, owed, troubles>>

SendTick(i) ==
  /\ i \in unsent
  /\ unsent' = unsent \ {i}
  /\ ticks' = ticks + 1
  /\ Publish(TickFrame(i, ticks + 1, TRUE))
  /\ owed' = [owed EXCEPT !.tick = 0]
  /\ UNCHANGED <<kind, status, rows, notice, session, opening, source, page, troubles>>

(* transition to READY, with its row; the worker then has the end to tell. *)
Finish ==
  /\ status = Running
  /\ status' = "READY"
  /\ rows' = Append(rows, "ready")
  /\ notice' = [notice EXCEPT !.at = "due"]
  /\ UNCHANGED <<kind, ticks, unsent, stream, page, owed, troubles>>

(* notify borrows the number of the video's latest row; one that cannot be *)
(* read is left out.                                                       *)
NoticeRead ==
  /\ kind = "upload" /\ notice.at = "due"
  /\ \/ notice' = [at |-> "read", id |-> Len(rows)] /\ NoTrouble
     \/ notice' = [at |-> "read", id |-> 0] /\ Trouble
  /\ UNCHANGED <<kind, status, rows, ticks, unsent, stream, page, owed>>

(* A worker that dies after it published does it again.                    *)
NoticePublish ==
  /\ notice.at = (IF kind = "live" THEN "due" ELSE "read")
  /\ Publish(IF kind = "live" THEN EndedFrame ELSE StatusFrame(notice.id))
  /\ owed' = [owed EXCEPT !.ended = Hears]
  /\ \/ notice' = [at |-> "sent", id |-> 0] /\ NoTrouble
     \/ notice' = [at |-> "due", id |-> 0] /\ Trouble
  /\ UNCHANGED <<kind, status, rows, ticks, unsent, session, opening, source, page>>

(* The message is lost on its way; that of a broadcast is not even retried *)
(* when the call fails.                                                    *)
NoticeLost ==
  /\ notice.at = (IF kind = "live" THEN "due" ELSE "read")
  /\ Trouble
  /\ notice' = [at |-> "sent", id |-> 0]
  /\ UNCHANGED <<kind, status, rows, ticks, unsent, stream, page, owed>>

-----------------------------------------------------------------------------
(* The stream.                                                             *)

(* openVideoStream reads the video before the hub knows of the request.    *)
Authorise ==
  /\ source.state = "waiting"
  /\ session' = status
  /\ source' = [source EXCEPT !.state = "asking"]
  /\ UNCHANGED <<video, conn, opening, page, owed, troubles>>

Register ==
  /\ source.state = "asking"
  /\ conn' = Link!Registered
  /\ source' = [source EXCEPT !.state = "connected"]
  /\ UNCHANGED <<video, session, opening, page, owed, troubles>>

(* No snapshot for a client that comes back.                               *)
ReadLatestBare ==
  /\ conn.phase = "opening" /\ opening.at = "latest"
  /\ opening' = IF source.lastId = 0 THEN [at |-> "ready", frames |-> <<Snapshot(Len(rows), session)>>]
                ELSE [at |-> "rows", frames |-> <<>>]
  /\ UNCHANGED <<video, session, conn, source, page, owed, troubles>>

(* The snapshot says what the row said then, with the number that is the   *)
(* latest now; a number that cannot be read is left out.                   *)
ReadLatest ==
  /\ conn.phase = "opening" /\ opening.at = "latest"
  /\ \E i \in {Len(rows), 0} :
       /\ opening' = [at |-> IF source.lastId = 0 THEN "ready" ELSE "rows",
                      frames |-> <<Snapshot(i, session)>>]
       /\ IF i = Len(rows) THEN NoTrouble ELSE Trouble
  /\ UNCHANGED <<video, session, conn, source, page, owed>>

(* mapEventToSse.                                                          *)
RowFrame(i) == IF rows[i] = "ready" THEN StatusFrame(i) ELSE TickFrame(i, 0, FALSE)

(* findAfterId: the rows behind the number the browser came back with.     *)
ReadRows ==
  /\ conn.phase = "opening" /\ opening.at = "rows"
  /\ LET missed == [k \in 1..(Len(rows) - source.lastId) |-> RowFrame(source.lastId + k)] IN
     opening' = [opening EXCEPT !.at = "ready", !.frames = @ \o missed]
  /\ UNCHANGED <<video, session, conn, source, page, owed, troubles>>

(* An error before the stream is open.  EventSource gives up on it, and    *)
(* useLiveVideoEvents does not open another; another client may.           *)
OpeningFails ==
  /\ source.state = "asking" \/ conn.phase = "opening"
  /\ Trouble
  /\ conn' = Link!Closed /\ opening' = NotRead /\ session' = "none" /\ owed' = Nothing
  /\ source' = [source EXCEPT !.state = IF kind = "live" THEN "closed" ELSE "waiting"]
  /\ UNCHANGED <<video, page>>

(* A stream without a log has no use for the cursor.                       *)
GoLive ==
  /\ conn.phase = "opening" /\ opening.at = "ready"
  /\ conn' = Link!WentLive(conn, opening.frames, 0)
  /\ opening' = NotRead /\ session' = "none"
  /\ owed' = IF conn'.phase = "live" THEN owed ELSE Nothing
  /\ UNCHANGED <<video, source, page, troubles>>

Drain ==
  /\ conn.phase = "live" /\ conn.slow /\ conn.wire = <<>>
  /\ conn' = Link!Drained(conn)
  /\ UNCHANGED <<video, session, opening, source, page, owed, troubles>>

(* The idle timer, which nothing puts off.                                 *)
Retire ==
  /\ conn.phase = "live"
  /\ conn' = Link!Ended(conn)
  /\ UNCHANGED <<video, session, opening, source, page, owed, troubles>>

ComeBack ==
  /\ conn.phase = "ended" /\ conn.wire = <<>>
  /\ conn' = Link!Closed /\ owed' = Nothing
  /\ source' = [source EXCEPT !.state = "waiting"]
  /\ UNCHANGED <<video, session, opening, page, troubles>>

Break ==
  /\ source.state = "connected"
  /\ Trouble
  /\ conn' = Link!Closed /\ opening' = NotRead /\ session' = "none" /\ owed' = Nothing
  /\ source' = [source EXCEPT !.state = "waiting"]
  /\ UNCHANGED <<video, page>>

-----------------------------------------------------------------------------
(* The page.                                                               *)

(* The page of a broadcast listens to snapshots of a live video, counts    *)
(* and live.status, not to the status frames of the video.                 *)
Shown(f) ==
  CASE f.tick > 0 -> [page EXCEPT !.tick = f.tick]
    [] kind = "live" /\ f.kind = "ended" -> [page EXCEPT !.shows = "ENDED"]
    [] kind = "upload" /\ f.kind \in {"snapshot", "status"} -> [page EXCEPT !.shows = f.says]
    [] OTHER -> page

(* Told of the end, the page of a broadcast closes its stream.             *)
Receive ==
  /\ source.state = "connected" /\ conn.wire # <<>>
  /\ LET f == Head(conn.wire) IN
       /\ page' = Shown(f)
       /\ IF page'.shows = "ENDED"
          THEN /\ conn' = Link!Closed /\ owed' = Nothing
               /\ source' = [source EXCEPT !.state = "closed"]
          ELSE /\ conn' = [conn EXCEPT !.wire = Tail(@)] /\ UNCHANGED owed
               /\ source' = IF f.id = 0 THEN source ELSE [source EXCEPT !.lastId = f.id]
  /\ UNCHANGED <<video, session, opening, troubles>>

-----------------------------------------------------------------------------
Work == \/ Tick \/ LogTick \/ Finish \/ NoticeRead \/ NoticePublish \/ NoticeLost
        \/ \E i \in Ids : SendTick(i)
Respond == Authorise \/ Register \/ ReadLatest \/ ReadRows \/ GoLive
Serve == \/ Respond \/ OpeningFails
         \/ Drain \/ Retire \/ ComeBack \/ Break
Next == Work \/ Serve \/ Receive

(* The worker tells the end, the process and the database answer, the idle *)
(* timer runs, sockets drain and the browser delivers and retries.         *)
Fairness ==
  /\ WF_vars(NoticeRead \/ NoticePublish)
  /\ WF_vars(Respond) /\ WF_vars(Drain) /\ WF_vars(Retire) /\ WF_vars(ComeBack)
  /\ WF_vars(Receive)

Spec == Init /\ [][Next]_vars /\ Fairness

-----------------------------------------------------------------------------
OnItsWay == conn.buffer \o conn.wire \o conn.lossy \o conn.queue

(* The end of a broadcast reaches every stream that was registered when it *)
(* was published, while the stream lasts: not lost to the opening, to a    *)
(* slow reader or to the frames around it.                                 *)
EndIsDelivered ==
  kind = "live" /\ owed.ended /\ Hears =>
    \E k \in DOMAIN OnItsWay : OnItsWay[k].kind = "ended"

(* Published ticks reach the page in the order they were published, each   *)
(* at most once, however slow the reader: no progress bar and no viewer    *)
(* count goes back to an older value.                                      *)
TicksInOrder ==
  \A k \in DOMAIN OnItsWay : OnItsWay[k].tick > 0 =>
    /\ page.tick < OnItsWay[k].tick
    /\ \A j \in 1..k - 1 : OnItsWay[j].tick < OnItsWay[k].tick

(* Of the ticks published to a stream the last is on its way or shown:     *)
(* what a slow reader is spared are older ones.  Nothing is owed of a tick *)
(* that has a number: where the snapshot took that number, as the newest   *)
(* row's, the tick is dropped as written already, although what a snapshot *)
(* counts is renditions that are done.                                     *)
LatestTickIsKept ==
  owed.tick > 0 /\ Hears =>
    owed.tick = page.tick \/ \E k \in DOMAIN OnItsWay : OnItsWay[k].tick = owed.tick

(* An upload's end reaches a client that stays, and stands: by the frame   *)
(* notify publishes, or by the snapshot of the stream that follows.        *)
EndArrives == <>[](status = "READY" => page.shows = "READY")
=============================================================================
