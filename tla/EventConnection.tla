--------------------------- MODULE EventConnection ---------------------------
(***************************************************************************)
(* One server-sent event stream as its API process keeps it: what is held  *)
(* until the opening is sent, what waits for a slow reader, and, for a     *)
(* stream with a log, how far the log has been read.  A frame without a    *)
(* number has id 0.  `wire' is what was written and the browser has not    *)
(* taken yet: write() returns false once WireLimit frames are there, and   *)
(* `drain' comes when it is empty.  Heartbeats change nothing and are left *)
(* out.                                                                    *)
(***************************************************************************)
EXTENDS Naturals, Sequences, FiniteSetsExt

CONSTANTS WireLimit,    \* frames a socket takes before it asks to wait
          MaxPending,   \* maxPendingFrames
          Remembered,   \* rememberedIds
          Logged        \* whether a numbered frame is a cue to read a log

Phases == {"closed", "opening", "live", "ended"}
ReadStates == {"idle", "asking", "answered"}

Connections(Frame, Ids) ==
  [phase : Phases,
   buffer : Seq(Frame),       \* connectBuffer
   written : Seq(Ids),        \* writtenIds, oldest first
   slow : BOOLEAN,            \* isBackpressured
   lossy : Seq(Frame),        \* pendingLossy, of one key
   queue : Seq(Frame),        \* pendingQueue
   wire : Seq(Frame),
   cursor : Ids \cup {0},     \* resyncCursor
   reading : ReadStates,      \* isResyncing, and where the read is
   due : BOOLEAN,             \* isResyncDue
   page : SUBSET Ids,         \* ids the read has found so far
   more : BOOLEAN]            \* whether its last page was full

Closed ==
  [phase |-> "closed", buffer |-> <<>>, written |-> <<>>, slow |-> FALSE,
   lossy |-> <<>>, queue |-> <<>>, wire |-> <<>>, cursor |-> 0,
   reading |-> "idle", due |-> FALSE, page |-> {}, more |-> FALSE]

(* SseHub.register.                                                        *)
Registered == [Closed EXCEPT !.phase = "opening"]

(* close: what was written is still sent, what waits is dropped.           *)
Ended(c) == [Closed EXCEPT !.phase = "ended", !.wire = c.wire]

-----------------------------------------------------------------------------
Newest(s, n) == IF Len(s) <= n THEN s ELSE SubSeq(s, Len(s) - n + 1, Len(s))

RememberWritten(written, f) ==
  IF f.id = 0 \/ f.id \in Range(written) THEN written
  ELSE Newest(Append(written, f.id), Remembered)

Write(c, f) ==
  [c EXCEPT !.wire = Append(@, f),
            !.written = RememberWritten(@, f),
            !.slow = @ \/ Len(c.wire) + 1 >= WireLimit]

(* Frames are written, or handed on, one after the other.                  *)
AllWritten(c, frames) ==
  LET after[i \in 0..Len(frames)] == IF i = 0 THEN c ELSE Write(after[i - 1], frames[i])
  IN  after[Len(frames)]

(* A backlog at its limit that costs the frame and not the stream.         *)
DispatchDropping(c, f) ==
  CASE c.phase # "live" -> c
    [] c.phase = "live" /\ ~c.slow -> Write(c, f)
    [] c.phase = "live" /\ c.slow /\ f.lossy -> [c EXCEPT !.lossy = <<f>>]
    [] OTHER -> IF Len(c.queue) < MaxPending THEN [c EXCEPT !.queue = Append(@, f)] ELSE c

(* dispatchLiveEvent: behind a slow reader a lossy frame takes the place   *)
(* of the one before it, any other waits, and a backlog at its limit costs *)
(* the stream.                                                             *)
Dispatch(c, f) ==
  CASE c.phase # "live" -> c
    [] c.phase = "live" /\ ~c.slow -> Write(c, f)
    [] c.phase = "live" /\ c.slow /\ f.lossy -> [c EXCEPT !.lossy = <<f>>]
    [] OTHER -> IF Len(c.queue) < MaxPending
                THEN [c EXCEPT !.queue = Append(@, f)]
                ELSE Ended(c)

AllDispatched(c, frames) ==
  LET after[i \in 0..Len(frames)] == IF i = 0 THEN c ELSE Dispatch(after[i - 1], frames[i])
  IN  after[Len(frames)]

(* A cue while the log is being read is kept for when the read is done.    *)
RequestResync(c) ==
  IF c.reading = "idle" THEN [c EXCEPT !.reading = "asking"] ELSE [c EXCEPT !.due = TRUE]

(* A numbered frame written as it comes, log or no log.                    *)
TakeUnread(c, f) == IF f.id \in Range(c.written) THEN c ELSE Dispatch(c, f)

(* takeLiveEvent.                                                          *)
Take(c, f) ==
  CASE f.id = 0 -> Dispatch(c, f)
    [] f.id # 0 /\ Logged -> IF c.phase = "live" THEN RequestResync(c) ELSE c
    [] OTHER -> IF f.id \in Range(c.written) THEN c ELSE Dispatch(c, f)

AllTaken(c, frames) ==
  LET after[i \in 0..Len(frames)] == IF i = 0 THEN c ELSE Take(after[i - 1], frames[i])
  IN  after[Len(frames)]

(* onLiveEvent: a message the hub heard.                                   *)
LiveEvent(c, f) ==
  CASE c.phase = "opening" -> [c EXCEPT !.buffer = Append(@, f)]
    [] c.phase = "live" -> Take(c, f)
    [] OTHER -> c

(* The opening frames are written whatever the reader's pace; then         *)
(* markLive hands on what came in the meantime.                            *)
WentLive(c, frames, lastSentId) ==
  LET opened == AllWritten(c, frames)
      live == [opened EXCEPT !.phase = "live", !.cursor = lastSentId, !.buffer = <<>>]
  IN  AllTaken(live, c.buffer)

(* handleDrain: the lossy frames, then as many of the rest as the socket   *)
(* takes.                                                                  *)
Drained(c) ==
  LET flushed == AllWritten([c EXCEPT !.slow = FALSE, !.lossy = <<>>], c.lossy)
      room == IF flushed.slow THEN 0 ELSE WireLimit - Len(flushed.wire)
      n == IF room < Len(c.queue) THEN room ELSE Len(c.queue)
  IN  AllWritten([flushed EXCEPT !.queue = SubSeq(@, n + 1, Len(@))], SubSeq(c.queue, 1, n))

-----------------------------------------------------------------------------
(* The reading of the log, page by page: the database answers with the     *)
(* rows it has then, and the answer arrives later.                         *)
Answered(c, found, full) ==
  [c EXCEPT !.reading = "answered", !.page = @ \cup found, !.more = full]

(* A full page asks for the next one.                                      *)
AsksOn(c) == [c EXCEPT !.reading = "asking"]

LastRead(c) == IF c.page = {} THEN c.cursor ELSE Max(c.page)

(* runResync, once a short page has come: the frames of its rows are sent, *)
(* the cursor goes to the last row, sent or not, and a cue that came       *)
(* meanwhile starts over.  The read began behind the cursor, so none of    *)
(* its rows was sent before.                                               *)
Resynced(c, frames) ==
  LET sent == AllDispatched(c, frames)
      kept == [sent EXCEPT !.cursor = LastRead(c), !.page = {}, !.due = FALSE, !.more = FALSE]
  IN  CASE sent.phase # "live" -> sent
        [] sent.phase = "live" /\ c.due -> [kept EXCEPT !.reading = "asking"]
        [] OTHER -> [kept EXCEPT !.reading = "idle"]
=============================================================================
