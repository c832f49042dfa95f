--------------------------- MODULE UserEventStream ---------------------------
(***************************************************************************)
(* GET /v1/me/events and the browser behind it: the log of one user's      *)
(* events, the cues the outbox relay publishes, the stream's connection    *)
(* and its reads of the log, and the tabs of one browser, of which the one *)
(* that holds the Web Lock opens the stream and posts what it hears to the *)
(* others.  Progress ticks carry no number, are in no log and may be lost; *)
(* they are left out, as are the payloads.  Events are taken to be about   *)
(* videos: those are what a refetch brings.                                *)
(***************************************************************************)
EXTENDS Naturals, Sequences, FiniteSets, FiniteSetsExt

CONSTANTS Tabs,
          MaxEvents,     \* bound: numbers the sequence of the log gives out
          Unknown,       \* numbers of rows the contract does not know
          ReplayLimit,   \* replayLimit, also the size of a page
          WireLimit,     \* frames a socket takes before it asks to wait
          MaxPending,    \* maxPendingFrames
          MaxTurns,      \* bound: tabs opened, failed calls, lost messages and
                         \* broken links, together
          MaxPosted      \* bound: messages a tab has not heard yet

ASSUME StreamAssumption ==
  /\ {MaxEvents, ReplayLimit, WireLimit, MaxPosted, MaxTurns} \subseteq Nat \ {0}
  /\ MaxPending \in Nat
  /\ Unknown \subseteq 1..MaxEvents

Ids == 1..MaxEvents

VARIABLES
  next,      \* the number the next row of user_events gets
  writing,   \* numbers drawn by transactions that are still open
  logged,    \* numbers ever committed
  rows,      \* of those, the ones the log still holds
  cues,      \* outbox rows not published: the numbers they announce
  conn,      \* the stream's connection in its API process
  opening,   \* what `open' has read for it
  source,    \* the leading tab's EventSource
  tab,       \* tab[t]: one tab
  queue,     \* tabs in the queue of the Web Lock
  opens, troubles

server == <<next, writing, logged, rows, cues>>
stream == <<conn, opening, source>>
browser == <<tab, queue, opens>>
vars == <<server, stream, browser, troubles>>

Link == INSTANCE EventConnection WITH Remembered <- 0, Logged <- TRUE

(* A frame of the stream: a numbered event, or `hello' (id 0) with how the *)
(* stream resumed and, as history, the newest number when it was read.     *)
Frames == [id : Ids \cup {0}, resume : {"none", "fresh", "replayed", "expired"},
           from : Ids \cup {0}, lossy : {FALSE}]
Numbered(i) == [id |-> i, resume |-> "none", from |-> 0, lossy |-> FALSE]
Hello(resume, from) == [id |-> 0, resume |-> resume, from |-> from, lossy |-> FALSE]

Openings == [frames : Seq(Frames), last : Ids \cup {0}, read : BOOLEAN]
NotRead == [frames |-> <<>>, last |-> 0, read |-> FALSE]

Sources ==
  [state : {"none", "waiting", "connected"},
   lastId : Ids \cup {0},      \* the id EventSource resumes from by itself
   url : Ids \cup {0},         \* last-event-id in its url
   after : Ids \cup {0}]       \* what the request of this connection named
NoSource == [state |-> "none", lastId |-> 0, url |-> 0, after |-> 0]

(* `from' and `heard' are history: what a tab need not hear, because its   *)
(* page or a refetch came after it, and what its handlers were given.      *)
TabRecords ==
  [role : {"closed", "joining", "queued", "leading"},
   seen : Ids \cup {0},        \* lastSeenId
   inbox : Seq(Frames),        \* BroadcastChannel messages on their way
   from : Ids \cup {0},
   heard : SUBSET Ids]
ClosedTab == [role |-> "closed", seen |-> 0, inbox |-> <<>>, from |-> 0, heard |-> {}]

TypeOK ==
  /\ next \in 1..(MaxEvents + 1)
  /\ writing \subseteq Ids /\ logged \subseteq Ids /\ rows \subseteq logged /\ cues \subseteq logged
  /\ conn \in Link!Connections(Frames, Ids)
  /\ opening \in Openings
  /\ source \in Sources
  /\ tab \in [Tabs -> TabRecords]
  /\ queue \in Seq(Tabs)
  /\ opens \in 0..MaxTurns /\ troubles \in 0..MaxTurns

Init ==
  /\ next = 1 /\ writing = {} /\ logged = {} /\ rows = {} /\ cues = {}
  /\ conn = Link!Closed /\ opening = NotRead /\ source = NoSource
  /\ tab = [t \in Tabs |-> ClosedTab] /\ queue = <<>>
  /\ opens = 0 /\ troubles = 0

Trouble == opens + troubles < MaxTurns /\ troubles' = troubles + 1
Newest(S) == IF S = {} THEN 0 ELSE Max(S)

(* The numbers of a set in their order; a sequence without an element.     *)
Ascending(S) ==
  [k \in 1..Cardinality(S) |-> CHOOSE i \in S : Cardinality({j \in S : j < i}) = k - 1]
Without(s, e) ==
  LET kept == Ascending({k \in DOMAIN s : s[k] # e}) IN [k \in DOMAIN kept |-> s[kept[k]]]

-----------------------------------------------------------------------------
(* The log.                                                                *)

(* A producer that draws without the lock.                                 *)
DrawUnlocked ==
  /\ next \in Ids
  /\ writing' = writing \cup {next}
  /\ next' = next + 1
  /\ UNCHANGED <<logged, rows, cues, stream, browser, troubles>>

(* A producer that announces the row outside its transaction.              *)
DrawAnnounced ==
  /\ next \in Ids /\ writing = {}
  /\ writing' = {next}
  /\ next' = next + 1
  /\ cues' = cues \cup {next}
  /\ UNCHANGED <<logged, rows, stream, browser, troubles>>

(* appendUserEvent: the lock on the user is held from before the number is *)
(* drawn until the transaction ends.                                       *)
Draw ==
  /\ next \in Ids /\ writing = {}
  /\ writing' = {next}
  /\ next' = next + 1
  /\ UNCHANGED <<logged, rows, cues, stream, browser, troubles>>

(* The row and the outbox row that announces it commit together.           *)
Commit(i) ==
  /\ i \in writing
  /\ writing' = writing \ {i}
  /\ logged' = logged \cup {i}
  /\ rows' = rows \cup {i}
  /\ cues' = cues \cup {i}
  /\ UNCHANGED <<next, stream, browser, troubles>>

Abort(i) ==
  /\ i \in writing
  /\ Trouble
  /\ writing' = writing \ {i}
  /\ UNCHANGED <<next, logged, rows, cues, stream, browser>>

(* prune: rows older than the retention go, oldest first.  That is days,   *)
(* and no relay, read or stream takes days; a browser may be away longer.  *)
Prune ==
  /\ Trouble
  /\ \E i \in rows :
       /\ \A j \in rows : j <= i => j \notin cues
       /\ \/ conn.phase \in {"closed", "ended"}
          \/ conn.phase = "live" /\ conn.reading = "idle" /\ conn.cursor >= i
       /\ rows' = {j \in rows : j > i}
  /\ UNCHANGED <<next, writing, logged, cues, stream, browser>>

(* The relay publishes the announcement of i and marks it; one that dies   *)
(* before it marks publishes again.                                        *)
PublishCue(i) ==
  /\ i \in cues
  /\ conn' = IF i \in Unknown THEN conn ELSE Link!LiveEvent(conn, Numbered(i))
  /\ \/ cues' = cues \ {i} /\ UNCHANGED troubles
     \/ Trouble /\ UNCHANGED cues
  /\ UNCHANGED <<next, writing, logged, rows, opening, source, browser>>

(* Published while the process's own subscription was down: Redis keeps    *)
(* nothing, and the relay is told that all is well.                        *)
LoseCue(i) ==
  /\ i \in cues
  /\ Trouble
  /\ cues' = cues \ {i}
  /\ UNCHANGED <<next, writing, logged, rows, stream, browser>>

-----------------------------------------------------------------------------
(* The stream.                                                             *)

(* The request: the connection is registered with the hub before anything  *)
(* is read.  EventSource names the last id it has itself; the url's counts *)
(* only while it has none.                                                 *)
Connect ==
  /\ source.state = "waiting"
  /\ source' = [source EXCEPT !.state = "connected",
                              !.after = IF source.lastId > 0 THEN source.lastId ELSE source.url]
  /\ conn' = Link!Registered
  /\ UNCHANGED <<server, opening, browser, troubles>>

(* The first rows from number i on.                                        *)
RowsFrom(i, limit) ==
  LET due == {j \in rows : j >= i}
  IN  {j \in due : Cardinality({k \in due : k < j}) < limit}

(* userFrames.                                                             *)
FramesOf(ids) ==
  LET known == Ascending(ids \ Unknown) IN [k \in DOMAIN known |-> Numbered(known[k])]

AtLatest(resume) ==
  [frames |-> <<Hello(resume, Newest(logged))>>, last |-> Newest(rows), read |-> TRUE]

(* A replay without a look at what the log has dropped.                    *)
OpeningTrusting(after) ==
  LET missed == RowsFrom(after + 1, ReplayLimit)
  IN  IF after = 0 THEN AtLatest("fresh")
      ELSE [frames |-> <<Hello("replayed", 0)>> \o FramesOf(missed),
            last |-> IF missed = {} THEN after ELSE Max(missed), read |-> TRUE]

(* openUserStream's open: a replay only if the event the browser names is  *)
(* still in the log and not too many followed it.                          *)
Opening(after) ==
  LET found == RowsFrom(after, ReplayLimit + 2)
      missed == found \ {after}
      known == missed \ Unknown
  IN  CASE after = 0 -> AtLatest("fresh")
        [] after # 0 /\ (after \notin found \/ Cardinality(missed) > ReplayLimit)
             -> AtLatest("expired")
        [] OTHER -> [frames |-> <<Hello("replayed", 0)>> \o FramesOf(missed),
                     last |-> IF known = {} THEN after ELSE Max(known), read |-> TRUE]

ReadOpening ==
  /\ conn.phase = "opening" /\ ~opening.read
  /\ opening' = Opening(source.after)
  /\ UNCHANGED <<server, conn, source, browser, troubles>>

(* A refused registration, or a database that cannot be read: the answer   *)
(* is an error, which EventSource does not get over by itself.             *)
OpeningFails ==
  /\ conn.phase = "opening"
  /\ Trouble
  /\ conn' = Link!Closed /\ opening' = NotRead /\ source' = NoSource
  /\ UNCHANGED <<server, browser>>

GoLive ==
  /\ conn.phase = "opening" /\ opening.read
  /\ conn' = Link!WentLive(conn, opening.frames, opening.last)
  /\ opening' = NotRead /\ source' = [source EXCEPT !.after = 0]
  /\ UNCHANGED <<server, browser, troubles>>

(* The database answers a read of the log ...                              *)
ReadPage ==
  /\ conn.reading = "asking"
  /\ LET found == RowsFrom(Link!LastRead(conn) + 1, ReplayLimit)
     IN  conn' = Link!Answered(conn, found, Cardinality(found) = ReplayLimit)
  /\ UNCHANGED <<server, opening, source, browser, troubles>>

(* ... and the answer arrives.                                             *)
TakePage ==
  /\ conn.reading = "answered"
  /\ conn' = IF conn.more THEN Link!AsksOn(conn) ELSE Link!Resynced(conn, FramesOf(conn.page))
  /\ UNCHANGED <<server, opening, source, browser, troubles>>

(* A log that cannot be read costs the stream.                             *)
ReadFails ==
  /\ conn.reading # "idle"
  /\ Trouble
  /\ conn' = Link!Ended(conn)
  /\ UNCHANGED <<server, opening, source, browser>>

Drain ==
  /\ conn.phase = "live" /\ conn.slow /\ conn.wire = <<>>
  /\ conn' = Link!Drained(conn)
  /\ UNCHANGED <<server, opening, source, browser, troubles>>

(* The idle timer, which nothing puts off, or the process shutting down.   *)
Retire ==
  /\ conn.phase = "live"
  /\ conn' = Link!Ended(conn)
  /\ UNCHANGED <<server, opening, source, browser, troubles>>

(* The browser has taken what an ended stream had sent, and EventSource    *)
(* goes back by itself.                                                    *)
ComeBack ==
  /\ conn.phase = "ended" /\ conn.wire = <<>>
  /\ conn' = Link!Closed
  /\ source' = [source EXCEPT !.state = "waiting"]
  /\ UNCHANGED <<server, opening, browser, troubles>>

(* The link breaks: EventSource goes back by itself, or the tab opens a    *)
(* new one when it is online again.                                        *)
Break ==
  /\ source.state = "connected"
  /\ Trouble
  /\ conn' = Link!Closed /\ opening' = NotRead
  /\ source' \in {[source EXCEPT !.state = "waiting"], NoSource}
  /\ UNCHANGED <<server, browser>>

-----------------------------------------------------------------------------
(* The tabs.                                                               *)
IsOpen(t) == tab[t].role # "closed"
LockIsFree == \A t \in Tabs : tab[t].role # "leading"

(* deliver: a number a tab already has is dropped.  After `fresh' and      *)
(* `expired' it refetches.                                                 *)
Delivered(r, f) ==
  CASE f.id > r.seen -> [r EXCEPT !.seen = f.id, !.heard = @ \cup {f.id}]
    [] f.id = 0 /\ f.resume \in {"fresh", "expired"} ->
         [r EXCEPT !.from = IF f.from > @ THEN f.from ELSE @]
    [] OTHER -> r

(* The frame reaches the leading tab, which posts it to the others.        *)
Receive ==
  /\ source.state = "connected" /\ conn.wire # <<>>
  /\ \A t \in Tabs : tab[t].role # "leading" => Len(tab[t].inbox) < MaxPosted
  /\ LET f == Head(conn.wire) IN
       /\ conn' = [conn EXCEPT !.wire = Tail(@)]
       /\ source' = IF f.id = 0 THEN source ELSE [source EXCEPT !.lastId = f.id]
       /\ tab' = [t \in Tabs |->
            CASE tab[t].role = "leading" -> Delivered(tab[t], f)
              [] tab[t].role = "closed" -> tab[t]
              [] OTHER -> [tab[t] EXCEPT !.inbox = Append(@, f)]]
  /\ UNCHANGED <<server, opening, queue, opens, troubles>>

(* A message of the channel, also one of a tab that led before.            *)
Hear(t) ==
  /\ tab[t].inbox # <<>>
  /\ LET left == [tab[t] EXCEPT !.inbox = Tail(@)]
     IN  tab' = [tab EXCEPT ![t] = Delivered(left, Head(tab[t].inbox))]
  /\ UNCHANGED <<server, stream, queue, opens, troubles>>

(* A page opens the channel and asks for the lock if it can have it now.   *)
OpenTab(t) ==
  /\ tab[t].role = "closed" /\ opens + troubles < MaxTurns
  /\ opens' = opens + 1
  /\ tab' = [tab EXCEPT ![t] =
       [ClosedTab EXCEPT !.role = IF LockIsFree /\ queue = <<>> THEN "leading" ELSE "joining",
                         !.from = Newest(logged)]]
  /\ UNCHANGED <<server, stream, queue, troubles>>

(* Refused, it refetches and asks to wait for it.                          *)
JoinQueue(t) ==
  /\ tab[t].role = "joining"
  /\ tab' = [tab EXCEPT ![t].role = "queued"]
  /\ queue' = Append(queue, t)
  /\ UNCHANGED <<server, stream, opens, troubles>>

Lead(t) ==
  /\ LockIsFree /\ queue # <<>> /\ Head(queue) = t
  /\ queue' = Tail(queue)
  /\ tab' = [tab EXCEPT ![t].role = "leading"]
  /\ UNCHANGED <<server, stream, opens, troubles>>

(* A new EventSource resumes from the last number this tab has handled.    *)
OpenSource(t) ==
  /\ tab[t].role = "leading" /\ source.state = "none"
  /\ source' = [NoSource EXCEPT !.state = "waiting", !.url = tab[t].seen]
  /\ UNCHANGED <<server, conn, opening, browser, troubles>>

CloseTab(t) ==
  /\ IsOpen(t)
  /\ tab' = [tab EXCEPT ![t] = ClosedTab]
  /\ queue' = Without(queue, t)
  /\ IF tab[t].role = "leading"
     THEN conn' = Link!Closed /\ opening' = NotRead /\ source' = NoSource
     ELSE UNCHANGED stream
  /\ UNCHANGED <<server, opens, troubles>>

-----------------------------------------------------------------------------
Log == Draw \/ Prune \/ \E i \in Ids : Commit(i) \/ Abort(i) \/ PublishCue(i) \/ LoseCue(i)
Respond == Connect \/ ReadOpening \/ GoLive
Serve == \/ Respond \/ OpeningFails \/ ReadPage \/ TakePage
         \/ ReadFails \/ Drain \/ Retire \/ ComeBack \/ Break
Browse == Receive \/ \E t \in Tabs : \/ Hear(t) \/ OpenTab(t) \/ JoinQueue(t) \/ Lead(t)
                                     \/ OpenSource(t) \/ CloseTab(t)
Next == Log \/ Serve \/ Browse

(* Transactions end, the relay ticks, the process and the database answer, *)
(* the idle timer runs, sockets drain, browsers deliver and retry.  Nobody *)
(* has to log an event, open a tab or close one.  Steps that a behaviour   *)
(* has finitely many of share a condition.                                 *)
Fairness ==
  /\ WF_vars(\E i \in Ids : Commit(i) \/ PublishCue(i))
  /\ WF_vars(Respond \/ ComeBack) /\ WF_vars(ReadPage \/ TakePage)
  /\ WF_vars(Drain) /\ WF_vars(Retire) /\ WF_vars(Receive)
  /\ \A t \in Tabs : WF_vars(Hear(t))
  /\ WF_vars(\E t \in Tabs : JoinQueue(t) \/ Lead(t) \/ OpenSource(t))

Spec == Init /\ [][Next]_vars /\ Fairness

-----------------------------------------------------------------------------
(* A tab's handlers were given every event it has gone past since its page *)
(* or its last refetch: late, repeated, reordered and lost announcements,  *)
(* pages of the log, slow readers, replays, pruned rows and a change of    *)
(* the leading tab skip nothing.                                           *)
NothingIsSkipped ==
  \A t \in Tabs : \A i \in logged \ Unknown :
    IsOpen(t) /\ tab[t].from < i /\ i <= tab[t].seen => i \in tab[t].heard

(* One stream never repeats a number and never goes back: what the reader  *)
(* has, what is on the way and what waits behind a slow reader are in the  *)
(* order of the log.  So the id the browser resumes from stands for all    *)
(* the ids below it.                                                       *)
StreamIsInOrder ==
  LET frames == conn.wire \o conn.queue IN
  source.state = "connected" =>
    \A k \in DOMAIN frames : frames[k].id # 0 =>
      /\ source.lastId < frames[k].id
      /\ \A j \in 1..k - 1 : frames[j].id < frames[k].id

(* Every event that is logged while a tab is open reaches it, or the tab   *)
(* refetches, or it is closed: a lost announcement is made good by the     *)
(* next one or, if there is none, by the stream's limited life.            *)
Owed(t) == {i \in logged \ Unknown : i > tab[t].from /\ i > tab[t].seen}

EventsArrive == []<>(\A t \in Tabs : IsOpen(t) => Owed(t) = {})
=============================================================================
