--------------------------- MODULE MCEventStreams ---------------------------
(* The streams of one API, each on its own: the user's; that of an upload, *)
(* with more ticks of progress or, up to the end that is published, with   *)
(* more troubles; that of a broadcast.                                     *)
EXTENDS UserEventStream

CONSTANTS MaxTicks, MaxCounts, MaxTroubles, Remembered, MaxWaiting

ASSUME VideoAssumption ==
  {MaxTicks, MaxCounts, MaxTroubles, Remembered, MaxWaiting} \subseteq Nat

VARIABLES subject, kind, status, ticks, unsent, notice, session, page, owed

ofVideo == <<kind, status, ticks, unsent, notice, session, page, owed>>
ofUser == <<next, writing, logged, cues, tab, queue, opens>>
mcVars == <<vars, ofVideo, subject>>

\* It shares conn, opening, source, rows and troubles with the user's.
Video == INSTANCE VideoEventStream WITH MaxPending <- MaxWaiting

NoVideo ==
  /\ kind = "none" /\ status = "none" /\ ticks = 0 /\ unsent = {}
  /\ notice = [at |-> "none", id |-> 0] /\ session = "none"
  /\ page = [shows |-> "none", tick |-> 0] /\ owed = Video!Nothing
NoUser ==
  /\ next = 1 /\ writing = {} /\ logged = {} /\ cues = {}
  /\ tab = [t \in Tabs |-> ClosedTab] /\ queue = <<>> /\ opens = 0

Kinds == [upload |-> "upload", end |-> "upload", live |-> "live"]

MCInit ==
  \/ subject = "user" /\ Init /\ NoVideo
  \/ subject \in DOMAIN Kinds /\ Video!Init /\ kind = Kinds[subject] /\ NoUser

\* bounds: what the instances of an upload take of MaxTicks and MaxTroubles
Within ==
  /\ subject = "upload" => troubles < MaxTroubles - 1
  /\ subject = "end" => ticks + Cardinality(unsent) < MaxTicks /\ troubles < MaxTroubles

OfUser(A) == subject = "user" /\ A /\ UNCHANGED <<ofVideo, subject>>
OfVideo(s, A) == subject = s /\ A /\ UNCHANGED <<ofUser, subject>>

MCNext ==
  \/ OfUser(Next)
  \/ \E s \in DOMAIN Kinds : OfVideo(s, Video!Next) /\ Within'

(* The Fairness of the two modules, where liveness is asked for.  The      *)
(* subject never changes, so one condition can stand for what two streams  *)
(* have alike.                                                             *)
MCFairness ==
  /\ WF_mcVars(OfUser(\E i \in Ids : Commit(i) \/ PublishCue(i)))
  /\ WF_mcVars(OfUser(Respond \/ ComeBack) \/ OfVideo("end", Video!Respond))
  /\ WF_mcVars(OfUser(ReadPage \/ TakePage) \/ OfVideo("end", Video!ComeBack))
  /\ WF_mcVars(OfUser(Drain) \/ OfVideo("end", Video!Drain))
  /\ WF_mcVars(OfUser(Retire) \/ OfVideo("end", Video!Retire))
  /\ WF_mcVars(OfUser(Receive) \/ OfVideo("end", Video!Receive))
  /\ \A t \in Tabs : WF_mcVars(OfUser(Hear(t)))
  /\ WF_mcVars(\/ OfUser(\E t \in Tabs : JoinQueue(t) \/ Lead(t) \/ OpenSource(t))
               \/ OfVideo("end", Video!NoticeRead \/ Video!NoticePublish))

MCSpec == MCInit /\ [][MCNext]_mcVars /\ MCFairness

(* The variables of the stream under study have their types.               *)
StreamTypeOK == IF subject = "user" THEN TypeOK ELSE Video!TypeOK

(* No stream repeats a frame or goes back: not to an event of the log, not *)
(* to an older tick of a video, whatever waits behind a slow reader.       *)
OrderIsKept == IF subject = "user" THEN StreamIsInOrder ELSE Video!TicksInOrder

(* Nor does it lose the latest tick, or the end of a broadcast, that was   *)
(* published to it.                                                        *)
NewestIsKept == subject # "user" => Video!LatestTickIsKept /\ Video!EndIsDelivered

(* What is logged reaches every tab that stays open.                       *)
UserEventsArrive == subject = "user" => EventsArrive

(* The end of an upload reaches the viewer who stays, and stands.          *)
UploadEndArrives == subject = "end" => Video!EndArrives
=============================================================================
