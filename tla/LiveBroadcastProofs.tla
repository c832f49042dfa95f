------------------------ MODULE LiveBroadcastProofs -------------------------
(***************************************************************************)
(* The live broadcasts of a channel, proved for any number of streams, of  *)
(* executions, of segments and of troubles: no playlist names media that   *)
(* is not stored, and, while one execution at a time holds a broadcast, no *)
(* recorded segment is written again, the archive only grows, and a READY  *)
(* video is its closed archive.                                            *)
(***************************************************************************)
EXTENDS LiveBroadcast, SequenceTheorems, TLAPS

-----------------------------------------------------------------------------
(* Types of the parts that TypeOK leaves to the writes.                    *)
Segs == {segs \in Seq(Nat) : Len(segs) <= MaxSegments}
States == [epochs : Nat, segs : Segs]
Archives == [segs : Segs, ended : BOOLEAN]
Masters == {"none", "index", "archive"}
Stores == [media : SUBSET MediaKeys, state : States, archive : Archives,
           index : SUBSET MediaKeys, master : Masters]

Outcomes == {"ok", "transient", "permanent"}

Writes ==
  [object : {"media"}, body : MediaKeys] \cup [object : {"index"}, body : SUBSET MediaKeys]
  \cup [object : {"state"}, body : States] \cup [object : {"archive"}, body : Archives]
  \cup [object : {"master"}, body : Masters]

Executions ==
  [pc : RunPlaces, stream : Streams, last : BOOLEAN, keyed : BOOLEAN, epoch : Nat, own : Nat,
   segs : Segs, parts : 0..PartsPerSegment, queue : Seq(Writes), broken : BOOLEAN,
   outcome : Outcomes]

Rows == [status : {"NONE", "IDLE", "LIVE", "ENDED"}, stop : BOOLEAN]

PartsFit(x) == x.parts < PartsPerSegment /\ (x.parts > 0 => Len(x.segs) < MaxSegments)

Types ==
  /\ stream \in [Streams -> Rows]
  /\ video \in [Streams -> {"none", "LIVE", "READY", "FAILED"}]
  /\ outbox \subseteq Streams
  /\ job \in [Streams -> StageJobs(Runs)]
  /\ publishing \in BOOLEAN /\ overlap \in BOOLEAN /\ slipped \in BOOLEAN
  /\ calls \subseteq [at : {"goLive", "admitted"}, stream : Streams]
  /\ store \in [Streams -> Stores]
  /\ run \in [Runs -> Executions]
  /\ \A r \in Runs : PartsFit(run[r])
  /\ faults \in Nat /\ errors \in Nat /\ faults + errors <= MaxTroubles

-----------------------------------------------------------------------------
(* What a write names, and the media that stand once the writes before it  *)
(* have been made.                                                         *)
Names(w) == IF w.object = "index" THEN w.body
            ELSE IF w.object \in {"state", "archive"} THEN Recorded(w.body.segs)
            ELSE {}

MediaBefore(st, q, i) ==
  st.media \cup {q[k].body : k \in {k \in 1..Len(q) : k < i /\ q[k].object = "media"}}

QueueStands(st, q) == \A i \in 1..Len(q) : Names(q[i]) \subseteq MediaBefore(st, q, i)
AllMedia(st, q) == MediaBefore(st, q, Len(q) + 1)

(* What a session may still list: what is recorded, the init segment of    *)
(* its epoch, and the parts it wrote.                                      *)
SessionNames(record) ==
  Recorded(record.segs)
  \cup (IF record.pc = "encode"
        THEN {InitKey(record.epoch)}
             \cup {PartKey(record.epoch, i, p) :
                     i \in record.own + 1..Len(record.segs), p \in 1..PartsPerSegment}
             \cup {PartKey(record.epoch, Len(record.segs) + 1, p) : p \in 1..record.parts}
        ELSE {})

InSession(record) == record.pc \in {"connect", "encode"}

StoreStands ==
  \A s \in Streams :
    store[s].index \cup Recorded(store[s].state.segs) \cup Recorded(store[s].archive.segs)
      \subseteq store[s].media

MediaStands ==
  /\ StoreStands
  /\ \A r \in Runs : QueueStands(store[Of(r)], run[r].queue)
  /\ \A r \in Runs : InSession(run[r]) /\ ~run[r].broken =>
       SessionNames(run[r]) \subseteq AllMedia(store[Of(r)], run[r].queue)
  /\ \A r \in Runs : At(r, "connect") => run[r].own = Len(run[r].segs)

-----------------------------------------------------------------------------
(* The epochs: what is recorded is of an epoch before the next one.        *)
Below(segs, n) == \A i \in DOMAIN segs : segs[i] < n

QueueRises(q) ==
  \A i \in DOMAIN q : q[i].object = "state" => Below(q[i].body.segs, q[i].body.epochs)

EpochsRise ==
  /\ \A s \in Streams : Below(store[s].state.segs, store[s].state.epochs)
  /\ \A r \in Runs : QueueRises(run[r].queue)
  /\ \A r \in Runs : At(r, "connect") => Below(run[r].segs, run[r].epoch)
  /\ \A r \in Runs : At(r, "encode") => Below(run[r].segs, run[r].epoch + 1)

(* The channel has one open row, the ones before it ended and the ones     *)
(* after it do not exist yet; only a row that went live has a job, an      *)
(* execution, or a video, and only an ended one a settled video.           *)
Began(s) == stream[s].status \in {"LIVE", "ENDED"}

OneOpen ==
  \E o \in Streams :
    /\ stream[o].status \in {"IDLE", "LIVE"}
    /\ \A s \in Streams : (s < o => stream[s].status = "ENDED") /\ (s > o => stream[s].status = "NONE")

RowsAgree ==
  /\ OneOpen
  /\ \A c \in calls : c.stream \in Broadcasts
  /\ \A s \in Streams :
       /\ stream[s].status = "LIVE" => s \in Broadcasts
       /\ s \in outbox \/ job[s].state # "absent" => Began(s)
       /\ video[s] \in {"READY", "FAILED"} => stream[s].status = "ENDED"
  /\ \A r \in Runs : ~At(r, "idle") => Began(Of(r))
  /\ \A r \in Runs : run[r].pc \in {"flip", "next", "kick"} => stream[Of(r)].status = "ENDED"
  /\ \A r \in Runs : run[r].pc \in {"archive", "closing"} /\ ~run[r].keyed /\ ~overlap =>
       stream[Of(r)].status = "ENDED"

(* Until a worker loses a lock and lives on, the execution of a stream is  *)
(* the owner of its job.                                                   *)
OneHolder ==
  /\ overlap => faults > 0
  /\ ~overlap => \A r \in Runs : ~At(r, "idle") => OwnedBy(job[Of(r)], r)
  /\ \A r \in Runs : run[r].queue # <<>> => run[r].pc \in {"connect", "encode", "drain", "closing"}
  /\ \A r \in Runs : run[r].pc \in {"idle", "load", "wait", "open", "connect"} => run[r].parts = 0

-----------------------------------------------------------------------------
(* The archive, while one execution at a time holds the broadcast.         *)
Extends(t, s) == Len(s) <= Len(t) /\ \A i \in 1..Len(s) : t[i] = s[i]

(* The state is written before the archive of the same segments.           *)
ChainHolds(st, q) ==
  /\ \A i \in DOMAIN q : q[i].object = "state" =>
       /\ Extends(q[i].body.segs, st.state.segs)
       /\ \A k \in DOMAIN q : k > i /\ q[k].object = "state" =>
            Extends(q[k].body.segs, q[i].body.segs)
  /\ \A i \in DOMAIN q : q[i].object = "archive" =>
       IF i = 1 THEN q[1].body.segs = st.state.segs
       ELSE q[i - 1].object = "state" /\ q[i - 1].body.segs = q[i].body.segs

(* No media of the queue is recorded by then.                              *)
NoRewrite(st, q) ==
  \A i \in DOMAIN q : q[i].object = "media" =>
    /\ q[i].body \notin Recorded(st.state.segs)
    /\ \A k \in DOMAIN q : k < i /\ q[k].object = "state" =>
         q[i].body \notin Recorded(q[k].body.segs)

InOrder(st, q) == ChainHolds(st, q) /\ NoRewrite(st, q)

(* Segments that extend all that is recorded or will be.                   *)
Sequel(st, q, segs) ==
  /\ Extends(segs, st.state.segs)
  /\ \A i \in DOMAIN q : q[i].object = "state" => Extends(segs, q[i].body.segs)

Whole(st) == [segs |-> st.state.segs, ended |-> TRUE]
Sealed(st) == st.state.segs # <<>> => st.archive = Whole(st) /\ st.master = "archive"

(* Finalize on its way: the writes still to make, and what they leave.     *)
Finalizes(st, record) ==
  LET q == record.queue IN
  /\ record.segs = st.state.segs
  /\ st.state.segs = <<>> => q = <<>>
  /\ q # <<>> => Len(q) \in 1..3 /\ q[Len(q)] = Put("master", "archive")
  /\ Len(q) > 1 => q[Len(q) - 1] = Put("archive", Whole(st))
  /\ Len(q) > 2 => q[1] = Put("state", st.state)
  /\ st.state.segs # <<>> /\ ~record.broken /\ Len(q) < 2 => st.archive = Whole(st)
  /\ st.state.segs # <<>> /\ ~record.broken /\ Len(q) < 1 => st.master = "archive"

HolderKnows ==
  ~overlap =>
    /\ \A s \in Streams :
         /\ Extends(store[s].state.segs, store[s].archive.segs)
         /\ stream[s].status = "ENDED" => Sealed(store[s])
         /\ video[s] = "READY" => store[s].state.segs # <<>>
    /\ \A r \in Runs :
         /\ InOrder(store[Of(r)], run[r].queue)
         /\ InSession(run[r]) /\ ~run[r].broken =>
              Sequel(store[Of(r)], run[r].queue, run[r].segs)
         /\ At(r, "closing") => Finalizes(store[Of(r)], run[r])
         /\ At(r, "flip") => run[r].segs = store[Of(r)].state.segs
         /\ run[r].pc \in {"wait", "open", "connect", "encode", "drain", "check", "lastKick"} =>
              stream[Of(r)].status = "LIVE" /\ run[r].keyed

(* A publisher on the key of a stream that has not gone live is about to   *)
(* be dropped.                                                             *)
OrphanIsSeen ==
  Untroubled /\ Orphaned =>
    \E r \in Runs : run[r].pc \in {"flip", "next", "kick"} /\ run[r].keyed

IInv ==
  /\ Types
  /\ MediaStands
  /\ EpochsRise
  /\ RowsAgree
  /\ OneHolder
  /\ HolderKnows
  /\ OrphanIsSeen
-----------------------------------------------------------------------------
(* A write is of one of five objects, with a body of its kind.             *)
LEMMA WriteKinds ==
  ASSUME NEW w \in Writes
  PROVE  \/ w.object = "media" /\ w.body \in MediaKeys
         \/ w.object = "index" /\ w.body \in SUBSET MediaKeys
         \/ w.object = "state" /\ w.body \in States
         \/ w.object = "archive" /\ w.body \in Archives
         \/ w.object = "master" /\ w.body \in Masters
  BY DEF Writes

(* Storing a write replaces its object and leaves the others.              *)
LEMMA StoredFields ==
  ASSUME NEW st \in Stores, NEW w \in Writes
  PROVE  /\ Stored(st, w) \in Stores
         /\ Stored(st, w).media = IF w.object = "media" THEN st.media \cup {w.body} ELSE st.media
         /\ Stored(st, w).index = IF w.object = "index" THEN w.body ELSE st.index
         /\ Stored(st, w).state = IF w.object = "state" THEN w.body ELSE st.state
         /\ Stored(st, w).archive = IF w.object = "archive" THEN w.body ELSE st.archive
         /\ Stored(st, w).master = IF w.object = "master" THEN w.body ELSE st.master
<1>1. CASE w.object = "media" /\ w.body \in MediaKeys
  <2>1. Stored(st, w) = [st EXCEPT !.media = st.media \cup {w.body}]
    BY <1>1 DEF Stored
  <2> QED
    BY <1>1, <2>1 DEF Stores
<1>2. CASE w.object = "index" /\ w.body \in SUBSET MediaKeys
  <2>1. Stored(st, w) = [st EXCEPT !.index = w.body]
    BY <1>2 DEF Stored
  <2> QED
    BY <1>2, <2>1 DEF Stores
<1>3. CASE w.object = "state" /\ w.body \in States
  <2>1. Stored(st, w) = [st EXCEPT !.state = w.body]
    BY <1>3 DEF Stored
  <2> QED
    BY <1>3, <2>1 DEF Stores
<1>4. CASE w.object = "archive" /\ w.body \in Archives
  <2>1. Stored(st, w) = [st EXCEPT !.archive = w.body]
    BY <1>4 DEF Stored
  <2> QED
    BY <1>4, <2>1 DEF Stores
<1>5. CASE w.object = "master" /\ w.body \in Masters
  <2>1. Stored(st, w) = [st EXCEPT !.master = w.body]
    BY <1>5 DEF Stored
  <2> QED
    BY <1>5, <2>1 DEF Stores
<1> QED
  BY <1>1, <1>2, <1>3, <1>4, <1>5, WriteKinds

(* The queue without its head: the same writes, one place earlier.         *)
LEMMA PopSeq ==
  ASSUME NEW q \in Seq(Writes), q # <<>>
  PROVE  /\ Tail(q) \in Seq(Writes) /\ Len(q) \in Nat \ {0} /\ Len(Tail(q)) = Len(q) - 1
         /\ Head(q) = q[1] /\ q[1] \in Writes
         /\ \A i \in 1..Len(q) - 1 : Tail(q)[i] = q[i + 1]
  OBVIOUS

(* The queue with writes behind it, place by place.                        *)
LEMMA PushSeq ==
  ASSUME NEW q \in Seq(Writes), NEW w \in Seq(Writes)
  PROVE  /\ q \o w \in Seq(Writes)
         /\ Len(q \o w) = Len(q) + Len(w)
         /\ \A i \in 1..Len(q) : (q \o w)[i] = q[i]
         /\ \A i \in 1..Len(w) : (q \o w)[Len(q) + i] = w[i]
         /\ \A i \in 1..Len(q \o w) : i <= Len(q) \/ (i - Len(q) \in 1..Len(w) /\ (q \o w)[i] = w[i - Len(q)])
  OBVIOUS

(* Three writes put together as the code does, place by place.             *)
LEMMA ThreeWrites ==
  ASSUME NEW a \in Writes, NEW b \in Writes, NEW c \in Writes
  PROVE  /\ <<a>> \o <<b, c>> \in Seq(Writes) /\ <<b, c>> \o <<a>> \in Seq(Writes)
         /\ Len(<<a>> \o <<b, c>>) = 3 /\ Len(<<b, c>> \o <<a>>) = 3
         /\ (<<a>> \o <<b, c>>)[1] = a /\ (<<a>> \o <<b, c>>)[2] = b /\ (<<a>> \o <<b, c>>)[3] = c
         /\ (<<b, c>> \o <<a>>)[1] = b /\ (<<b, c>> \o <<a>>)[2] = c /\ (<<b, c>> \o <<a>>)[3] = a
<1>1. <<a>> \in Seq(Writes) /\ Len(<<a>>) = 1 /\ <<a>>[1] = a
  OBVIOUS
<1>2. <<b, c>> \in Seq(Writes) /\ Len(<<b, c>>) = 2 /\ <<b, c>>[1] = b /\ <<b,c>>[2] = c
  OBVIOUS
<1> QED
  BY <1>1, <1>2

(* To extend a sequence is to have it as a prefix.                         *)
LEMMA PrefixIsExtends ==
  ASSUME NEW s \in Seq(Nat), NEW t \in Seq(Nat)
  PROVE  IsPrefix(s, t) <=> Extends(t, s)
<1>1. ASSUME Len(s) <= Len(t)
      PROVE  /\ SubSeq(s, 1, Len(s)) = [i \in 1..Len(s) |-> s[i]]
             /\ SubSeq(t, 1, Len(s)) = [i \in 1..Len(s) |-> t[i]]
  BY <1>1 
<1> QED
  BY <1>1 DEF IsPrefix, Extends
-----------------------------------------------------------------------------
(* What the queue makes of an answer, and of a lock that expired.          *)
LEMMA AnsweredIsJob ==
  ASSUME NEW j \in StageJobs(Runs), NEW outcome
  PROVE  Answered(j, outcome) \in StageJobs(Runs)
<1>1. j.attempts \in Nat /\ j.attempts + 1 \in Nat
  BY DEF StageJobs
<1>2. CASE outcome = "ok"
  BY <1>2 DEF Answered, StageJobs, JobStates
<1>3. CASE outcome # "ok"
  <2> DEFINE state == IF outcome = "transient" /\ j.attempts + 1 < MaxAttempts THEN "waiting" ELSE "failed"
  <2>1. state \in JobStates
    BY DEF JobStates
  <2>2. Answered(j, outcome) = [j EXCEPT !.attempts = j.attempts + 1, !.owner = NoToken, !.state = state]
    BY <1>3 DEF Answered
  <2> HIDE DEF state
  <2> QED
    BY <1>1, <2>1, <2>2 DEF StageJobs
<1> QED
  BY <1>2, <1>3

(* A job whose lock expired is a job (Stalled).                            *)
LEMMA StalledIsJob ==
  ASSUME NEW j \in StageJobs(Runs)
  PROVE  Stalled(j) \in StageJobs(Runs)
<1> DEFINE state == IF j.stalls < MaxStalled THEN "waiting" ELSE "failed"
<1>1. state \in JobStates /\ j.stalls \in Nat /\ j.stalls + 1 \in Nat
  BY DEF JobStates, StageJobs
<1>2. Stalled(j) = [j EXCEPT !.stalls = j.stalls + 1, !.owner = NoToken, !.state = state]
  BY DEF Stalled
<1> HIDE DEF state
<1> QED
  BY <1>1, <1>2 DEF StageJobs

(* The job that an execution owns is there, and its settlements are jobs.  *)
LEMMA OwnedJob ==
  ASSUME Types, NEW r \in Runs, OwnedBy(job[Of(r)], r)
  PROVE  /\ Of(r) \in Streams /\ job[Of(r)].state # "absent"
         /\ Stalled(job[Of(r)]) \in StageJobs(Runs)
         /\ Stalled(job[Of(r)]).state # "absent"
         /\ \A outcome : Answered(job[Of(r)], outcome) \in StageJobs(Runs)
         /\ \A outcome : Answered(job[Of(r)], outcome).state # "absent"
<1>1. Of(r) \in Streams
  BY DEF Types, Executions, Of
<1>2. job[Of(r)] \in StageJobs(Runs)
  BY <1>1 DEF Types
<1>3. \A outcome : Answered(job[Of(r)], outcome).state # "absent"
  <2> SUFFICES ASSUME NEW outcome PROVE Answered(job[Of(r)], outcome).state # "absent"
    OBVIOUS
  <2> DEFINE j == job[Of(r)]
  <2>1. CASE outcome = "ok"
    BY <1>2, <2>1 DEF Answered, StageJobs
  <2>2. CASE outcome # "ok"
    <3> DEFINE state == IF outcome = "transient" /\ j.attempts + 1 < MaxAttempts THEN "waiting" ELSE "failed"
    <3>1. Answered(j, outcome) = [j EXCEPT !.attempts = j.attempts + 1, !.owner = NoToken, !.state = state]
      BY <2>2 DEF Answered
    <3>2. state # "absent"
      OBVIOUS
    <3> HIDE DEF state
    <3> QED
      BY <1>2, <3>1, <3>2 DEF StageJobs
  <2> QED
    BY <2>1, <2>2
<1>4. Stalled(job[Of(r)]).state # "absent"
  BY <1>2 DEF Stalled, StageJobs
<1> QED
  BY <1>1, <1>2, <1>3, <1>4, AnsweredIsJob, StalledIsJob DEF OwnedBy

(* An idle slot is an execution record.                                    *)
LEMMA NoRunIsExecution == NoRun \in Executions /\ PartsFit(NoRun)
<1>1. 1 \in Streams /\ 0 \in 0..PartsPerSegment /\ <<>> \in Segs /\ <<>> \in Seq(Writes)
  BY BroadcastAssumption DEF Streams, Segs
<1> QED
  BY <1>1, BroadcastAssumption DEF NoRun, Executions, RunPlaces, Outcomes, PartsFit

(* A record that takes the place of another keeps the types.               *)
LEMMA BecomesTypes ==
  ASSUME Types, NEW r \in Runs, NEW x \in Executions, PartsFit(x),
         run' = [run EXCEPT ![r] = x]
  PROVE  /\ run' \in [Runs -> Executions]
         /\ \A u \in Runs : PartsFit(run'[u])
         /\ run'[r] = x /\ \A u \in Runs \ {r} : run'[u] = run[u]
  BY DEF Types

-----------------------------------------------------------------------------
(* The steps of an execution that neither write nor queue a write: it      *)
(* ends, or goes on to a place outside the session with its queue empty.   *)
JobSettles(r) ==
  \/ UNCHANGED job
  \/ /\ OwnedBy(job[Of(r)], r)
     /\ \E j \in StageJobs(Runs) : j.state # "absent" /\ job' = [job EXCEPT ![Of(r)] = j]

Ends(r) == run' = [run EXCEPT ![r] = NoRun] /\ JobSettles(r)

ToPlace(r, place) ==
  /\ UNCHANGED job
  /\ \E x \in Executions :
       /\ run' = [run EXCEPT ![r] = x]
       /\ x.pc = place /\ x.stream = Of(r) /\ x.segs = run[r].segs /\ x.parts = run[r].parts
       /\ x.queue = <<>> /\ x.keyed = (run[r].keyed \/ place = "wait")

Places == {"wait", "open", "lastKick", "check", "archive", "flip", "next", "kick"}
Goes(r) == Ends(r) \/ \E place \in Places : ToPlace(r, place)

(* A stage that returns ends its execution.                                *)
LEMMA SettleEnds ==
  ASSUME Types, NEW r \in Runs, NEW outcome, Settle(r, outcome)
  PROVE  Ends(r)
<1>1. run' = [run EXCEPT ![r] = NoRun]
  BY DEF Settle, Becomes
<1>2. CASE OwnedBy(job[Of(r)], r)
  BY <1>1, <1>2, OwnedJob DEF Settle, Ends, JobSettles
<1>3. CASE ~OwnedBy(job[Of(r)], r)
  BY <1>1, <1>3 DEF Settle, Ends, JobSettles
<1> QED
  BY <1>2, <1>3

(* A stage that goes on to another place with an empty queue.              *)
LEMMA ReturnedGoes ==
  ASSUME Types, NEW r \in Runs, NEW place \in RunPlaces \ {"wait"}, run[r].queue = <<>>, UNCHANGED job,
         NEW outcome \in Outcomes, run' = [run EXCEPT ![r] = [run[r] EXCEPT !.pc = place, !.outcome = outcome]]
  PROVE  ToPlace(r, place)
<1>1. run[r] \in Executions
  BY DEF Types
<1> DEFINE x == [run[r] EXCEPT !.pc = place, !.outcome = outcome]
<1>2. /\ x \in Executions /\ x.pc = place /\ x.stream = Of(r) /\ x.segs = run[r].segs
      /\ x.parts = run[r].parts /\ x.queue = <<>> /\ x.keyed = run[r].keyed
  BY <1>1 DEF Executions, Of
<1>3. run[r].keyed \in BOOLEAN
  BY <1>1 DEF Executions
<1> HIDE DEF x
<1>4. run' = [run EXCEPT ![r] = x]
  BY DEF x
<1>5. x.keyed = (run[r].keyed \/ place = "wait")
  BY <1>2, <1>3, Zenon
<1> QED
  BY <1>2, <1>4, <1>5 DEF ToPlace

(* The same, when only the place changes.                                  *)
LEMMA GotoGoes ==
  ASSUME Types, NEW r \in Runs, NEW place \in RunPlaces \ {"wait"}, run[r].queue = <<>>, UNCHANGED job,
         Goto(r, place)
  PROVE  ToPlace(r, place)
<1>1. run[r] \in Executions
  BY DEF Types
<1>2. [run[r] EXCEPT !.pc = place] = [run[r] EXCEPT !.pc = place, !.outcome = run[r].outcome]
  BY <1>1 DEF Executions
<1>3. run[r].outcome \in Outcomes
  BY <1>1 DEF Executions
<1> QED
  BY <1>2, <1>3, ReturnedGoes DEF Goto, Becomes

(* A broadcast that is not over: the execution ends, or drops the publisher. *)
LEMMA UnsuccessfulGoes ==
  ASSUME Types, NEW r \in Runs, NEW outcome \in Outcomes, run[r].queue = <<>>, Unsuccessful(r, outcome)
  PROVE  Ends(r) \/ ToPlace(r, "lastKick")
<1>1. CASE run[r].last
  <2>1. "lastKick" \in RunPlaces \ {"wait"}
    BY DEF RunPlaces
  <2>2. run' = [run EXCEPT ![r] = [run[r] EXCEPT !.pc = "lastKick", !.outcome = outcome]] /\ UNCHANGED job
    BY <1>1 DEF Unsuccessful, Becomes
  <2> QED
    BY <2>1, <2>2, ReturnedGoes
<1>2. CASE ~run[r].last
  BY <1>2, SettleEnds DEF Unsuccessful
<1> QED
  BY <1>1, <1>2

(* Where each of those steps may lead: LoadStream.  Ended rows go to the   *)
(* archive, others wait for a publisher.                                   *)
LEMMA LoadGoes ==
  ASSUME Types, OneHolder, NEW r \in Runs, LoadStream(r)
  PROVE  \/ Ends(r)
         \/ ToPlace(r, "archive") /\ stream[Of(r)].status = "ENDED"
         \/ ToPlace(r, "wait") /\ stream[Of(r)].status # "ENDED"
<1>1. run[r] \in Executions /\ run[r].queue = <<>>
  BY DEF Types, LoadStream, At, OneHolder
<1>2. CASE CallFails /\ Settle(r, "transient")
  BY <1>2, SettleEnds
<1>3. CASE UNCHANGED job /\ stream[Of(r)].status = "ENDED" /\ Goto(r, "archive")
  BY <1>1, <1>3, GotoGoes DEF RunPlaces
<1>4. CASE /\ UNCHANGED job /\ stream[Of(r)].status # "ENDED"
           /\ Becomes(r, [run[r] EXCEPT !.pc = "wait", !.keyed = TRUE])
  <2> DEFINE x == [run[r] EXCEPT !.pc = "wait", !.keyed = TRUE]
  <2>1. /\ x \in Executions /\ x.pc = "wait" /\ x.stream = Of(r) /\ x.segs = run[r].segs
        /\ x.parts = run[r].parts /\ x.queue = <<>> /\ x.keyed = TRUE
    BY <1>1 DEF Executions, Of, RunPlaces
  <2> HIDE DEF x
  <2>2. run' = [run EXCEPT ![r] = x]
    BY <1>4 DEF x, Becomes
  <2> QED
    BY <1>4, <2>1, <2>2 DEF ToPlace
<1> QED
  BY <1>2, <1>3, <1>4 DEF LoadStream

(* WaitForPublisher: on to the session, or the attempt is unsuccessful.    *)
LEMMA WaitGoes ==
  ASSUME Types, OneHolder, NEW r \in Runs, WaitForPublisher(r)
  PROVE  Ends(r) \/ ToPlace(r, "open") \/ ToPlace(r, "lastKick")
<1>1. run[r].queue = <<>>
  BY DEF WaitForPublisher, At, OneHolder
<1>2. CASE Returned(r, "open")
  BY <1>1, <1>2, GotoGoes DEF Returned, RunPlaces
<1>3. CASE Unsuccessful(r, "transient")
  BY <1>1, <1>3, UnsuccessfulGoes DEF Outcomes
<1> QED
  BY <1>2, <1>3 DEF WaitForPublisher

(* Drained: on to the check, or the attempt is unsuccessful.               *)
LEMMA DrainedGoes ==
  ASSUME Types, NEW r \in Runs, Drained(r)
  PROVE  Ends(r) \/ ToPlace(r, "check") \/ ToPlace(r, "lastKick")
<1>1. run[r].queue = <<>>
  BY DEF Drained
<1>2. CASE Returned(r, "check")
  BY <1>1, <1>2, GotoGoes DEF Returned, RunPlaces
<1>3. CASE Unsuccessful(r, "transient")
  BY <1>1, <1>3, UnsuccessfulGoes DEF Outcomes
<1> QED
  BY <1>2, <1>3 DEF Drained

(* CheckPublisher: the broadcast is over, or the attempt unsuccessful.     *)
LEMMA CheckGoes ==
  ASSUME Types, OneHolder, NEW r \in Runs, CheckPublisher(r)
  PROVE  Ends(r) \/ ToPlace(r, "archive") \/ ToPlace(r, "lastKick")
<1>1. run[r].queue = <<>> /\ run[r].outcome \in Outcomes
  BY DEF CheckPublisher, At, OneHolder, Types, Executions
<1>2. CASE Becomes(r, [run[r] EXCEPT !.pc = "archive", !.outcome = "ok"]) /\ UNCHANGED job
  BY <1>1, <1>2, ReturnedGoes DEF Becomes, RunPlaces, Outcomes
<1>3. CASE Unsuccessful(r, IF run[r].outcome = "ok" THEN "transient" ELSE run[r].outcome)
  <2> DEFINE outcome == IF run[r].outcome = "ok" THEN "transient" ELSE run[r].outcome
  <2>1. outcome \in Outcomes
    BY <1>1 DEF Outcomes
  <2> HIDE DEF outcome
  <2>2. Unsuccessful(r, outcome)
    BY <1>3 DEF outcome
  <2> QED
    BY <1>1, <2>1, <2>2, UnsuccessfulGoes
<1> QED
  BY <1>2, <1>3 DEF CheckPublisher

(* The steps that end a broadcast, and what they do to its row.            *)
LEMMA EndingGoes ==
  ASSUME Types, OneHolder, NEW r \in Runs
  PROVE  /\ LastKick(r) => ToPlace(r, "archive")
         /\ FlipVideo(r) => Ends(r) \/ (ToPlace(r, "next") /\ run[r].keyed)
         /\ LookAtNext(r) => \/ Ends(r) /\ (stream[Open].status = "LIVE" \/ errors' # errors)
                             \/ ToPlace(r, "kick")
         /\ KickOrphan(r) => Ends(r)
         /\ Crash(r) => Ends(r)
         /\ EndStream(r) => \/ Ends(r) /\ UNCHANGED stream
                            \/ /\ ToPlace(r, "flip") /\ run[r].queue = <<>> /\ ~run[r].broken
                               /\ stream' = IF stream[Of(r)].status = "LIVE"
                                            THEN [stream EXCEPT ![Of(r)].status = "ENDED",
                                                                ![Of(r) + 1].status = "IDLE"]
                                            ELSE stream
<1>1. run[r].pc \in {"lastKick", "flip", "next", "kick"} => run[r].queue = <<>>
  BY DEF OneHolder
<1>2. LastKick(r) => ToPlace(r, "archive")
  BY <1>1, GotoGoes DEF LastKick, At, RunPlaces
<1>3. FlipVideo(r) => Ends(r) \/ (ToPlace(r, "next") /\ run[r].keyed)
  BY <1>1, GotoGoes, SettleEnds DEF FlipVideo, Returned, At, RunPlaces
<1>4. LookAtNext(r) => \/ Ends(r) /\ (stream[Open].status = "LIVE" \/ errors' # errors)
                       \/ ToPlace(r, "kick")
  BY <1>1, GotoGoes, SettleEnds DEF LookAtNext, Returned, At, RunPlaces
<1>5. KickOrphan(r) => Ends(r)
  BY SettleEnds DEF KickOrphan
<1>6. Crash(r) => Ends(r)
  <2> SUFFICES ASSUME Crash(r) PROVE Ends(r)
    OBVIOUS
  <2>1. run' = [run EXCEPT ![r] = NoRun]
    BY DEF Crash, Becomes
  <2>2. CASE OwnedBy(job[Of(r)], r)
    BY <2>1, <2>2, OwnedJob DEF Crash, Lost, Ends, JobSettles
  <2>3. CASE ~OwnedBy(job[Of(r)], r)
    BY <2>1, <2>3 DEF Crash, Ends, JobSettles
  <2> QED
    BY <2>2, <2>3
<1>7. EndStream(r) => \/ Ends(r) /\ UNCHANGED stream
                      \/ /\ ToPlace(r, "flip") /\ run[r].queue = <<>> /\ ~run[r].broken
                         /\ stream' = IF stream[Of(r)].status = "LIVE"
                                      THEN [stream EXCEPT ![Of(r)].status = "ENDED",
                                                          ![Of(r) + 1].status = "IDLE"]
                                      ELSE stream
  <2> SUFFICES ASSUME EndStream(r)
               PROVE  \/ Ends(r) /\ UNCHANGED stream
                      \/ /\ ToPlace(r, "flip") /\ run[r].queue = <<>> /\ ~run[r].broken
                         /\ stream' = IF stream[Of(r)].status = "LIVE"
                                      THEN [stream EXCEPT ![Of(r)].status = "ENDED",
                                                          ![Of(r) + 1].status = "IDLE"]
                                      ELSE stream
    OBVIOUS
  <2>1. CASE Settle(r, "transient") /\ UNCHANGED stream
    BY <2>1, SettleEnds
  <2>2. CASE /\ ~run[r].broken /\ Returned(r, "flip")
             /\ stream' = IF stream[Of(r)].status = "LIVE"
                          THEN [stream EXCEPT ![Of(r)].status = "ENDED", ![Of(r) + 1].status = "IDLE"]
                          ELSE stream
    <3>1. run[r].queue = <<>>
      BY DEF EndStream
    <3>2. ToPlace(r, "flip")
      BY <2>2, <3>1, GotoGoes DEF Returned, RunPlaces
    <3> QED
      BY <2>2, <3>1, <3>2
  <2> QED
    BY <2>1, <2>2 DEF EndStream
<1> QED
  BY <1>2, <1>3, <1>4, <1>5, <1>6, <1>7

-----------------------------------------------------------------------------
(* The types of the writes, and of the records the session makes.          *)
LEMMA KeysAreMedia ==
  ASSUME NEW e \in Nat, NEW i \in 0..MaxSegments, NEW p \in 0..PartsPerSegment
  PROVE  {InitKey(e), SegmentKey(e, i), PartKey(e, i, p)} \subseteq MediaKeys
  BY BroadcastAssumption DEF InitKey, SegmentKey, PartKey, MediaKeys

(* Every Put of the model is a write.                                      *)
LEMMA PutIsWrite ==
  /\ \A key \in MediaKeys : Put("media", key) \in Writes
  /\ \A body \in SUBSET MediaKeys : Put("index", body) \in Writes
  /\ \A body \in States : Put("state", body) \in Writes
  /\ \A body \in Archives : Put("archive", body) \in Writes
  /\ \A body \in Masters : Put("master", body) \in Writes
  BY DEF Put, Writes

(* writeLiveArchive: the state, then the playlist.                         *)
LEMMA ArchiveWritesFacts ==
  ASSUME NEW epochs \in Nat, NEW segs \in Segs, NEW ended \in BOOLEAN
  PROVE  LET w == ArchiveWrites(epochs, segs, ended) IN
         /\ w \in Seq(Writes) /\ Len(w) = 2
         /\ w[1] = Put("state", [epochs |-> epochs, segs |-> segs])
         /\ w[2] = Put("archive", [segs |-> segs, ended |-> ended])
         /\ w[1] \in Writes /\ w[2] \in Writes
<1>1. [epochs |-> epochs, segs |-> segs] \in States /\ [segs |-> segs, ended |-> ended] \in Archives
  BY DEF States, Archives
<1>2. /\ Put("state", [epochs |-> epochs, segs |-> segs]) \in Writes
      /\ Put("archive", [segs |-> segs, ended |-> ended]) \in Writes
  BY <1>1, PutIsWrite
<1> QED
  BY <1>2 DEF ArchiveWrites

(* The writes that close a segment.                                        *)
ClosingWrites(epoch, segs) ==
  <<Put("media", SegmentKey(epoch, Len(segs)))>> \o ArchiveWrites(epoch + 1, segs, FALSE)

(* closeSegment: the segment, the state, the playlist.                     *)
LEMMA ClosingWritesFacts ==
  ASSUME NEW epoch \in Nat, NEW segs \in Segs
  PROVE  LET w == ClosingWrites(epoch, segs) IN
         /\ w \in Seq(Writes) /\ Len(w) = 3
         /\ w[1] = Put("media", SegmentKey(epoch, Len(segs)))
         /\ w[2] = Put("state", [epochs |-> epoch + 1, segs |-> segs])
         /\ w[3] = Put("archive", [segs |-> segs, ended |-> FALSE])
<1>1. Len(segs) \in 0..MaxSegments /\ epoch + 1 \in Nat
  BY DEF Segs
<1>2. Put("media", SegmentKey(epoch, Len(segs))) \in Writes
  BY <1>1, KeysAreMedia, PutIsWrite, BroadcastAssumption
<1> DEFINE aw == ArchiveWrites(epoch + 1, segs, FALSE)
<1>3. /\ aw \in Seq(Writes) /\ Len(aw) = 2
      /\ aw[1] = Put("state", [epochs |-> epoch + 1, segs |-> segs])
      /\ aw[2] = Put("archive", [segs |-> segs, ended |-> FALSE])
      /\ aw[1] \in Writes /\ aw[2] \in Writes
  BY <1>1, ArchiveWritesFacts
<1> HIDE DEF aw
<1>4. aw = <<aw[1], aw[2]>>
  BY <1>3
<1>5. ClosingWrites(epoch, segs) = <<Put("media", SegmentKey(epoch, Len(segs)))>> \o <<aw[1], aw[2]>>
  BY <1>4 DEF ClosingWrites, aw
<1> QED
  BY <1>2, <1>3, <1>5, ThreeWrites

(* A playlist lists keys of media (Listed).                                *)
LEMMA ListedIsMedia ==
  ASSUME NEW x \in Executions, x.parts > 0 => Len(x.segs) < MaxSegments
  PROVE  Listed(x.segs, x.own, x.epoch, x.parts) \subseteq MediaKeys
<1>1. /\ x.segs \in Seq(Nat) /\ Len(x.segs) \in Nat /\ Len(x.segs) <= MaxSegments
      /\ x.epoch \in Nat /\ x.own \in Nat /\ x.parts \in 0..PartsPerSegment
  BY DEF Executions, Segs
<1>2. \A i \in 1..Len(x.segs) : x.segs[i] \in Nat /\ i \in 0..MaxSegments
  <2>1. \A i \in 1..Len(x.segs) : x.segs[i] \in Nat
    BY <1>1, ElementOfSeq
  <2>2. MaxSegments \in Nat
    BY BroadcastAssumption
  <2>3. \A i \in 1..Len(x.segs) : i \in 0..MaxSegments
    BY <1>1, <2>2
  <2> QED
    BY <2>1, <2>3
<1>3. \A i \in 1..Len(x.segs) : {InitKey(x.segs[i]), SegmentKey(x.segs[i], i)} \subseteq MediaKeys
  BY <1>2, KeysAreMedia, BroadcastAssumption
<1>4. \A i \in 1..Len(x.segs), p \in 1..PartsPerSegment : PartKey(x.epoch, i, p) \in MediaKeys
  BY <1>1, <1>2, KeysAreMedia, BroadcastAssumption
<1>5. \A p \in 1..x.parts : PartKey(x.epoch, Len(x.segs) + 1, p) \in MediaKeys
  <2> SUFFICES ASSUME NEW p \in 1..x.parts PROVE PartKey(x.epoch, Len(x.segs) + 1, p) \in MediaKeys
    OBVIOUS
  <2>1. Len(x.segs) + 1 \in 0..MaxSegments /\ p \in 0..PartsPerSegment
    BY <1>1, BroadcastAssumption
  <2> QED
    BY <1>1, <2>1, KeysAreMedia
<1>6. InitKey(x.epoch) \in MediaKeys
  BY <1>1, KeysAreMedia, BroadcastAssumption
<1> QED
  BY <1>3, <1>4, <1>5, <1>6 DEF Listed

(* All that a part, a closed segment or a playlist leaves of a record.     *)
Same(x, record) ==
  /\ x \in Executions
  /\ x.pc = record.pc /\ x.stream = record.stream /\ x.keyed = record.keyed
  /\ x.epoch = record.epoch /\ x.own = record.own /\ x.broken = record.broken

Behind(q, record, writes) == q = IF record.broken THEN record.queue ELSE record.queue \o writes

(* What Enqueue changes of a record: its queue.                            *)
LEMMA EnqueueFields ==
  ASSUME NEW record \in Executions, NEW writes \in Seq(Writes)
  PROVE  LET x == Enqueue(record, writes) IN
         /\ Same(x, record) /\ x.segs = record.segs /\ x.parts = record.parts
         /\ Behind(x.queue, record, writes)
<1>1. CASE record.broken
  BY <1>1 DEF Enqueue, Same, Behind
<1>2. CASE ~record.broken
  <2>1. record.queue \o writes \in Seq(Writes)
    BY DEF Executions
  <2>2. Enqueue(record, writes) = [record EXCEPT !.queue = record.queue \o writes]
    BY <1>2 DEF Enqueue
  <2> QED
    BY <1>2, <2>1, <2>2 DEF Executions, Same, Behind
<1> QED
  BY <1>1, <1>2

(* What WithPart changes of a record: the part, and its write.             *)
LEMMA PartFields ==
  ASSUME NEW record \in Executions, Len(record.segs) < MaxSegments, record.parts < PartsPerSegment
  PROVE  LET x == WithPart(record)
             key == PartKey(record.epoch, Len(record.segs) + 1, record.parts + 1)
         IN  /\ Same(x, record) /\ x.segs = record.segs /\ x.parts = record.parts + 1
             /\ Behind(x.queue, record, <<Put("media", key)>>)
             /\ Put("media", key) \in Writes
<1> DEFINE key == PartKey(record.epoch, Len(record.segs) + 1, record.parts + 1)
           next == [record EXCEPT !.parts = record.parts + 1]
<1>1. /\ record.epoch \in Nat /\ Len(record.segs) + 1 \in 0..MaxSegments
      /\ record.parts + 1 \in 0..PartsPerSegment
  BY BroadcastAssumption DEF Executions, Segs
<1>2. Put("media", key) \in Writes
  BY <1>1, KeysAreMedia, PutIsWrite
<1>3. Same(next, record) /\ next.segs = record.segs /\ next.parts = record.parts + 1
      /\ next.queue = record.queue
  BY <1>1 DEF Executions, Same
<1>4. WithPart(record) = Enqueue(next, <<Put("media", key)>>)
  BY DEF WithPart
<1>5. <<Put("media", key)>> \in Seq(Writes)
  BY <1>2
<1> HIDE DEF next, key
<1>6. LET x == Enqueue(next, <<Put("media", key)>>) IN
      /\ Same(x, next) /\ x.segs = next.segs /\ x.parts = next.parts
      /\ Behind(x.queue, next, <<Put("media", key)>>)
  BY <1>3, <1>5, EnqueueFields DEF Same
<1> QED
  BY <1>2, <1>3, <1>4, <1>6 DEF Same, Behind, key

(* What Closed changes of a record: the segment, and its three writes.     *)
LEMMA ClosedFields ==
  ASSUME NEW record \in Executions, Len(record.segs) < MaxSegments
  PROVE  LET x == Closed(record) IN
         /\ Same(x, record) /\ x.parts = 0 /\ x.segs = Append(record.segs, record.epoch)
         /\ x.segs \in Segs
         /\ Behind(x.queue, record, ClosingWrites(record.epoch, x.segs))
<1> DEFINE segs == Append(record.segs, record.epoch)
           next == [record EXCEPT !.segs = segs, !.parts = 0]
<1>1. segs \in Segs /\ record.epoch \in Nat
  BY BroadcastAssumption DEF Executions, Segs
<1>2. 0 \in 0..PartsPerSegment
  BY BroadcastAssumption
<1>3. Same(next, record) /\ next.segs = segs /\ next.parts = 0 /\ next.queue = record.queue
  BY <1>1, <1>2 DEF Executions, Same
<1>4. Closed(record) = Enqueue(next, ClosingWrites(record.epoch, segs))
  BY DEF Closed, ClosingWrites
<1> HIDE DEF next, segs
<1>5. ClosingWrites(record.epoch, segs) \in Seq(Writes)
  BY <1>1, ClosingWritesFacts
<1>6. LET x == Enqueue(next, ClosingWrites(record.epoch, segs)) IN
      /\ Same(x, next) /\ x.segs = next.segs /\ x.parts = next.parts
      /\ Behind(x.queue, next, ClosingWrites(record.epoch, segs))
  BY <1>3, <1>5, EnqueueFields DEF Same
<1> QED
  BY <1>1, <1>3, <1>4, <1>6 DEF Same, Behind, segs

(* What WithPlaylist changes of a record: the write of the playlist.       *)
LEMMA PlaylistFields ==
  ASSUME NEW record \in Executions, record.parts > 0 => Len(record.segs) < MaxSegments
  PROVE  LET x == WithPlaylist(record)
             body == Listed(record.segs, record.own, record.epoch, record.parts)
         IN  /\ Same(x, record) /\ x.segs = record.segs /\ x.parts = record.parts
             /\ Behind(x.queue, record, <<Put("index", body)>>)
             /\ Put("index", body) \in Writes
<1> DEFINE body == Listed(record.segs, record.own, record.epoch, record.parts)
<1>1. Put("index", body) \in Writes
  BY ListedIsMedia, PutIsWrite
<1>2. <<Put("index", body)>> \in Seq(Writes)
  BY <1>1
<1>3. WithPlaylist(record) = Enqueue(record, <<Put("index", body)>>)
  BY DEF WithPlaylist
<1> HIDE DEF body
<1> QED
  BY <1>1, <1>2, <1>3, EnqueueFields DEF body

-----------------------------------------------------------------------------
(* The steps of a session and of the archive, on the record they leave.    *)
Opened(r, x) ==
  /\ x \in Executions /\ PartsFit(x)
  /\ x.pc = "connect" /\ x.stream = Of(r) /\ x.keyed = run[r].keyed /\ x.parts = 0
  /\ x.epoch = store[Of(r)].state.epochs /\ x.segs = store[Of(r)].state.segs
  /\ x.own = Len(x.segs) /\ x.queue = <<Put("master", "index")>>

(* The broadcast of an execution and its objects have their types.         *)
LEMMA StoreTypes ==
  ASSUME Types, NEW r \in Runs
  PROVE  /\ Of(r) \in Streams /\ store[Of(r)] \in Stores
         /\ store[Of(r)].state \in States
         /\ store[Of(r)].state.segs \in Segs /\ store[Of(r)].state.epochs \in Nat
         /\ store[Of(r)].state.segs \in Seq(Nat) /\ Len(store[Of(r)].state.segs) \in Nat
<1>1. Of(r) \in Streams
  BY DEF Types, Executions, Of
<1>2. store[Of(r)] \in Stores
  BY <1>1 DEF Types
<1> QED
  BY <1>1, <1>2 DEF Stores, States, Segs

(* OpenSession: the record it leaves, or the attempt is unsuccessful.      *)
LEMMA OpenSessionLeaves ==
  ASSUME Types, OneHolder, NEW r \in Runs, OpenSession(r)
  PROVE  \/ Ends(r) \/ ToPlace(r, "lastKick")
         \/ UNCHANGED job /\ \E x : Opened(r, x) /\ run' = [run EXCEPT ![r] = x]
<1>1. run[r] \in Executions /\ run[r].queue = <<>> /\ run[r].parts = 0
  BY DEF Types, OpenSession, At, OneHolder
<1>2. CASE Unsuccessful(r, "transient")
  BY <1>1, <1>2, UnsuccessfulGoes DEF Outcomes
<1>3. CASE ~Unsuccessful(r, "transient")
  <2> DEFINE archive == store[Of(r)].state
             x == [run[r] EXCEPT !.pc = "connect", !.epoch = archive.epochs, !.segs = archive.segs,
                                 !.own = Len(archive.segs), !.queue = <<Put("master", "index")>>]
  <2>1. archive.segs \in Segs /\ archive.epochs \in Nat /\ Len(archive.segs) \in Nat
    BY StoreTypes
  <2>2. <<Put("master", "index")>> \in Seq(Writes)
    BY PutIsWrite DEF Masters
  <2>3. x \in Executions
    BY <1>1, <2>1, <2>2 DEF Executions, RunPlaces
  <2>4. /\ x.pc = "connect" /\ x.stream = Of(r) /\ x.keyed = run[r].keyed /\ x.parts = 0
        /\ x.epoch = store[Of(r)].state.epochs /\ x.segs = store[Of(r)].state.segs
        /\ x.own = Len(x.segs) /\ x.queue = <<Put("master", "index")>>
    BY <1>1 DEF Executions, Of
  <2>5. UNCHANGED job /\ run' = [run EXCEPT ![r] = x]
    BY <1>3 DEF OpenSession, Becomes
  <2> HIDE DEF x
  <2>6. Opened(r, x)
    BY <2>3, <2>4, BroadcastAssumption DEF Opened, PartsFit
  <2> QED
    BY <2>5, <2>6
<1> QED
  BY <1>2, <1>3

(* What finalize writes of a broadcast of which something was recorded.    *)
FinalWrites(st) ==
  ArchiveWrites(st.state.epochs, st.state.segs, TRUE) \o <<Put("master", "archive")>>

Loaded(r, x) ==
  /\ x \in Executions /\ PartsFit(x)
  /\ x.pc = "closing" /\ x.stream = Of(r) /\ x.keyed = run[r].keyed /\ ~x.broken
  /\ x.epoch = store[Of(r)].state.epochs /\ x.segs = store[Of(r)].state.segs
  /\ x.queue = IF store[Of(r)].state.segs = <<>> THEN <<>> ELSE FinalWrites(store[Of(r)])

(* finalize: the state, the closed playlist, the master playlist.          *)
LEMMA FinalWritesFacts ==
  ASSUME NEW st \in Stores
  PROVE  /\ FinalWrites(st) \in Seq(Writes) /\ Len(FinalWrites(st)) = 3
         /\ FinalWrites(st)[1] = Put("state", st.state)
         /\ FinalWrites(st)[2] = Put("archive", Whole(st))
         /\ FinalWrites(st)[3] = Put("master", "archive")
<1>1. /\ st.state.epochs \in Nat /\ st.state.segs \in Segs
      /\ st.state = [epochs |-> st.state.epochs, segs |-> st.state.segs]
  BY DEF Stores, States
<1> DEFINE aw == ArchiveWrites(st.state.epochs, st.state.segs, TRUE)
<1>2. /\ aw \in Seq(Writes) /\ Len(aw) = 2
      /\ aw[1] = Put("state", [epochs |-> st.state.epochs, segs |-> st.state.segs])
      /\ aw[2] = Put("archive", [segs |-> st.state.segs, ended |-> TRUE])
      /\ aw[1] \in Writes /\ aw[2] \in Writes
  BY <1>1, ArchiveWritesFacts
<1>3. Put("master", "archive") \in Writes
  BY PutIsWrite DEF Masters
<1> HIDE DEF aw
<1>4. aw = <<aw[1], aw[2]>>
  BY <1>2
<1>5. FinalWrites(st) = <<aw[1], aw[2]>> \o <<Put("master", "archive")>>
  BY <1>4 DEF FinalWrites, aw
<1>6. aw[1] = Put("state", st.state) /\ aw[2] = Put("archive", Whole(st))
  BY <1>1, <1>2 DEF Whole
<1> QED
  BY <1>2, <1>3, <1>5, <1>6, ThreeWrites

(* LoadArchive: the record it leaves, or the execution ends.               *)
LEMMA LoadArchiveLeaves ==
  ASSUME Types, NEW r \in Runs, LoadArchive(r)
  PROVE  \/ Ends(r)
         \/ UNCHANGED job /\ \E x : Loaded(r, x) /\ run' = [run EXCEPT ![r] = x]
<1>1. run[r] \in Executions
  BY DEF Types
<1>2. CASE Settle(r, "transient")
  BY <1>2, SettleEnds
<1>3. CASE ~Settle(r, "transient")
  <2> DEFINE archive == store[Of(r)].state
             queue == IF archive.segs = <<>> THEN <<>> ELSE FinalWrites(store[Of(r)])
             x == [run[r] EXCEPT !.pc = "closing", !.segs = archive.segs, !.broken = FALSE,
                                 !.epoch = archive.epochs, !.parts = 0, !.own = 0, !.queue = queue]
  <2>1. archive.segs \in Segs /\ archive.epochs \in Nat
    BY StoreTypes
  <2>2. queue \in Seq(Writes)
    BY StoreTypes, FinalWritesFacts
  <2>3. UNCHANGED job /\ run' = [run EXCEPT ![r] = x]
    BY <1>3 DEF LoadArchive, Becomes, FinalWrites
  <2> HIDE DEF queue, archive
  <2>4. 0 \in 0..PartsPerSegment
    BY BroadcastAssumption
  <2>5. x \in Executions
    BY <1>1, <2>1, <2>2, <2>4 DEF Executions, RunPlaces
  <2>6. /\ x.pc = "closing" /\ x.stream = Of(r) /\ x.keyed = run[r].keyed /\ ~x.broken
        /\ x.epoch = store[Of(r)].state.epochs /\ x.segs = store[Of(r)].state.segs
        /\ x.queue = queue /\ x.parts = 0
    BY <1>1 DEF Executions, Of, archive
  <2> HIDE DEF x
  <2>7. Loaded(r, x)
    BY <2>5, <2>6, BroadcastAssumption DEF Loaded, PartsFit, queue, archive
  <2> QED
    BY <2>3, <2>7
<1> QED
  BY <1>2, <1>3

(* The init segment; a part, with the segment it may close, and a playlist;*)
(* the end of the session, with the segment it closes short.               *)
LEMMA AcceptInitLeaves ==
  ASSUME Types, OneHolder, NEW r \in Runs, AcceptInit(r)
  PROVE  \E x \in Executions :
           /\ run' = [run EXCEPT ![r] = x] /\ PartsFit(x)
           /\ x.pc = "encode" /\ x.stream = Of(r) /\ x.keyed = run[r].keyed
           /\ x.epoch = run[r].epoch /\ x.own = run[r].own /\ x.broken = run[r].broken
           /\ x.segs = run[r].segs /\ x.parts = 0
           /\ Behind(x.queue, run[r], <<Put("media", InitKey(run[r].epoch))>>)
           /\ Put("media", InitKey(run[r].epoch)) \in Writes
<1>1. run[r] \in Executions /\ run[r].parts = 0
  BY DEF Types, AcceptInit, At, OneHolder
<1> DEFINE next == [run[r] EXCEPT !.pc = "encode"]
           w == Put("media", InitKey(run[r].epoch))
           x == Enqueue(next, <<w>>)
<1>2. /\ next \in Executions /\ next.pc = "encode" /\ next.stream = Of(r) /\ next.keyed = run[r].keyed
      /\ next.epoch = run[r].epoch /\ next.own = run[r].own /\ next.broken = run[r].broken
      /\ next.segs = run[r].segs /\ next.parts = 0 /\ next.queue = run[r].queue
  BY <1>1 DEF Executions, RunPlaces, Of
<1>3. w \in Writes /\ <<w>> \in Seq(Writes)
  <2>1. InitKey(run[r].epoch) \in MediaKeys
    BY <1>1, KeysAreMedia, BroadcastAssumption DEF Executions
  <2> QED
    BY <2>1, PutIsWrite
<1>4. run' = [run EXCEPT ![r] = x]
  BY DEF AcceptInit, Becomes
<1> HIDE DEF next, w
<1>5. Same(x, next) /\ x.segs = next.segs /\ x.parts = next.parts /\ Behind(x.queue, next, <<w>>)
  BY <1>2, <1>3, EnqueueFields
<1> HIDE DEF x
<1>6. Behind(x.queue, run[r], <<w>>)
  BY <1>2, <1>5 DEF Behind
<1>7. PartsFit(x)
  BY <1>2, <1>5, BroadcastAssumption DEF PartsFit
<1>8. x \in Executions
  BY <1>5 DEF Same
<1> QED
  BY <1>2, <1>3, <1>4, <1>5, <1>6, <1>7, <1>8 DEF Same, w

(* EncoderStops: the record it leaves, the last segment closed.            *)
LEMMA EncoderStopsLeaves ==
  ASSUME Types, NEW r \in Runs, EncoderStops(r)
  PROVE  \E x \in Executions :
           /\ run' = [run EXCEPT ![r] = x] /\ PartsFit(x)
           /\ x.pc = "drain" /\ x.stream = Of(r) /\ x.keyed = run[r].keyed
           /\ \/ x.queue = run[r].queue /\ x.segs = run[r].segs
              \/ /\ run[r].parts > 0
                 /\ x.segs = Append(run[r].segs, run[r].epoch) /\ x.segs \in Segs
                 /\ Behind(x.queue, run[r], ClosingWrites(run[r].epoch, x.segs))
<1>1. run[r] \in Executions /\ PartsFit(run[r])
  BY DEF Types
<1>2. PICK ran \in {"ok", "transient", "permanent"} :
        run' = [run EXCEPT ![r] = [(IF run[r].parts > 0 THEN Closed(run[r]) ELSE run[r])
                                     EXCEPT !.pc = "drain", !.outcome = ran]]
  BY DEF EncoderStops, Becomes
<1> DEFINE last == IF run[r].parts > 0 THEN Closed(run[r]) ELSE run[r]
           x == [last EXCEPT !.pc = "drain", !.outcome = ran]
<1>3. /\ last \in Executions /\ last.stream = Of(r) /\ last.keyed = run[r].keyed /\ last.parts = 0
      /\ \/ last.queue = run[r].queue /\ last.segs = run[r].segs
         \/ /\ run[r].parts > 0
            /\ last.segs = Append(run[r].segs, run[r].epoch) /\ last.segs \in Segs
            /\ Behind(last.queue, run[r], ClosingWrites(run[r].epoch, last.segs))
  <2>1. CASE run[r].parts > 0
    BY <1>1, <2>1, ClosedFields DEF PartsFit, Same, Of
  <2>2. CASE ~(run[r].parts > 0)
    BY <1>1, <2>2 DEF Executions, Of
  <2> QED
    BY <2>1, <2>2
<1> HIDE DEF last
<1>4. /\ x \in Executions /\ x.pc = "drain" /\ x.stream = last.stream /\ x.keyed = last.keyed
      /\ x.queue = last.queue /\ x.segs = last.segs /\ x.parts = 0
  BY <1>3 DEF Executions, RunPlaces, Outcomes
<1>5. run' = [run EXCEPT ![r] = x]
  BY <1>2 DEF last
<1> HIDE DEF x
<1>6. PartsFit(x)
  BY <1>4, BroadcastAssumption DEF PartsFit
<1> QED
  BY <1>3, <1>4, <1>5, <1>6

(* AcceptPart: the part, the segment it may close, and the playlist.       *)
LEMMA AcceptPartLeaves ==
  ASSUME Types, NEW r \in Runs, AcceptPart(r)
  PROVE  \E x, part, last \in Executions :
           /\ run' = [run EXCEPT ![r] = x] /\ PartsFit(x)
           /\ Same(part, run[r]) /\ part.segs = run[r].segs /\ part.parts = run[r].parts + 1
           /\ LET key == PartKey(run[r].epoch, Len(run[r].segs) + 1, run[r].parts + 1) IN
              Behind(part.queue, run[r], <<Put("media", key)>>) /\ Put("media", key) \in Writes
           /\ Same(last, run[r])
           /\ \/ last = part /\ part.parts < PartsPerSegment
              \/ /\ part.parts = PartsPerSegment
                 /\ last.parts = 0 /\ last.segs = Append(run[r].segs, run[r].epoch)
                 /\ last.segs \in Segs
                 /\ Behind(last.queue, part, ClosingWrites(run[r].epoch, last.segs))
           /\ Same(x, run[r]) /\ x.segs = last.segs /\ x.parts = last.parts
           /\ LET body == Listed(last.segs, last.own, last.epoch, last.parts) IN
              Behind(x.queue, last, <<Put("index", body)>>) /\ Put("index", body) \in Writes
<1>1. run[r] \in Executions /\ PartsFit(run[r]) /\ Len(run[r].segs) < MaxSegments
  BY DEF Types, AcceptPart
<1> DEFINE part == WithPart(run[r])
           last == IF part.parts = PartsPerSegment THEN Closed(part) ELSE part
           x == WithPlaylist(last)
           key == PartKey(run[r].epoch, Len(run[r].segs) + 1, run[r].parts + 1)
<1>2. /\ Same(part, run[r]) /\ part.segs = run[r].segs /\ part.parts = run[r].parts + 1
      /\ Behind(part.queue, run[r], <<Put("media", key)>>) /\ Put("media", key) \in Writes
  BY <1>1, PartFields DEF PartsFit
<1>3. run' = [run EXCEPT ![r] = x]
  BY DEF AcceptPart, Becomes
<1> HIDE DEF part, key
<1>4. /\ Same(last, run[r])
      /\ \/ last = part /\ part.parts < PartsPerSegment
         \/ /\ part.parts = PartsPerSegment
            /\ last.parts = 0 /\ last.segs = Append(run[r].segs, run[r].epoch)
            /\ last.segs \in Segs
            /\ Behind(last.queue, part, ClosingWrites(run[r].epoch, last.segs))
  <2>1. part \in Executions /\ part.parts \in 0..PartsPerSegment
    BY <1>2 DEF Same, Executions
  <2>2. CASE part.parts = PartsPerSegment
    BY <1>1, <1>2, <2>1, <2>2, ClosedFields DEF Same
  <2>3. CASE part.parts # PartsPerSegment
    BY <1>2, <2>1, <2>3, BroadcastAssumption
  <2> QED
    BY <2>2, <2>3
<1>5. last \in Executions /\ PartsFit(last)
  BY <1>1, <1>2, <1>4, BroadcastAssumption DEF Same, PartsFit
<1> HIDE DEF last
<1>6. /\ Same(x, last) /\ x.segs = last.segs /\ x.parts = last.parts
      /\ LET body == Listed(last.segs, last.own, last.epoch, last.parts) IN
         Behind(x.queue, last, <<Put("index", body)>>) /\ Put("index", body) \in Writes
  BY <1>5, PlaylistFields DEF PartsFit
<1> HIDE DEF x
<1>7. Same(x, run[r]) /\ x \in Executions /\ part \in Executions /\ PartsFit(x)
  BY <1>2, <1>4, <1>5, <1>6 DEF Same, PartsFit
<1> QED
  BY <1>2, <1>3, <1>4, <1>5, <1>6, <1>7 DEF key

-----------------------------------------------------------------------------
(* Types.                                                                  *)
LEMMA GoesTypes ==
  ASSUME Types, NEW r \in Runs, Goes(r)
  PROVE  /\ run' \in [Runs -> Executions] /\ \A u \in Runs : PartsFit(run'[u])
         /\ job' \in [Streams -> StageJobs(Runs)]
<1>1. job' \in [Streams -> StageJobs(Runs)]
  <2>1. CASE UNCHANGED job
    BY <2>1 DEF Types
  <2>2. CASE ~UNCHANGED job
    <3>1. PICK j \in StageJobs(Runs) : job' = [job EXCEPT ![Of(r)] = j]
      BY <2>2 DEF Goes, Ends, JobSettles, ToPlace
    <3> QED
      BY <3>1, StoreTypes DEF Types
  <2> QED
    BY <2>1, <2>2
<1>2. CASE Ends(r)
  BY <1>1, <1>2, NoRunIsExecution, BecomesTypes DEF Ends
<1>3. CASE ~Ends(r)
  <2>1. PICK x \in Executions : run' = [run EXCEPT ![r] = x] /\ x.segs = run[r].segs /\ x.parts = run[r].parts
    BY <1>3 DEF Goes, ToPlace
  <2>2. PartsFit(x)
    BY <2>1 DEF Types, PartsFit
  <2> QED
    BY <1>1, <2>1, <2>2, BecomesTypes
<1> QED
  BY <1>2, <1>3

-----------------------------------------------------------------------------
(* Keys: a segment, an init segment of a new epoch and a part are not      *)
(* recorded before; appending records just the segment and its init.       *)
LEMMA RecordedKeys ==
  ASSUME NEW segs \in Seq(Nat), NEW e \in Nat
  PROVE  /\ Recorded(Append(segs, e)) =
              Recorded(segs) \cup {InitKey(e), SegmentKey(e, Len(segs) + 1)}
         /\ SegmentKey(e, Len(segs) + 1) \notin Recorded(segs)
         /\ Below(segs, e) => InitKey(e) \notin Recorded(segs)
         /\ \A i, p \in Nat \ {0} : PartKey(e, i, p) \notin Recorded(segs)
<1>1. /\ Len(segs) \in Nat /\ DOMAIN segs = 1..Len(segs) /\ DOMAIN Append(segs, e) = 1..Len(segs) + 1
      /\ \A i \in 1..Len(segs) : Append(segs, e)[i] = segs[i] /\ segs[i] \in Nat
      /\ Append(segs, e)[Len(segs) + 1] = e
  OBVIOUS
<1>2. Recorded(Append(segs, e)) =
        Recorded(segs) \cup {InitKey(e), SegmentKey(e, Len(segs) + 1)}
  <2>1. \A key : key \in Recorded(Append(segs, e)) <=>
          \E i \in 1..Len(segs) + 1 : key \in {InitKey(Append(segs, e)[i]), SegmentKey(Append(segs, e)[i], i)}
    BY <1>1 DEF Recorded
  <2>2. \A key : key \in Recorded(segs) <=>
          \E i \in 1..Len(segs) : key \in {InitKey(segs[i]), SegmentKey(segs[i], i)}
    BY <1>1 DEF Recorded
  <2>3. \A i : i \in 1..Len(segs) + 1 <=> i \in 1..Len(segs) \/ i = Len(segs) + 1
    BY <1>1
  <2> QED
    BY <1>1, <2>1, <2>2, <2>3
<1>3. SegmentKey(e, Len(segs) + 1) \notin Recorded(segs)
  BY <1>1 DEF Recorded, SegmentKey, InitKey
<1>4. Below(segs, e) => InitKey(e) \notin Recorded(segs)
  BY <1>1 DEF Recorded, SegmentKey, InitKey, Below
<1>5. \A i, p \in Nat \ {0} : PartKey(e, i, p) \notin Recorded(segs)
  BY <1>1 DEF Recorded, SegmentKey, InitKey, PartKey
<1> QED
  BY <1>2, <1>3, <1>4, <1>5

(* What is recorded of a prefix is recorded of the whole.                  *)
LEMMA RecordedGrows ==
  ASSUME NEW s \in Seq(Nat), NEW t \in Seq(Nat), Extends(t, s)
  PROVE  Recorded(s) \subseteq Recorded(t)
  BY DEF Extends, Recorded

(* Extends is a partial order, and an append extends.                      *)
LEMMA ExtendsFacts ==
  ASSUME NEW s \in Seq(Nat), NEW t \in Seq(Nat), NEW u \in Seq(Nat), NEW e \in Nat
  PROVE  /\ Extends(s, s)
         /\ Extends(t, s) /\ Extends(u, t) => Extends(u, s)
         /\ Append(s, e) \in Seq(Nat) /\ Extends(Append(s, e), s)
  BY DEF Extends

-----------------------------------------------------------------------------
(* Queues.  The media a queue will have stored, before and after one write *)
(* of it is made, and when writes are added behind it.                     *)
LEMMA MediaBeforeIs ==
  ASSUME NEW st, NEW q, NEW i, NEW key
  PROVE  key \in MediaBefore(st, q, i) <=>
           key \in st.media \/ \E k \in 1..Len(q) : k < i /\ q[k].object = "media" /\ key = q[k].body
  BY DEF MediaBefore

(* More stored media, more media before every write.                       *)
LEMMA MediaGrows ==
  ASSUME NEW st, NEW st2, st.media \subseteq st2.media, NEW q, NEW i
  PROVE  MediaBefore(st, q, i) \subseteq MediaBefore(st2, q, i)
  BY MediaBeforeIs

(* The queue stands after its first write is made.                         *)
LEMMA PopStands ==
  ASSUME NEW st \in Stores, NEW q \in Seq(Writes), q # <<>>, QueueStands(st, q)
  PROVE  LET st2 == Stored(st, Head(q)) IN
         /\ QueueStands(st2, Tail(q)) /\ AllMedia(st2, Tail(q)) = AllMedia(st, q)
         /\ Names(q[1]) \subseteq st.media /\ st.media \subseteq st2.media
<1> DEFINE st2 == Stored(st, Head(q))
           z == Tail(q)
<1>1. /\ z \in Seq(Writes) /\ Len(q) \in Nat \ {0} /\ Len(z) = Len(q) - 1
      /\ Head(q) = q[1] /\ q[1] \in Writes
      /\ \A i \in 1..Len(q) - 1 : z[i] = q[i + 1]
  BY PopSeq DEF z
<1>2. st2.media = IF q[1].object = "media" THEN st.media \cup {q[1].body} ELSE st.media
  BY <1>1, StoredFields
<1> HIDE DEF st2, z
<1>3. ASSUME NEW i \in 1..Len(q) PROVE MediaBefore(st2, z, i) = MediaBefore(st, q, i + 1)
  <2>1. ASSUME NEW key, key \in MediaBefore(st2, z, i) PROVE key \in MediaBefore(st, q, i + 1)
    <3>1. key \in st2.media \/ \E k \in 1..Len(z) : k < i /\ z[k].object = "media" /\ key = z[k].body
      BY <2>1, MediaBeforeIs
    <3>2. CASE key \in st.media
      BY <3>2, MediaBeforeIs
    <3>3. CASE q[1].object = "media" /\ key = q[1].body
      BY <1>1, <3>3, MediaBeforeIs
    <3>4. CASE \E k \in 1..Len(z) : k < i /\ z[k].object = "media" /\ key = z[k].body
      <4>1. PICK k \in 1..Len(z) : k < i /\ z[k].object = "media" /\ key = z[k].body
        BY <3>4
      <4>2. k + 1 \in 1..Len(q) /\ k + 1 < i + 1 /\ q[k + 1].object = "media" /\ key = q[k + 1].body
        BY <1>1, <4>1
      <4> QED
        BY <4>2, MediaBeforeIs
    <3> QED
      BY <1>2, <3>1, <3>2, <3>3, <3>4
  <2>2. ASSUME NEW key, key \in MediaBefore(st, q, i + 1) PROVE key \in MediaBefore(st2, z, i)
    <3>1. CASE key \in st.media
      BY <1>2, <3>1, MediaBeforeIs
    <3>2. CASE \E k \in 1..Len(q) : k < i + 1 /\ q[k].object = "media" /\ key = q[k].body
      <4>1. PICK k \in 1..Len(q) : k < i + 1 /\ q[k].object = "media" /\ key = q[k].body
        BY <3>2
      <4>2. CASE k = 1
        BY <1>2, <4>1, <4>2, MediaBeforeIs
      <4>3. CASE k # 1
        <5>1. k - 1 \in 1..Len(z) /\ k - 1 < i /\ z[k - 1] = q[k]
          BY <1>1, <4>1, <4>3
        <5> QED
          BY <4>1, <5>1, MediaBeforeIs
      <4> QED
        BY <4>2, <4>3
    <3> QED
      BY <2>2, <3>1, <3>2, MediaBeforeIs
  <2> QED
    BY <2>1, <2>2
<1>4. AllMedia(st2, z) = AllMedia(st, q)
  BY <1>1, <1>3 DEF AllMedia
<1>5. QueueStands(st2, z)
  <2> SUFFICES ASSUME NEW i \in 1..Len(z) PROVE Names(z[i]) \subseteq MediaBefore(st2, z, i)
    BY DEF QueueStands
  <2>1. i \in 1..Len(q) /\ i + 1 \in 1..Len(q) /\ z[i] = q[i + 1]
    BY <1>1
  <2> QED
    BY <1>3, <2>1 DEF QueueStands
<1>6. Names(q[1]) \subseteq st.media
  <2>1. Names(q[1]) \subseteq MediaBefore(st, q, 1)
    BY <1>1 DEF QueueStands
  <2>2. \A key : key \in MediaBefore(st, q, 1) => key \in st.media
    BY <1>1 DEF MediaBefore
  <2> QED
    BY <2>1, <2>2
<1> QED
  BY <1>2, <1>4, <1>5, <1>6 DEF st2, z

(* The queue stands with writes behind it that name what stands by then.   *)
LEMMA PushStands ==
  ASSUME NEW st, NEW q \in Seq(Writes), NEW w \in Seq(Writes), QueueStands(st, q),
         \A i \in 1..Len(w) : Names(w[i]) \subseteq
           AllMedia(st, q) \cup {w[k].body : k \in {k \in 1..Len(w) : k < i /\ w[k].object = "media"}}
  PROVE  /\ QueueStands(st, q \o w)
         /\ AllMedia(st, q) \subseteq AllMedia(st, q \o w)
         /\ \A k \in 1..Len(w) : w[k].object = "media" => w[k].body \in AllMedia(st, q \o w)
<1>1. /\ q \o w \in Seq(Writes) /\ Len(q) \in Nat /\ Len(w) \in Nat
      /\ Len(q \o w) = Len(q) + Len(w)
      /\ \A i \in 1..Len(q) : (q \o w)[i] = q[i]
      /\ \A i \in 1..Len(w) : (q \o w)[Len(q) + i] = w[i]
      /\ \A i \in 1..Len(q \o w) :
           i <= Len(q) \/ (i - Len(q) \in 1..Len(w) /\ (q \o w)[i] = w[i - Len(q)])
  BY PushSeq
<1> DEFINE z == q \o w
<1> HIDE DEF z
<1>2. ASSUME NEW i \in 1..Len(z) + 1, NEW j \in 1..Len(q) + 1, j <= i
      PROVE  MediaBefore(st, q, j) \subseteq MediaBefore(st, z, i)
  <2> SUFFICES ASSUME NEW key, key \in MediaBefore(st, q, j) PROVE key \in MediaBefore(st, z, i)
    OBVIOUS
  <2>1. CASE key \in st.media
    BY <2>1, MediaBeforeIs
  <2>2. CASE \E k \in 1..Len(q) : k < j /\ q[k].object = "media" /\ key = q[k].body
    <3>1. PICK k \in 1..Len(q) : k < j /\ q[k].object = "media" /\ key = q[k].body
      BY <2>2
    <3>2. k \in 1..Len(z) /\ k < i /\ z[k] = q[k]
      BY <1>1, <1>2, <3>1 DEF z
    <3> QED
      BY <3>1, <3>2, MediaBeforeIs
  <2> QED
    BY <2>1, <2>2, MediaBeforeIs
<1>3. ASSUME NEW i \in 1..Len(w) + 1, NEW k \in 1..Len(w), k < i, w[k].object = "media"
      PROVE  w[k].body \in MediaBefore(st, z, Len(q) + i)
  <2>1. Len(q) + k \in 1..Len(z) /\ Len(q) + k < Len(q) + i /\ z[Len(q) + k] = w[k]
    BY <1>1, <1>3 DEF z
  <2> QED
    BY <1>3, <2>1, MediaBeforeIs
<1>4. QueueStands(st, z)
  <2> SUFFICES ASSUME NEW i \in 1..Len(z) PROVE Names(z[i]) \subseteq MediaBefore(st, z, i)
    BY DEF QueueStands
  <2>1. CASE i <= Len(q)
    <3>1. i \in 1..Len(q) /\ i \in 1..Len(z) + 1 /\ i \in 1..Len(q) + 1 /\ i <= i /\ z[i] = q[i]
      BY <1>1, <2>1 DEF z
    <3> QED
      BY <1>2, <3>1 DEF QueueStands
  <2>2. CASE ~(i <= Len(q))
    <3>1. PICK j \in 1..Len(w) : i = Len(q) + j /\ z[i] = w[j]
      BY <1>1, <2>2 DEF z
    <3>2. AllMedia(st, q) \subseteq MediaBefore(st, z, i)
      <4>1. i \in 1..Len(z) + 1 /\ Len(q) + 1 \in 1..Len(q) + 1 /\ Len(q) + 1 <= i
        BY <1>1, <3>1 DEF z
      <4> QED
        BY <1>2, <4>1 DEF AllMedia
    <3>3. \A k \in 1..Len(w) : k < j /\ w[k].object = "media" => w[k].body \in MediaBefore(st, z, i)
      BY <1>1, <1>3, <3>1
    <3> QED
      BY <3>1, <3>2, <3>3
  <2> QED
    BY <2>1, <2>2
<1>5. AllMedia(st, q) \subseteq AllMedia(st, z)
  <2>1. Len(z) + 1 \in 1..Len(z) + 1 /\ Len(q) + 1 \in 1..Len(q) + 1 /\ Len(q) + 1 <= Len(z) + 1
    BY <1>1 DEF z
  <2> QED
    BY <1>2, <2>1 DEF AllMedia
<1>6. \A k \in 1..Len(w) : w[k].object = "media" => w[k].body \in AllMedia(st, z)
  <2> SUFFICES ASSUME NEW k \in 1..Len(w), w[k].object = "media" PROVE w[k].body \in AllMedia(st, z)
    OBVIOUS
  <2>1. Len(w) + 1 \in 1..Len(w) + 1 /\ k < Len(w) + 1 /\ Len(z) + 1 = Len(q) + (Len(w) + 1)
    BY <1>1 DEF z
  <2> QED
    BY <1>3, <2>1 DEF AllMedia
<1> QED
  BY <1>4, <1>5, <1>6 DEF z

-----------------------------------------------------------------------------
(* What each of the session's pushes keeps: all that the queue and the     *)
(* record name is stored by then.                                          *)
Solid(st, x) ==
  /\ QueueStands(st, x.queue)
  /\ ~x.broken => SessionNames(x) \subseteq AllMedia(st, x.queue)

(* What enqueue leaves: the queue as it was, or with the writes.           *)
LEMMA BehindTypes ==
  ASSUME NEW record \in Executions, NEW writes \in Seq(Writes), NEW q, Behind(q, record, writes)
  PROVE  /\ record.queue \in Seq(Writes) /\ q \in Seq(Writes)
         /\ record.broken => q = record.queue
         /\ ~record.broken => q = record.queue \o writes
<1>1. record.queue \in Seq(Writes)
  BY DEF Executions
<1>2. record.queue \o writes \in Seq(Writes)
  BY <1>1
<1> QED
  BY <1>1, <1>2 DEF Behind

(* What each kind of write names.                                          *)
LEMMA PutNames ==
  ASSUME NEW body
  PROVE  /\ Put("media", body).object = "media" /\ Put("media", body).body = body
         /\ Names(Put("media", body)) = {}
         /\ Put("index", body).object = "index" /\ Names(Put("index", body)) = body
         /\ Put("state", body).object = "state" /\ Put("state", body).body = body
         /\ Names(Put("state", body)) = Recorded(body.segs)
         /\ Put("archive", body).object = "archive" /\ Put("archive", body).body = body
         /\ Names(Put("archive", body)) = Recorded(body.segs)
         /\ Put("master", body).object = "master" /\ Put("master", body).body = body
         /\ Names(Put("master", body)) = {}
  BY DEF Put, Names

(* One write enqueued.                                                     *)
LEMMA OneStands ==
  ASSUME NEW st, NEW record \in Executions, NEW w \in Writes, NEW x, x.broken = record.broken,
         Behind(x.queue, record, <<w>>), QueueStands(st, record.queue),
         ~record.broken => Names(w) \subseteq AllMedia(st, record.queue)
  PROVE  /\ QueueStands(st, x.queue)
         /\ ~x.broken => /\ AllMedia(st, record.queue) \subseteq AllMedia(st, x.queue)
                         /\ w.object = "media" => w.body \in AllMedia(st, x.queue)
<1> DEFINE ws == <<w>>
<1>1. ws \in Seq(Writes) /\ Len(ws) = 1 /\ ws[1] = w
  OBVIOUS
<1>2. Behind(x.queue, record, ws)
  OBVIOUS
<1> HIDE DEF ws
<1>3. /\ record.queue \in Seq(Writes)
      /\ record.broken => x.queue = record.queue
      /\ ~record.broken => x.queue = record.queue \o ws
  BY <1>1, <1>2, BehindTypes
<1>4. CASE record.broken
  BY <1>3, <1>4
<1>5. CASE ~record.broken
  <2>1. \A i \in 1..Len(ws) : Names(ws[i]) \subseteq AllMedia(st, record.queue)
    BY <1>1, <1>5
  <2>2. /\ QueueStands(st, record.queue \o ws)
        /\ AllMedia(st, record.queue) \subseteq AllMedia(st, record.queue \o ws)
        /\ \A k \in 1..Len(ws) : ws[k].object = "media" => ws[k].body \in AllMedia(st, record.queue \o ws)
    BY <1>1, <1>3, <2>1, PushStands
  <2>3. x.queue = record.queue \o ws
    BY <1>3, <1>5
  <2>4. w.object = "media" => w.body \in AllMedia(st, x.queue)
    BY <1>1, <2>2, <2>3
  <2> QED
    BY <2>2, <2>3, <2>4
<1> QED
  BY <1>4, <1>5

(* A session whose init segment is enqueued names only what will stand.    *)
LEMMA InitSolid ==
  ASSUME NEW st, NEW record \in Executions, Solid(st, record), record.pc = "connect",
         record.own = Len(record.segs),
         NEW x \in Executions, x.pc = "encode", x.epoch = record.epoch, x.own = record.own,
         x.broken = record.broken, x.segs = record.segs, x.parts = 0,
         Behind(x.queue, record, <<Put("media", InitKey(record.epoch))>>),
         Put("media", InitKey(record.epoch)) \in Writes
  PROVE  Solid(st, x)
<1> DEFINE w == Put("media", InitKey(record.epoch))
<1>1. w \in Writes /\ w.object = "media" /\ w.body = InitKey(record.epoch) /\ Names(w) = {}
  BY PutNames
<1> HIDE DEF w
<1>2. Behind(x.queue, record, <<w>>)
  BY DEF w
<1>3. /\ QueueStands(st, x.queue)
      /\ ~x.broken => /\ AllMedia(st, record.queue) \subseteq AllMedia(st, x.queue)
                      /\ w.object = "media" => w.body \in AllMedia(st, x.queue)
  BY <1>1, <1>2, OneStands DEF Solid
<1>4. Len(x.segs) \in Nat
  BY DEF Executions, Segs
<1>5. SessionNames(x) \subseteq SessionNames(record) \cup {InitKey(record.epoch)}
  BY <1>4 DEF SessionNames
<1> QED
  BY <1>1, <1>3, <1>5 DEF Solid

(* And one whose next part is.                                             *)
LEMMA PartSolid ==
  ASSUME NEW st, NEW record \in Executions, Solid(st, record), record.pc = "encode",
         NEW x, Same(x, record), x.segs = record.segs, x.parts = record.parts + 1,
         NEW key, key = PartKey(record.epoch, Len(record.segs) + 1, record.parts + 1),
         Behind(x.queue, record, <<Put("media", key)>>), Put("media", key) \in Writes
  PROVE  Solid(st, x)
<1> DEFINE w == Put("media", key)
<1>1. w \in Writes /\ w.object = "media" /\ w.body = key /\ Names(w) = {}
  BY PutNames
<1> HIDE DEF w
<1>2. Behind(x.queue, record, <<w>>) /\ x.broken = record.broken
  BY DEF w, Same
<1>3. /\ QueueStands(st, x.queue)
      /\ ~x.broken => /\ AllMedia(st, record.queue) \subseteq AllMedia(st, x.queue)
                      /\ w.object = "media" => w.body \in AllMedia(st, x.queue)
  BY <1>1, <1>2, OneStands DEF Solid
<1>4. \A p \in 1..record.parts + 1 : p \in 1..record.parts \/ p = record.parts + 1
  BY DEF Executions
<1>5. SessionNames(x) \subseteq SessionNames(record) \cup {key}
  BY <1>4 DEF SessionNames, Same
<1> QED
  BY <1>1, <1>2, <1>3, <1>5 DEF Solid

(* The three writes of a closed segment name what will stand.              *)
LEMMA ClosedStands ==
  ASSUME NEW st, NEW record \in Executions, Solid(st, record), record.pc = "encode",
         NEW x, x.broken = record.broken, x.segs = Append(record.segs, record.epoch), x.segs \in Segs,
         Behind(x.queue, record, ClosingWrites(record.epoch, x.segs))
  PROVE  /\ QueueStands(st, x.queue)
         /\ ~x.broken => /\ SessionNames(record) \subseteq AllMedia(st, x.queue)
                         /\ SegmentKey(record.epoch, Len(record.segs) + 1) \in AllMedia(st, x.queue)
<1> DEFINE w == ClosingWrites(record.epoch, x.segs)
           key == SegmentKey(record.epoch, Len(record.segs) + 1)
<1>1. record.epoch \in Nat /\ record.segs \in Seq(Nat) /\ Len(x.segs) = Len(record.segs) + 1
  BY DEF Executions, Segs
<1>2. /\ w \in Seq(Writes) /\ Len(w) = 3
      /\ w[1] = Put("media", key)
      /\ w[2] = Put("state", [epochs |-> record.epoch + 1, segs |-> x.segs])
      /\ w[3] = Put("archive", [segs |-> x.segs, ended |-> FALSE])
  BY <1>1, ClosingWritesFacts
<1> HIDE DEF w
<1>3. /\ w[1].object = "media" /\ w[1].body = key /\ Names(w[1]) = {}
      /\ Names(w[2]) = Recorded(x.segs) /\ Names(w[3]) = Recorded(x.segs)
  <2> DEFINE state == [epochs |-> record.epoch + 1, segs |-> x.segs]
             archive == [segs |-> x.segs, ended |-> FALSE]
  <2>1. state.segs = x.segs /\ archive.segs = x.segs
    OBVIOUS
  <2> HIDE DEF state, archive
  <2>2. w[2] = Put("state", state) /\ w[3] = Put("archive", archive)
    BY <1>2 DEF state, archive
  <2>3. Names(w[2]) = Recorded(state.segs)
    BY <2>2, PutNames
  <2>4. Names(w[3]) = Recorded(archive.segs)
    BY <2>2, PutNames
  <2> HIDE DEF key
  <2>5. w[1] = Put("media", key)
    BY <1>2
  <2>6. w[1].object = "media" /\ w[1].body = key
    BY <2>5 DEF Put
  <2>7. Names(w[1]) = {}
    BY <2>5, PutNames
  <2> QED
    BY <2>1, <2>3, <2>4, <2>6, <2>7
<1>4. Recorded(x.segs) = Recorded(record.segs) \cup {InitKey(record.epoch), key}
  BY <1>1, RecordedKeys
<1>5. Recorded(x.segs) \subseteq SessionNames(record) \cup {key}
  BY <1>4 DEF SessionNames
<1>6. /\ record.queue \in Seq(Writes)
      /\ record.broken => x.queue = record.queue
      /\ ~record.broken => x.queue = record.queue \o w
  BY <1>2, BehindTypes DEF w
<1>7. CASE record.broken
  BY <1>6, <1>7 DEF Solid
<1>8. CASE ~record.broken
  <2>1. ASSUME NEW i \in 1..Len(w)
        PROVE  Names(w[i]) \subseteq AllMedia(st, record.queue)
                 \cup {w[k].body : k \in {k \in 1..Len(w) : k < i /\ w[k].object = "media"}}
    <3>1. i = 1 \/ i = 2 \/ i = 3
      BY <1>2
    <3>2. CASE i = 1
      BY <1>3, <3>2
    <3>3. CASE i # 1
      <4>1. 1 \in {k \in 1..Len(w) : k < i /\ w[k].object = "media"}
        BY <1>2, <1>3, <3>1, <3>3
      <4>2. key \in {w[k].body : k \in {k \in 1..Len(w) : k < i /\ w[k].object = "media"}}
        BY <1>3, <4>1
      <4>3. Names(w[i]) \subseteq AllMedia(st, record.queue) \cup {key}
        BY <1>3, <1>5, <1>8, <3>1, <3>3 DEF Solid
      <4> QED
        BY <4>2, <4>3
    <3> QED
      BY <3>2, <3>3
  <2>2. /\ QueueStands(st, record.queue \o w)
        /\ AllMedia(st, record.queue) \subseteq AllMedia(st, record.queue \o w)
        /\ \A k \in 1..Len(w) : w[k].object = "media" => w[k].body \in AllMedia(st, record.queue \o w)
    BY <1>2, <1>6, <2>1, PushStands DEF Solid
  <2>3. key \in AllMedia(st, record.queue \o w)
    BY <1>2, <1>3, <2>2
  <2> QED
    BY <1>6, <1>8, <2>2, <2>3 DEF Solid
<1> QED
  BY <1>7, <1>8

(* And so does the session that goes on behind them.                       *)
LEMMA ClosedSolid ==
  ASSUME NEW st, NEW record \in Executions, Solid(st, record), record.pc = "encode",
         record.parts = PartsPerSegment,
         NEW x, Same(x, record), x.parts = 0, x.segs = Append(record.segs, record.epoch), x.segs \in Segs,
         Behind(x.queue, record, ClosingWrites(record.epoch, x.segs))
  PROVE  Solid(st, x)
<1>1. record.epoch \in Nat /\ record.segs \in Seq(Nat) /\ Len(x.segs) = Len(record.segs) + 1
      /\ Len(record.segs) \in Nat /\ record.own \in Nat
  BY DEF Executions, Segs
<1>2. /\ QueueStands(st, x.queue)
      /\ ~x.broken => /\ SessionNames(record) \subseteq AllMedia(st, x.queue)
                      /\ SegmentKey(record.epoch, Len(record.segs) + 1) \in AllMedia(st, x.queue)
  BY ClosedStands DEF Same
<1>3. Recorded(x.segs) =
        Recorded(record.segs) \cup {InitKey(record.epoch), SegmentKey(record.epoch, Len(record.segs) + 1)}
  BY <1>1, RecordedKeys
<1>4. \A i \in record.own + 1..Len(x.segs) :
        i \in record.own + 1..Len(record.segs) \/ i = Len(record.segs) + 1
  BY <1>1
<1>5. SessionNames(x) \subseteq SessionNames(record) \cup {SegmentKey(record.epoch, Len(record.segs) + 1)}
  BY <1>1, <1>3, <1>4 DEF SessionNames, Same
<1> QED
  BY <1>2, <1>5 DEF Solid

(* And one whose playlist is enqueued.                                     *)
LEMMA PlaylistSolid ==
  ASSUME NEW st, NEW record \in Executions, Solid(st, record), record.pc = "encode",
         NEW x, Same(x, record), x.segs = record.segs, x.parts = record.parts,
         NEW body, body = Listed(record.segs, record.own, record.epoch, record.parts),
         Behind(x.queue, record, <<Put("index", body)>>), Put("index", body) \in Writes
  PROVE  Solid(st, x)
<1> DEFINE w == Put("index", body)
<1>1. w \in Writes /\ w.object = "index" /\ Names(w) = body
  BY PutNames
<1>2. Len(record.segs) \in Nat /\ DOMAIN record.segs = 1..Len(record.segs) /\ record.own \in Nat
  BY DEF Executions, Segs
<1>3. body \subseteq SessionNames(record)
  <2> DEFINE n == Len(record.segs)
             window == {i \in 1..n : i + WindowSegments > n}
             partly == {i \in window : i > record.own /\ i + PartSegments > n}
  <2>1. \A i \in window : {InitKey(record.segs[i]), SegmentKey(record.segs[i], i)} \subseteq Recorded(record.segs)
    BY <1>2 DEF Recorded
  <2>2. \A i \in partly : i \in record.own + 1..Len(record.segs)
    BY <1>2
  <2>3. body = (UNION {{InitKey(record.segs[i]), SegmentKey(record.segs[i], i)} : i \in window})
               \cup {PartKey(record.epoch, i, p) : i \in partly, p \in 1..PartsPerSegment}
               \cup {PartKey(record.epoch, n + 1, p) : p \in 1..record.parts}
               \cup (IF record.parts > 0 THEN {InitKey(record.epoch)} ELSE {})
    BY DEF Listed
  <2> HIDE DEF window, partly
  <2> QED
    BY <2>1, <2>2, <2>3 DEF SessionNames
<1> HIDE DEF w
<1>4. Behind(x.queue, record, <<w>>) /\ x.broken = record.broken
  BY DEF w, Same
<1>5. /\ QueueStands(st, x.queue)
      /\ ~x.broken => AllMedia(st, record.queue) \subseteq AllMedia(st, x.queue)
  BY <1>1, <1>3, <1>4, OneStands DEF Solid
<1>6. SessionNames(x) = SessionNames(record)
  BY DEF SessionNames, Same
<1> QED
  BY <1>4, <1>5, <1>6 DEF Solid

-----------------------------------------------------------------------------
(* The order of the queue's writes of the archive, as writes are added and *)
(* made: what is recorded is extended, and no media of it written again.   *)
LEMMA BodySegs ==
  ASSUME NEW w \in Writes, w.object \in {"state", "archive"}
  PROVE  w.body.segs \in Segs /\ w.body.segs \in Seq(Nat)
<1>1. CASE w.object = "state"
  <2>1. w.body \in States
    BY <1>1, WriteKinds
  <2> QED
    BY <2>1 DEF States, Segs
<1>2. CASE w.object = "archive"
  <2>1. w.body \in Archives
    BY <1>2, WriteKinds
  <2> QED
    BY <2>1 DEF Archives, Segs
<1> QED
  BY <1>1, <1>2

(* A write that is neither a state nor an archive keeps the order.         *)
LEMMA PushOne ==
  ASSUME NEW st \in Stores, NEW q \in Seq(Writes), NEW w \in Writes, NEW segs \in Seq(Nat),
         w.object \notin {"state", "archive"},
         w.object = "media" => w.body \notin Recorded(segs)
  PROVE  /\ QueueRises(q) => QueueRises(q \o <<w>>)
         /\ Sequel(st, q, segs) => Sequel(st, q \o <<w>>, segs)
         /\ InOrder(st, q) /\ Sequel(st, q, segs) => InOrder(st, q \o <<w>>)
<1> DEFINE z == q \o <<w>>
<1>1. /\ Len(q) \in Nat /\ DOMAIN q = 1..Len(q) /\ DOMAIN z = 1..Len(q) + 1
      /\ \A i \in 1..Len(q) : z[i] = q[i]
      /\ z[Len(q) + 1] = w
  OBVIOUS
<1> HIDE DEF z
<1>2. \A i \in DOMAIN z : i \in DOMAIN q \/ i = Len(q) + 1
  BY <1>1
<1>3. \A i \in DOMAIN z : z[i].object \in {"state", "archive"} => i \in DOMAIN q /\ z[i] = q[i]
  BY <1>1, <1>2
<1>4. QueueRises(q) => QueueRises(z)
  BY <1>3 DEF QueueRises
<1>5. Sequel(st, q, segs) => Sequel(st, z, segs)
  BY <1>3 DEF Sequel
<1>6. ChainHolds(st, q) => ChainHolds(st, z)
  <2> SUFFICES ASSUME ChainHolds(st, q) PROVE ChainHolds(st, z)
    OBVIOUS
  <2>1. \A i \in DOMAIN z : z[i].object = "state" =>
          /\ Extends(z[i].body.segs, st.state.segs)
          /\ \A k \in DOMAIN z : k > i /\ z[k].object = "state" => Extends(z[k].body.segs, z[i].body.segs)
    BY <1>3 DEF ChainHolds
  <2>2. ASSUME NEW i \in DOMAIN z, z[i].object = "archive"
        PROVE  IF i = 1 THEN z[1].body.segs = st.state.segs
               ELSE z[i - 1].object = "state" /\ z[i - 1].body.segs = z[i].body.segs
    <3>1. i \in DOMAIN q /\ z[i] = q[i]
      BY <1>3, <2>2
    <3>2. i # 1 => i - 1 \in DOMAIN q /\ z[i - 1] = q[i - 1]
      BY <1>1, <3>1
    <3> QED
      BY <2>2, <3>1, <3>2 DEF ChainHolds
  <2> QED
    BY <2>1, <2>2 DEF ChainHolds
<1>7. NoRewrite(st, q) /\ Sequel(st, q, segs) => NoRewrite(st, z)
  <2> SUFFICES ASSUME NoRewrite(st, q), Sequel(st, q, segs), NEW i \in DOMAIN z, z[i].object = "media"
               PROVE  /\ z[i].body \notin Recorded(st.state.segs)
                      /\ \A k \in DOMAIN z : k < i /\ z[k].object = "state" =>
                           z[i].body \notin Recorded(z[k].body.segs)
    BY DEF NoRewrite
  <2>1. CASE i \in DOMAIN q
    <3>1. z[i] = q[i] /\ \A k \in DOMAIN z : k < i => k \in DOMAIN q /\ z[k] = q[k]
      BY <1>1, <2>1
    <3> QED
      BY <2>1, <3>1 DEF NoRewrite
  <2>2. CASE i = Len(q) + 1
    <3>1. z[i].body \notin Recorded(segs)
      BY <1>1, <2>2
    <3>2. st.state.segs \in Seq(Nat)
      BY DEF Stores, States, Segs
    <3>3. Recorded(st.state.segs) \subseteq Recorded(segs)
      BY <3>2, RecordedGrows DEF Sequel
    <3>4. ASSUME NEW k \in DOMAIN z, k < i, z[k].object = "state"
          PROVE  Recorded(z[k].body.segs) \subseteq Recorded(segs)
      <4>1. k \in DOMAIN q /\ z[k] = q[k] /\ q[k] \in Writes
        BY <1>1, <1>3, <3>4
      <4>2. z[k].body.segs \in Seq(Nat) /\ Extends(segs, z[k].body.segs)
        BY <3>4, <4>1, BodySegs DEF Sequel
      <4> QED
        BY <4>2, RecordedGrows
    <3> QED
      BY <3>1, <3>3, <3>4
  <2> QED
    BY <1>2, <2>1, <2>2
<1> QED
  BY <1>4, <1>5, <1>6, <1>7 DEF InOrder, z

(* The writes of a closed segment keep the order, and rise.                *)
LEMMA PushClosing ==
  ASSUME NEW st \in Stores, NEW q \in Seq(Writes), NEW segs \in Seq(Nat), NEW e \in Nat,
         Append(segs, e) \in Segs, Below(segs, e + 1)
  PROVE  LET w == ClosingWrites(e, Append(segs, e)) IN
         /\ QueueRises(q) => QueueRises(q \o w)
         /\ Sequel(st, q, segs) => Sequel(st, q \o w, Append(segs, e))
         /\ InOrder(st, q) /\ Sequel(st, q, segs) => InOrder(st, q \o w)
<1> DEFINE more == Append(segs, e)
           w == ClosingWrites(e, more)
           z == q \o w
           key == SegmentKey(e, Len(segs) + 1)
           n == Len(q)
<1>1. /\ more \in Seq(Nat) /\ Len(more) = Len(segs) + 1 /\ Extends(more, segs)
      /\ Below(more, e + 1)
  BY DEF Extends, Below
<1>2. /\ w \in Seq(Writes) /\ Len(w) = 3 /\ w[1] = Put("media", key)
      /\ w[2] = Put("state", [epochs |-> e + 1, segs |-> more])
      /\ w[3] = Put("archive", [segs |-> more, ended |-> FALSE])
  BY <1>1, ClosingWritesFacts
<1>3. key \notin Recorded(segs)
  BY RecordedKeys
<1> HIDE DEF w, key, more
<1>4. /\ w[1].object = "media" /\ w[1].body = key
      /\ w[2].object = "state" /\ w[2].body.segs = more /\ w[2].body.epochs = e + 1
      /\ w[3].object = "archive" /\ w[3].body.segs = more
  BY <1>2 DEF Put
<1> HIDE DEF n
<1>5. /\ n \in Nat /\ DOMAIN q = 1..n /\ DOMAIN z = 1..n + 3
      /\ \A i \in 1..n : z[i] = q[i] /\ q[i] \in Writes
      /\ z[n + 1] = w[1] /\ z[n + 2] = w[2] /\ z[n + 3] = w[3]
  <2>1. /\ z \in Seq(Writes) /\ Len(z) = n + Len(w)
        /\ \A i \in 1..n : z[i] = q[i]
        /\ \A i \in 1..Len(w) : z[n + i] = w[i]
    BY <1>2, PushSeq DEF n
  <2> HIDE DEF z
  <2>2. n \in Nat /\ DOMAIN q = 1..n /\ \A i \in 1..n : q[i] \in Writes
    BY DEF n
  <2>3. DOMAIN z = 1..n + 3
    BY <1>2, <2>1, <2>2
  <2>4. 1 \in 1..Len(w) /\ 2 \in 1..Len(w) /\ 3 \in 1..Len(w)
    BY <1>2
  <2> QED
    BY <2>1, <2>2, <2>3, <2>4
<1> HIDE DEF z
<1>6. \A i \in DOMAIN z : i \in DOMAIN q \/ i = n + 1 \/ i = n + 2 \/ i = n + 3
  BY <1>5
<1>7. \A i \in DOMAIN z : z[i].object = "state" => (i \in DOMAIN q /\ z[i] = q[i]) \/ i = n + 2
  BY <1>4, <1>5, <1>6
<1>8. QueueRises(q) => QueueRises(z)
  <2> SUFFICES ASSUME QueueRises(q), NEW i \in DOMAIN z, z[i].object = "state"
               PROVE  Below(z[i].body.segs, z[i].body.epochs)
    BY DEF QueueRises
  <2>1. CASE i \in DOMAIN q /\ z[i] = q[i]
    BY <2>1 DEF QueueRises
  <2>2. CASE i = n + 2
    BY <1>1, <1>4, <1>5, <2>2
  <2> QED
    BY <1>7, <2>1, <2>2
<1>9. Sequel(st, q, segs) => Sequel(st, z, more)
  <2> SUFFICES ASSUME Sequel(st, q, segs) PROVE Sequel(st, z, more)
    OBVIOUS
  <2>1. st.state.segs \in Seq(Nat)
    BY DEF Stores, States, Segs
  <2>2. Extends(more, st.state.segs)
    BY <1>1, <2>1, ExtendsFacts DEF Sequel
  <2>3. ASSUME NEW i \in DOMAIN z, z[i].object = "state" PROVE Extends(more, z[i].body.segs)
    <3>1. CASE i \in DOMAIN q /\ z[i] = q[i]
      <4>1. q[i].body.segs \in Seq(Nat) /\ Extends(segs, q[i].body.segs)
        BY <1>5, <2>3, <3>1, BodySegs DEF Sequel
      <4> QED
        BY <1>1, <3>1, <4>1, ExtendsFacts
    <3>2. CASE i = n + 2
      BY <1>1, <1>4, <1>5, <3>2, ExtendsFacts
    <3> QED
      BY <1>7, <2>3, <3>1, <3>2
  <2> QED
    BY <2>2, <2>3 DEF Sequel
<1>10. ChainHolds(st, q) /\ Sequel(st, q, segs) => ChainHolds(st, z)
  <2> SUFFICES ASSUME ChainHolds(st, q), Sequel(st, q, segs) PROVE ChainHolds(st, z)
    OBVIOUS
  <2>1. Sequel(st, z, more)
    BY <1>9
  <2>2. ASSUME NEW i \in DOMAIN z, z[i].object = "state"
        PROVE  /\ Extends(z[i].body.segs, st.state.segs)
               /\ \A k \in DOMAIN z : k > i /\ z[k].object = "state" => Extends(z[k].body.segs, z[i].body.segs)
    <3>1. CASE i \in DOMAIN q /\ z[i] = q[i]
      <4>1. Extends(z[i].body.segs, st.state.segs)
        BY <2>2, <3>1 DEF ChainHolds
      <4>2. ASSUME NEW k \in DOMAIN z, k > i, z[k].object = "state"
            PROVE  Extends(z[k].body.segs, z[i].body.segs)
        <5>1. CASE k \in DOMAIN q /\ z[k] = q[k]
          BY <2>2, <3>1, <4>2, <5>1 DEF ChainHolds
        <5>2. CASE k = n + 2
          BY <1>4, <1>5, <2>1, <2>2, <5>2 DEF Sequel
        <5> QED
          BY <1>7, <4>2, <5>1, <5>2
      <4> QED
        BY <4>1, <4>2
    <3>2. CASE i = n + 2
      <4>1. Extends(z[i].body.segs, st.state.segs)
        BY <1>4, <1>5, <2>1, <3>2 DEF Sequel
      <4>2. \A k \in DOMAIN z : k > i => z[k].object # "state"
        BY <1>5, <1>7, <3>2
      <4> QED
        BY <4>1, <4>2
    <3> QED
      BY <1>7, <2>2, <3>1, <3>2
  <2>3. ASSUME NEW i \in DOMAIN z, z[i].object = "archive"
        PROVE  IF i = 1 THEN z[1].body.segs = st.state.segs
               ELSE z[i - 1].object = "state" /\ z[i - 1].body.segs = z[i].body.segs
    <3>1. i \in DOMAIN q \/ i = n + 3
      BY <1>4, <1>5, <1>6, <2>3
    <3>2. CASE i \in DOMAIN q
      <4>1. z[i] = q[i] /\ (i # 1 => i - 1 \in DOMAIN q /\ z[i - 1] = q[i - 1])
        BY <1>5, <3>2
      <4> QED
        BY <2>3, <3>2, <4>1 DEF ChainHolds
    <3>3. CASE i = n + 3
      <4>1. i # 1 /\ i - 1 = n + 2
        BY <1>5, <3>3
      <4> QED
        BY <1>4, <1>5, <3>3, <4>1
    <3> QED
      BY <3>1, <3>2, <3>3
  <2> QED
    BY <2>2, <2>3 DEF ChainHolds
<1>11. NoRewrite(st, q) /\ Sequel(st, q, segs) => NoRewrite(st, z)
  <2> SUFFICES ASSUME NoRewrite(st, q), Sequel(st, q, segs), NEW i \in DOMAIN z, z[i].object = "media"
               PROVE  /\ z[i].body \notin Recorded(st.state.segs)
                      /\ \A k \in DOMAIN z : k < i /\ z[k].object = "state" =>
                           z[i].body \notin Recorded(z[k].body.segs)
    BY DEF NoRewrite
  <2>1. i \in DOMAIN q \/ i = n + 1
    BY <1>4, <1>5, <1>6
  <2>2. CASE i \in DOMAIN q
    <3>1. z[i] = q[i] /\ \A k \in DOMAIN z : k < i => k \in DOMAIN q /\ z[k] = q[k]
      BY <1>5, <2>2
    <3> QED
      BY <2>2, <3>1 DEF NoRewrite
  <2>3. CASE i = n + 1
    <3>1. z[i].body \notin Recorded(segs)
      BY <1>3, <1>4, <1>5, <2>3
    <3>2. st.state.segs \in Seq(Nat)
      BY DEF Stores, States, Segs
    <3>3. Recorded(st.state.segs) \subseteq Recorded(segs)
      BY <3>2, RecordedGrows DEF Sequel
    <3>4. ASSUME NEW k \in DOMAIN z, k < i, z[k].object = "state"
          PROVE  Recorded(z[k].body.segs) \subseteq Recorded(segs)
      <4>1. k \in DOMAIN q /\ z[k] = q[k] /\ q[k] \in Writes
        BY <1>5, <2>3, <3>4
      <4>2. z[k].body.segs \in Seq(Nat) /\ Extends(segs, z[k].body.segs)
        BY <3>4, <4>1, BodySegs DEF Sequel
      <4> QED
        BY <4>2, RecordedGrows
    <3> QED
      BY <3>1, <3>3, <3>4
  <2> QED
    BY <2>1, <2>2, <2>3
<1> QED
  BY <1>8, <1>9, <1>10, <1>11 DEF InOrder, z, w, more

-----------------------------------------------------------------------------
(* The first write of the queue is made.                                   *)
LEMMA PopRises ==
  ASSUME NEW st \in Stores, NEW q \in Seq(Writes), q # <<>>, QueueRises(q),
         Below(st.state.segs, st.state.epochs)
  PROVE  LET st2 == Stored(st, Head(q)) IN
         QueueRises(Tail(q)) /\ Below(st2.state.segs, st2.state.epochs)
<1> DEFINE st2 == Stored(st, Head(q))
           z == Tail(q)
<1>1. /\ z \in Seq(Writes) /\ Len(q) \in Nat \ {0} /\ Len(z) = Len(q) - 1
      /\ Head(q) = q[1] /\ q[1] \in Writes
      /\ \A i \in 1..Len(q) - 1 : z[i] = q[i + 1]
  BY PopSeq DEF z
<1>a. st2 = Stored(st, q[1])
  BY <1>1
<1> HIDE DEF st2, z
<1>2. st2.state = IF q[1].object = "state" THEN q[1].body ELSE st.state
  BY <1>1, <1>a, StoredFields
<1>3. QueueRises(z)
  <2>1. \A i \in DOMAIN z : i + 1 \in DOMAIN q /\ z[i] = q[i + 1]
    BY <1>1
  <2> QED
    BY <2>1 DEF QueueRises
<1>4. 1 \in DOMAIN q
  BY <1>1
<1>5. Below(st2.state.segs, st2.state.epochs)
  BY <1>2, <1>4 DEF QueueRises
<1> QED
  BY <1>3, <1>5 DEF st2, z

(* The first write made, the order is kept, and the archive has grown.     *)
LEMMA PopOrder ==
  ASSUME NEW st \in Stores, NEW q \in Seq(Writes), q # <<>>, InOrder(st, q),
         Extends(st.state.segs, st.archive.segs)
  PROVE  LET st2 == Stored(st, Head(q)) IN
         /\ InOrder(st2, Tail(q))
         /\ Extends(st2.state.segs, st.state.segs)
         /\ Extends(st2.archive.segs, st.archive.segs)
         /\ Extends(st2.state.segs, st2.archive.segs)
         /\ \A segs \in Seq(Nat) : Sequel(st, q, segs) => Sequel(st2, Tail(q), segs)
<1> DEFINE st2 == Stored(st, Head(q))
           z == Tail(q)
<1>1. /\ z \in Seq(Writes) /\ Len(q) \in Nat \ {0} /\ Len(z) = Len(q) - 1
      /\ Head(q) = q[1] /\ q[1] \in Writes
      /\ \A i \in 1..Len(q) - 1 : z[i] = q[i + 1]
  BY PopSeq DEF z
<1>a. st2 = Stored(st, q[1])
  BY <1>1
<1> HIDE DEF st2, z
<1>2. /\ st2 \in Stores
      /\ st2.state = IF q[1].object = "state" THEN q[1].body ELSE st.state
      /\ st2.archive = IF q[1].object = "archive" THEN q[1].body ELSE st.archive
  BY <1>1, <1>a, StoredFields
<1>3. /\ 1 \in DOMAIN q /\ DOMAIN q = 1..Len(q)
      /\ \A i \in DOMAIN z : i + 1 \in DOMAIN q /\ z[i] = q[i + 1] /\ i + 1 > 1 /\ i + 1 # 1
  BY <1>1
<1>4. /\ st.state.segs \in Seq(Nat) /\ st2.state.segs \in Seq(Nat)
      /\ st.archive.segs \in Seq(Nat) /\ st2.archive.segs \in Seq(Nat)
  BY <1>2 DEF Stores, States, Archives, Segs
<1>5. Extends(st2.state.segs, st.state.segs)
  <2>1. Extends(st.state.segs, st.state.segs)
    BY <1>4, ExtendsFacts
  <2>2. q[1].object = "state" => Extends(q[1].body.segs, st.state.segs)
    BY <1>3 DEF InOrder, ChainHolds
  <2> QED
    BY <1>2, <2>1, <2>2
<1>6. Extends(st2.archive.segs, st.archive.segs) /\ Extends(st2.state.segs, st2.archive.segs)
  <2>1. CASE q[1].object = "archive"
    <3>1. q[1].body.segs = st.state.segs
      BY <1>3, <2>1 DEF InOrder, ChainHolds
    <3>2. st2.archive.segs = st.state.segs /\ st2.state.segs = st.state.segs
      BY <1>2, <2>1, <3>1
    <3>3. Extends(st.state.segs, st.state.segs)
      BY <1>4, ExtendsFacts
    <3> QED
      BY <3>2, <3>3
  <2>2. CASE q[1].object # "archive"
    <3>1. st2.archive.segs = st.archive.segs
      BY <1>2, <2>2
    <3>2. Extends(st.archive.segs, st.archive.segs) /\ Extends(st2.state.segs, st.archive.segs)
      BY <1>4, <1>5, ExtendsFacts
    <3> QED
      BY <3>1, <3>2
  <2> QED
    BY <2>1, <2>2
<1>7. ASSUME NEW segs \in Seq(Nat), Sequel(st, q, segs)
      PROVE  Sequel(st2, z, segs)
  <2>1. Extends(segs, st2.state.segs)
    BY <1>2, <1>3, <1>7 DEF Sequel
  <2> QED
    BY <1>3, <1>7, <2>1 DEF Sequel
<1>8. ChainHolds(st2, z)
  <2>1. ASSUME NEW i \in DOMAIN z, z[i].object = "state"
        PROVE  /\ Extends(z[i].body.segs, st2.state.segs)
               /\ \A k \in DOMAIN z : k > i /\ z[k].object = "state" => Extends(z[k].body.segs, z[i].body.segs)
    <3>1. i + 1 \in DOMAIN q /\ z[i] = q[i + 1] /\ i + 1 > 1
      BY <1>3
    <3>2. Extends(z[i].body.segs, st2.state.segs)
      BY <1>2, <1>3, <2>1, <3>1 DEF InOrder, ChainHolds
    <3>3. ASSUME NEW k \in DOMAIN z, k > i, z[k].object = "state"
          PROVE  Extends(z[k].body.segs, z[i].body.segs)
      <4>1. k + 1 \in DOMAIN q /\ z[k] = q[k + 1] /\ k + 1 > i + 1
        BY <1>1, <1>3, <3>3
      <4> QED
        BY <2>1, <3>1, <3>3, <4>1 DEF InOrder, ChainHolds
    <3> QED
      BY <3>2, <3>3
  <2>2. ASSUME NEW i \in DOMAIN z, z[i].object = "archive"
        PROVE  IF i = 1 THEN z[1].body.segs = st2.state.segs
               ELSE z[i - 1].object = "state" /\ z[i - 1].body.segs = z[i].body.segs
    <3>1. i + 1 \in DOMAIN q /\ z[i] = q[i + 1] /\ i + 1 # 1 /\ (i + 1) - 1 = i
      BY <1>1, <1>3
    <3>2. q[i].object = "state" /\ q[i].body.segs = z[i].body.segs
      BY <2>2, <3>1 DEF InOrder, ChainHolds
    <3>3. CASE i = 1
      BY <1>2, <3>2, <3>3
    <3>4. CASE i # 1
      <4>1. i - 1 \in DOMAIN z /\ (i - 1) + 1 = i
        BY <1>1, <3>4
      <4>2. z[i - 1] = q[i]
        BY <1>3, <4>1
      <4> QED
        BY <3>2, <3>4, <4>2
    <3> QED
      BY <3>3, <3>4
  <2> QED
    BY <2>1, <2>2 DEF ChainHolds
<1>9. NoRewrite(st2, z)
  <2> SUFFICES ASSUME NEW i \in DOMAIN z, z[i].object = "media"
               PROVE  /\ z[i].body \notin Recorded(st2.state.segs)
                      /\ \A k \in DOMAIN z : k < i /\ z[k].object = "state" =>
                           z[i].body \notin Recorded(z[k].body.segs)
    BY DEF NoRewrite
  <2>1. i + 1 \in DOMAIN q /\ z[i] = q[i + 1] /\ 1 < i + 1
    BY <1>1, <1>3
  <2>2. z[i].body \notin Recorded(st2.state.segs)
    BY <1>2, <1>3, <2>1 DEF InOrder, NoRewrite
  <2>3. \A k \in DOMAIN z : k < i => k + 1 \in DOMAIN q /\ z[k] = q[k + 1] /\ k + 1 < i + 1
    BY <1>1, <1>3
  <2> QED
    BY <2>1, <2>2, <2>3 DEF InOrder, NoRewrite
<1> QED
  BY <1>5, <1>6, <1>7, <1>8, <1>9 DEF InOrder, st2, z

(* Finalize makes its next write.                                          *)
LEMMA PopFinal ==
  ASSUME NEW st \in Stores, NEW record \in Executions, record.queue # <<>>, Finalizes(st, record),
         NEW x \in Executions, x.segs = record.segs, x.broken = record.broken,
         Len(x.queue) = Len(record.queue) - 1,
         \A i \in 1..Len(record.queue) - 1 : x.queue[i] = record.queue[i + 1],
         NEW st2, st2 = Stored(st, record.queue[1])
  PROVE  /\ Finalizes(st2, x) /\ st2.state = st.state
         /\ st.archive.ended => st2.archive.ended
         /\ Sealed(st) => Sealed(st2)
<1> DEFINE q == record.queue
           z == x.queue
<1>1. q \in Seq(Writes) /\ z \in Seq(Writes) /\ q # <<>> /\ Len(q) \in Nat \ {0} /\ q[1] \in Writes
  BY DEF Executions
<1>2. Len(z) = Len(q) - 1 /\ \A i \in 1..Len(q) - 1 : z[i] = q[i + 1]
  OBVIOUS
<1>3. /\ st2.state = IF q[1].object = "state" THEN q[1].body ELSE st.state
      /\ st2.archive = IF q[1].object = "archive" THEN q[1].body ELSE st.archive
      /\ st2.master = IF q[1].object = "master" THEN q[1].body ELSE st.master
  BY <1>1, StoredFields
<1>4. /\ record.segs = st.state.segs /\ st.state.segs # <<>>
      /\ Len(q) \in 1..3 /\ q[Len(q)] = Put("master", "archive")
      /\ Len(q) > 1 => q[Len(q) - 1] = Put("archive", Whole(st))
      /\ Len(q) > 2 => q[1] = Put("state", st.state)
      /\ ~record.broken /\ Len(q) < 2 => st.archive = Whole(st)
  BY <1>1 DEF Finalizes
<1>5. z # <<>> => Len(z) > 0
  BY <1>1, <1>2
<1>7. CASE Len(q) = 3
  <2>1. q[1] = Put("state", st.state) /\ q[2] = Put("archive", Whole(st)) /\ q[3] = Put("master", "archive")
    BY <1>4, <1>7
  <2>a. q[1].object = "state" /\ q[1].body = st.state
    BY <2>1 DEF Put
  <2>2. st2.state = st.state /\ st2.archive = st.archive /\ st2.master = st.master
    BY <1>3, <2>a
  <2>3. Len(z) = 2 /\ z[2] = Put("master", "archive") /\ z[1] = Put("archive", Whole(st))
    BY <1>2, <1>7, <2>1
  <2>4. Whole(st2) = Whole(st)
    BY <2>2 DEF Whole
  <2>b. z # <<>> /\ Len(z) \in 1..3 /\ x.segs = st2.state.segs /\ st2.state.segs # <<>>
    BY <1>4, <2>2, <2>3
  <2>c. x.queue[Len(x.queue)] = Put("master", "archive")
    BY <2>3
  <2>d. Len(x.queue) > 1 => x.queue[Len(x.queue) - 1] = Put("archive", Whole(st2))
    BY <2>3, <2>4
  <2>e. ~x.broken /\ Len(x.queue) < 2 => st2.archive = Whole(st2)
    BY <2>2, <2>3, <2>4
  <2>f. ~(Len(x.queue) > 2) /\ ~(Len(x.queue) < 1)
    BY <2>3
  <2>5. Finalizes(st2, x)
    BY <2>b, <2>c, <2>d, <2>e, <2>f DEF Finalizes
  <2> QED
    BY <2>2, <2>4, <2>5 DEF Sealed
<1>8. CASE Len(q) = 2
  <2>1. q[1] = Put("archive", Whole(st)) /\ q[2] = Put("master", "archive")
    BY <1>4, <1>8
  <2>a. q[1].object = "archive" /\ q[1].body = Whole(st)
    BY <2>1 DEF Put
  <2>2. st2.state = st.state /\ st2.archive = Whole(st) /\ st2.master = st.master
    BY <1>3, <2>a
  <2>3. Len(z) = 1 /\ z[1] = Put("master", "archive")
    BY <1>2, <1>8, <2>1
  <2>4. Whole(st2) = Whole(st) /\ Whole(st).ended
    BY <2>2 DEF Whole
  <2>b. z # <<>> /\ Len(z) \in 1..3 /\ x.segs = st2.state.segs /\ st2.state.segs # <<>>
    BY <1>4, <2>2, <2>3
  <2>c. x.queue[Len(x.queue)] = Put("master", "archive")
    BY <2>3
  <2>d. Len(x.queue) > 1 => x.queue[Len(x.queue) - 1] = Put("archive", Whole(st2))
    BY <2>3, <2>4
  <2>e. ~x.broken /\ Len(x.queue) < 2 => st2.archive = Whole(st2)
    BY <2>2, <2>3, <2>4
  <2>f. ~(Len(x.queue) > 2) /\ ~(Len(x.queue) < 1)
    BY <2>3
  <2>5. Finalizes(st2, x)
    BY <2>b, <2>c, <2>d, <2>e, <2>f DEF Finalizes
  <2> QED
    BY <2>2, <2>4, <2>5 DEF Sealed
<1>9. CASE Len(q) = 1
  <2>1. q[1] = Put("master", "archive")
    BY <1>4, <1>9
  <2>a. q[1].object = "master" /\ q[1].body = "archive"
    BY <2>1 DEF Put
  <2>2. st2.state = st.state /\ st2.archive = st.archive /\ st2.master = "archive"
    BY <1>3, <2>a
  <2>3. Len(z) = 0 /\ z = <<>>
    BY <1>2, <1>9
  <2>4. Whole(st2) = Whole(st)
    BY <2>2 DEF Whole
  <2>b. ~x.broken => st2.archive = Whole(st2)
    BY <1>4, <1>9, <2>2, <2>4
  <2>c. ~(Len(z) > 1) /\ ~(Len(z) > 2) /\ x.segs = st2.state.segs /\ st2.state.segs # <<>>
    BY <1>4, <2>2, <2>3
  <2>5. Finalizes(st2, x)
    BY <2>2, <2>3, <2>b, <2>c DEF Finalizes
  <2> QED
    BY <2>2, <2>4, <2>5 DEF Sealed
<1> QED
  BY <1>4, <1>7, <1>8, <1>9
-----------------------------------------------------------------------------
(* The one open row is the row that the key finds.                         *)
LEMMA OpenIs ==
  ASSUME OneOpen, Types
  PROVE  /\ Open \in Streams /\ stream[Open].status \in {"IDLE", "LIVE"}
         /\ \A s \in Streams : /\ s < Open => stream[s].status = "ENDED"
                               /\ s > Open => stream[s].status = "NONE"
         /\ \A s \in Streams : stream[s].status \in {"IDLE", "LIVE"} => s = Open
<1>1. PICK o \in Streams :
        /\ stream[o].status \in {"IDLE", "LIVE"}
        /\ \A s \in Streams : (s < o => stream[s].status = "ENDED") /\ (s > o => stream[s].status = "NONE")
  BY DEF OneOpen
<1>2. \A s \in Streams : s < o \/ s > o \/ s = o
  BY BroadcastAssumption DEF Streams
<1>3. Open \in Streams /\ stream[Open].status \in {"IDLE", "LIVE"}
  BY <1>1 DEF Open
<1>4. \A s \in Streams : stream[s].status \in {"IDLE", "LIVE"} => s = o
  BY <1>1, <1>2
<1>5. Open = o
  BY <1>3, <1>4
<1> QED
  BY <1>1, <1>3, <1>4, <1>5

(* The steps of the gateway, the creator and the relay keep the types.     *)
LEMMA GateTypes ==
  ASSUME Types, RowsAgree,
         \/ HookAsk \/ PublisherLeaves \/ StopRequest
         \/ \E s \in Streams : HookGoLive(s) \/ PublisherReady(s) \/ RelayPublish(s)
  PROVE  Types'
<1>1. Open \in Streams
  BY OpenIs DEF RowsAgree
<1>2. \A s \in Streams : {Call("goLive", s), Call("admitted", s)}
                           \subseteq [at : {"goLive", "admitted"}, stream : Streams]
  BY DEF Call
<1>3. CASE HookAsk
  BY <1>1, <1>2, <1>3 DEF HookAsk, Types, rows, counters
<1>4. CASE PublisherLeaves
  BY <1>4 DEF PublisherLeaves, Types, rows, counters
<1>5. CASE StopRequest
  <2>1. stream' = [stream EXCEPT ![Open] = [stream[Open] EXCEPT !.stop = TRUE]]
    BY <1>5 DEF StopRequest
  <2>2. [stream[Open] EXCEPT !.stop = TRUE] \in Rows
    BY <1>1 DEF Types, Rows
  <2>3. stream' \in [Streams -> Rows]
    BY <2>1, <2>2 DEF Types
  <2> QED
    BY <1>5, <2>3 DEF StopRequest, Types, gate, counters
<1>6. ASSUME NEW s \in Streams, HookGoLive(s) PROVE Types'
  <2>1. calls' \subseteq [at : {"goLive", "admitted"}, stream : Streams]
    BY <1>2, <1>6 DEF HookGoLive, Taking, Types
  <2>2. CASE stream[s].status = "IDLE"
    <3>1. /\ stream' = [stream EXCEPT ![s] = [stream[s] EXCEPT !.status = "LIVE"]]
          /\ video' = [video EXCEPT ![s] = "LIVE"] /\ outbox' = outbox \cup {s}
      BY <1>6, <2>2 DEF HookGoLive
    <3>2. [stream[s] EXCEPT !.status = "LIVE"] \in Rows
      BY DEF Types, Rows
    <3>3. stream' \in [Streams -> Rows]
      BY <3>1, <3>2 DEF Types
    <3> QED
      BY <1>6, <2>1, <3>1, <3>3 DEF HookGoLive, Types, counters
  <2>3. CASE stream[s].status # "IDLE"
    <3>1. UNCHANGED rows
      BY <1>6, <2>3 DEF HookGoLive
    <3> QED
      BY <1>6, <2>1, <3>1 DEF HookGoLive, Types, counters, rows
  <2> QED
    BY <2>2, <2>3
<1>7. ASSUME NEW s \in Streams, PublisherReady(s) PROVE Types'
  BY <1>7 DEF PublisherReady, Taking, Types, rows
<1>8. ASSUME NEW s \in Streams, RelayPublish(s) PROVE Types'
  <2>1. Added(job[s], "waiting") \in StageJobs(Runs)
    BY DEF Types, Added, StageJobs, JobStates
  <2> QED
    BY <1>8, <2>1 DEF RelayPublish, Types, gate, counters
<1> QED
  BY <1>3, <1>4, <1>5, <1>6, <1>7, <1>8

(* What the steps of an execution do to the rest of the state.             *)
Counted == UNCHANGED counters \/ (CallFails /\ UNCHANGED <<faults, overlap, slipped>>)

Progresses(r) == Progress(r) \/ Upload(r) \/ AcceptInit(r) \/ AcceptPart(r)

(* Each step of an execution writes few of the other variables.            *)
LEMMA ProgressLeaves ==
  ASSUME Types, NEW r \in Runs, Progresses(r)
  PROVE  /\ Counted
         /\ UNCHANGED <<calls, outbox>>
         /\ publishing' \in {publishing, FALSE}
         /\ EndStream(r) \/ UNCHANGED stream
         /\ FlipVideo(r) \/ UNCHANGED video
         /\ Upload(r) \/ UNCHANGED store
         /\ LastKick(r) \/ KickOrphan(r) \/ UNCHANGED publishing
<1>1. CASE LoadStream(r) \/ WaitForPublisher(r) \/ OpenSession(r) \/ CheckPublisher(r) \/ LoadArchive(r) \/ LookAtNext(r)
  BY <1>1 DEF LoadStream, WaitForPublisher, OpenSession, CheckPublisher, LoadArchive, LookAtNext,
              Counted, counters, rows, gate, NoError
<1>2. CASE EncoderStops(r) \/ Drained(r) \/ AcceptInit(r) \/ AcceptPart(r)
  BY <1>2 DEF EncoderStops, Drained, AcceptInit, AcceptPart, Counted, counters, rows, gate
<1>3. CASE LastKick(r) \/ KickOrphan(r)
  BY <1>3 DEF LastKick, KickOrphan, Kick, Counted, counters, rows, NoError
<1>4. CASE EndStream(r)
  BY <1>4 DEF EndStream, Counted, counters, gate, NoError
<1>5. CASE FlipVideo(r)
  BY <1>5 DEF FlipVideo, Counted, counters, gate, NoError
<1>6. CASE Upload(r)
  BY <1>6 DEF Upload, Counted, counters, rows, gate, NoError
<1> QED
  BY <1>1, <1>2, <1>3, <1>4, <1>5, <1>6 DEF Progresses, Progress

(* The run and the job that each of them leaves.                           *)
Uploads(r, x) ==
  /\ x \in Executions /\ x.pc = run[r].pc /\ x.stream = Of(r) /\ x.keyed = run[r].keyed
  /\ x.epoch = run[r].epoch /\ x.own = run[r].own /\ x.segs = run[r].segs /\ x.parts = run[r].parts
  /\ \/ /\ store' = [store EXCEPT ![Of(r)] = Stored(store[Of(r)], Head(run[r].queue))]
        /\ x.queue = Tail(run[r].queue) /\ x.broken = run[r].broken
     \/ x.queue = <<>> /\ x.broken /\ UNCHANGED store

(* Upload: the record it leaves.                                           *)
LEMMA UploadLeaves ==
  ASSUME Types, NEW r \in Runs, Upload(r)
  PROVE  /\ run[r].queue # <<>> /\ UNCHANGED job
         /\ \E x : Uploads(r, x) /\ run' = [run EXCEPT ![r] = x]
<1>1. run[r] \in Executions /\ run[r].queue \in Seq(Writes) /\ run[r].queue # <<>>
  BY DEF Types, Executions, Upload
<1>2. Tail(run[r].queue) \in Seq(Writes) /\ <<>> \in Seq(Writes)
  BY <1>1
<1>3. UNCHANGED job
  BY DEF Upload
<1>4. CASE store' = store
           /\ run' = [run EXCEPT ![r] = [run[r] EXCEPT !.queue = <<>>, !.broken = TRUE]]
  <2> DEFINE x == [run[r] EXCEPT !.queue = <<>>, !.broken = TRUE]
  <2>1. Uploads(r, x)
    BY <1>1, <1>2, <1>4 DEF Uploads, Executions, Of
  <2> QED
    BY <1>1, <1>3, <1>4, <2>1
<1>5. CASE store' = [store EXCEPT ![Of(r)] = Stored(store[Of(r)], Head(run[r].queue))]
           /\ run' = [run EXCEPT ![r] = [run[r] EXCEPT !.queue = Tail(run[r].queue)]]
  <2> DEFINE z == Tail(run[r].queue)
             x == [run[r] EXCEPT !.queue = z]
  <2>1. z \in Seq(Writes)
    BY <1>2
  <2> HIDE DEF z
  <2>2. /\ x \in Executions /\ x.pc = run[r].pc /\ x.stream = Of(r) /\ x.keyed = run[r].keyed
        /\ x.epoch = run[r].epoch /\ x.own = run[r].own /\ x.segs = run[r].segs
        /\ x.parts = run[r].parts /\ x.queue = z /\ x.broken = run[r].broken
    BY <1>1, <2>1 DEF Executions, Of
  <2>3. Uploads(r, x)
    BY <1>5, <2>2 DEF Uploads, z
  <2> QED
    BY <1>1, <1>3, <1>5, <2>3 DEF z
<1> QED
  BY <1>4, <1>5 DEF Upload, Becomes

(* The steps of Progress, by the record they leave.                        *)
LEMMA QuietSteps ==
  ASSUME Types, OneHolder, NEW r \in Runs, Progress(r)
  PROVE  \/ Goes(r)
         \/ OpenSession(r) /\ UNCHANGED job /\ \E x : Opened(r, x) /\ run' = [run EXCEPT ![r] = x]
         \/ EncoderStops(r)
         \/ LoadArchive(r) /\ UNCHANGED job /\ \E x : Loaded(r, x) /\ run' = [run EXCEPT ![r] = x]
  BY LoadGoes, WaitGoes, DrainedGoes, CheckGoes, EndingGoes, OpenSessionLeaves, LoadArchiveLeaves
     DEF Progress, Goes, Places
(* A worker takes a job.                                                   *)
Starts(r, s, x) ==
  /\ x \in Executions /\ x.pc = "load" /\ x.stream = s /\ x.queue = <<>> /\ x.parts = 0
  /\ ~x.keyed
  /\ job[s].state = "waiting" /\ job' = [job EXCEPT ![s] = Taken(job[s], r)]
  /\ Taken(job[s], r) \in StageJobs(Runs)

(* StartJob: the record it leaves.                                         *)
LEMMA StartLeaves ==
  ASSUME Types, NEW r \in Runs, StartJob(r)
  PROVE  /\ At(r, "idle") /\ UNCHANGED <<rows, gate, store, counters>>
         /\ \E s \in Streams, x \in Executions : Starts(r, s, x) /\ run' = [run EXCEPT ![r] = x]
<1>1. PICK s \in Streams :
        /\ job[s].state = "waiting" /\ job' = [job EXCEPT ![s] = Taken(@, r)]
        /\ Becomes(r, [NoRun EXCEPT !.pc = "load", !.stream = s,
                                    !.last = job[s].attempts + 1 >= MaxAttempts])
  BY DEF StartJob
<1> DEFINE last == job[s].attempts + 1 >= MaxAttempts
           x == [NoRun EXCEPT !.pc = "load", !.stream = s, !.last = last]
<1>2. last \in BOOLEAN
  OBVIOUS
<1> HIDE DEF last
<1>3. x \in Executions
  BY <1>2, NoRunIsExecution DEF Executions, RunPlaces
<1>4. x.pc = "load" /\ x.stream = s /\ x.queue = <<>> /\ x.parts = 0 /\ ~x.keyed
  BY DEF NoRun
<1>5. run' = [run EXCEPT ![r] = x]
  BY <1>1 DEF Becomes, last
<1>6. Taken(job[s], r) \in StageJobs(Runs)
  BY DEF Types, Taken, StageJobs, JobStates
<1> HIDE DEF x
<1>7. Starts(r, s, x)
  BY <1>1, <1>3, <1>4, <1>6 DEF Starts
<1> QED
  BY <1>3, <1>5, <1>7 DEF StartJob

(* Every step of an execution.                                             *)
LEMMA RunTypes ==
  ASSUME Types, RowsAgree, OneHolder, NEW r \in Runs, Progresses(r) \/ Crash(r) \/ Stall(r) \/ StartJob(r)
  PROVE  /\ run' \in [Runs -> Executions] /\ \A u \in Runs : PartsFit(run'[u])
         /\ job' \in [Streams -> StageJobs(Runs)]
<1>0. UNCHANGED job => job' \in [Streams -> StageJobs(Runs)]
  BY DEF Types
<1>1. CASE Goes(r)
  BY <1>1, GoesTypes
<1>2. ASSUME UNCHANGED job, NEW x, Opened(r, x) \/ Loaded(r, x), run' = [run EXCEPT ![r] = x]
      PROVE  run' \in [Runs -> Executions] /\ \A u \in Runs : PartsFit(run'[u])
  BY <1>2, BecomesTypes DEF Opened, Loaded
<1>3. CASE EncoderStops(r)
  <2>1. PICK x \in Executions : run' = [run EXCEPT ![r] = x] /\ PartsFit(x)
    BY <1>3, EncoderStopsLeaves
  <2> QED
    BY <1>0, <1>3, <2>1, BecomesTypes DEF EncoderStops
<1>4. CASE AcceptInit(r)
  <2>1. PICK x \in Executions : run' = [run EXCEPT ![r] = x] /\ PartsFit(x)
    BY <1>4, AcceptInitLeaves
  <2> QED
    BY <1>0, <1>4, <2>1, BecomesTypes DEF AcceptInit
<1>5. CASE AcceptPart(r)
  <2>1. PICK x \in Executions : run' = [run EXCEPT ![r] = x] /\ PartsFit(x)
    BY <1>5, AcceptPartLeaves
  <2> QED
    BY <1>0, <1>5, <2>1, BecomesTypes DEF AcceptPart
<1>6. CASE Upload(r)
  <2>1. PICK x : Uploads(r, x) /\ run' = [run EXCEPT ![r] = x]
    BY <1>6, UploadLeaves
  <2>2. x \in Executions /\ PartsFit(x)
    BY <2>1 DEF Uploads, Types, PartsFit
  <2> QED
    BY <1>0, <1>6, <2>1, <2>2, UploadLeaves, BecomesTypes
<1>7. CASE StartJob(r)
  <2>1. PICK s \in Streams, x \in Executions : Starts(r, s, x) /\ run' = [run EXCEPT ![r] = x]
    BY <1>7, StartLeaves
  <2>2. PartsFit(x)
    BY <2>1, BroadcastAssumption DEF Starts, PartsFit
  <2>3. job' \in [Streams -> StageJobs(Runs)]
    BY <2>1 DEF Starts, Types
  <2> QED
    BY <2>1, <2>2, <2>3, BecomesTypes
<1>8. CASE Crash(r)
  BY <1>1, <1>8, EndingGoes DEF Goes
<1>9. CASE Stall(r)
  <2>1. job' \in [Streams -> StageJobs(Runs)]
    BY <1>9, OwnedJob DEF Stall, Lost, Types
  <2> QED
    BY <1>9, <2>1 DEF Stall, Types
<1> QED
  BY <1>0, <1>1, <1>2, <1>3, <1>4, <1>5, <1>6, <1>7, <1>8, <1>9, QuietSteps DEF Progresses

(* A write keeps the types of the store.                                   *)
LEMMA StoreTypesKept ==
  ASSUME Types, NEW r \in Runs, Upload(r)
  PROVE  store' \in [Streams -> Stores]
<1>1. PICK x : Uploads(r, x) /\ run' = [run EXCEPT ![r] = x]
  BY UploadLeaves
<1>2. run[r].queue \in Seq(Writes) /\ run[r].queue # <<>>
  BY UploadLeaves DEF Types, Executions
<1>3. Head(run[r].queue) \in Writes
  BY <1>2, PopSeq
<1>4. Stored(store[Of(r)], Head(run[r].queue)) \in Stores
  BY <1>3, StoreTypes, StoredFields
<1> QED
  BY <1>1, <1>4, StoreTypes DEF Uploads, Types

(* The counters stay within their bound.                                   *)
LEMMA CountersTypes ==
  ASSUME Types, \/ Counted
                \/ MoreTrouble /\ faults' = faults + 1 /\ UNCHANGED errors
                   /\ overlap' \in BOOLEAN /\ UNCHANGED slipped
  PROVE  /\ faults' \in Nat /\ errors' \in Nat /\ faults' + errors' <= MaxTroubles
         /\ overlap' \in BOOLEAN /\ slipped' \in BOOLEAN
  BY BroadcastAssumption DEF Types, Counted, counters, CallFails, MoreTrouble

(* The steps of an execution keep the types.                               *)
LEMMA StepTypes ==
  ASSUME Types, RowsAgree, OneHolder, NEW r \in Runs, Progresses(r) \/ Crash(r) \/ Stall(r) \/ StartJob(r)
  PROVE  Types'
<1>1. /\ run' \in [Runs -> Executions] /\ \A u \in Runs : PartsFit(run'[u])
      /\ job' \in [Streams -> StageJobs(Runs)]
  BY RunTypes
<1>2. CASE Crash(r)
  <2>1. /\ faults' \in Nat /\ errors' \in Nat /\ faults' + errors' <= MaxTroubles
        /\ overlap' \in BOOLEAN /\ slipped' \in BOOLEAN
    BY <1>2, CountersTypes DEF Crash, Types
  <2> QED
    BY <1>1, <1>2, <2>1 DEF Crash, Types, rows, gate
<1>3. CASE Stall(r)
  <2>1. /\ faults' \in Nat /\ errors' \in Nat /\ faults' + errors' <= MaxTroubles
        /\ overlap' \in BOOLEAN /\ slipped' \in BOOLEAN
    BY <1>3, CountersTypes DEF Stall
  <2> QED
    BY <1>1, <1>3, <2>1 DEF Stall, Types, rows, gate
<1>4. CASE StartJob(r)
  BY <1>1, <1>4, StartLeaves DEF Types, rows, gate, counters
<1>5. CASE Progresses(r)
  <2>1. /\ faults' \in Nat /\ errors' \in Nat /\ faults' + errors' <= MaxTroubles
        /\ overlap' \in BOOLEAN /\ slipped' \in BOOLEAN
    BY <1>5, CountersTypes, ProgressLeaves
  <2>2. calls' = calls /\ outbox' = outbox /\ publishing' \in BOOLEAN
    BY <1>5, ProgressLeaves DEF Types
  <2>3. stream' \in [Streams -> Rows]
    <3>1. CASE UNCHANGED stream
      BY <3>1 DEF Types
    <3>2. CASE ~UNCHANGED stream
      <4> DEFINE s == Of(r)
      <4>1. /\ stream[s].status = "LIVE"
            /\ stream' = [stream EXCEPT ![s].status = "ENDED", ![s + 1].status = "IDLE"]
        BY <1>5, <3>2, ProgressLeaves DEF EndStream
      <4>2. s \in Streams /\ s + 1 \in Streams
        BY <4>1, StoreTypes, BroadcastAssumption DEF RowsAgree, Broadcasts, Streams
      <4> HIDE DEF s
      <4>3. stream' = [[stream EXCEPT ![s] = [stream[s] EXCEPT !.status = "ENDED"]]
                         EXCEPT ![s + 1].status = "IDLE"]
        BY <4>1
      <4>4. [stream EXCEPT ![s] = [stream[s] EXCEPT !.status = "ENDED"]] \in [Streams -> Rows]
        BY <4>2 DEF Types, Rows
      <4> DEFINE f == [stream EXCEPT ![s] = [stream[s] EXCEPT !.status = "ENDED"]]
      <4> HIDE DEF f
      <4>5. f \in [Streams -> Rows]
        BY <4>4 DEF f
      <4>6. [f[s + 1] EXCEPT !.status = "IDLE"] \in Rows
        BY <4>2, <4>5 DEF Rows
      <4>7. stream' = [f EXCEPT ![s + 1] = [f[s + 1] EXCEPT !.status = "IDLE"]]
        BY <4>3 DEF f
      <4> QED
        BY <4>2, <4>5, <4>6, <4>7
    <3> QED
      BY <3>1, <3>2
  <2>4. video' \in [Streams -> {"none", "LIVE", "READY", "FAILED"}]
    <3>1. CASE UNCHANGED video
      BY <3>1 DEF Types
    <3>2. CASE ~UNCHANGED video
      BY <1>5, <3>2, ProgressLeaves, StoreTypes DEF FlipVideo, Types
    <3> QED
      BY <3>1, <3>2
  <2>5. store' \in [Streams -> Stores]
    <3>1. CASE UNCHANGED store
      BY <3>1 DEF Types
    <3> QED
      BY <1>5, <3>1, ProgressLeaves, StoreTypesKept
  <2> QED
    BY <1>1, <2>1, <2>2, <2>3, <2>4, <2>5 DEF Types
<1> QED
  BY <1>2, <1>3, <1>4, <1>5
-----------------------------------------------------------------------------
(* What the queue of one execution and the record of its session promise.  *)
MediaOf(st, x) ==
  /\ QueueStands(st, x.queue)
  /\ InSession(x) /\ ~x.broken => SessionNames(x) \subseteq AllMedia(st, x.queue)
  /\ x.pc = "connect" => x.own = Len(x.segs)

EpochsOf(x) ==
  /\ QueueRises(x.queue)
  /\ x.pc = "connect" => Below(x.segs, x.epoch)
  /\ x.pc = "encode" => Below(x.segs, x.epoch + 1)

Ordered(st, x) == InOrder(st, x.queue) /\ (~x.broken => Sequel(st, x.queue, x.segs))

(* An empty queue keeps every promise.                                     *)
LEMMA EmptyQueue ==
  ASSUME NEW st
  PROVE  QueueStands(st, <<>>) /\ QueueRises(<<>>) /\ InOrder(st, <<>>)
<1>1. Len(<<>>) = 0 /\ DOMAIN <<>> = {}
  OBVIOUS
<1> QED
  BY <1>1 DEF QueueStands, QueueRises, InOrder, ChainHolds, NoRewrite

(* So does a record with an empty queue and no session.                    *)
LEMMA QuietRecord ==
  ASSUME NEW st, NEW x, x.queue = <<>>, ~InSession(x)
  PROVE  MediaOf(st, x) /\ EpochsOf(x)
  BY EmptyQueue DEF MediaOf, EpochsOf, InSession

(* One record changes and the objects stay: the media stand.               *)
LEMMA MediaKept ==
  ASSUME Types, MediaStands, EpochsRise, NEW r \in Runs, NEW x \in Executions,
         run' = [run EXCEPT ![r] = x], UNCHANGED store, MediaOf(store[x.stream], x), EpochsOf(x)
  PROVE  MediaStands' /\ EpochsRise'
<1>1. /\ run'[r] = x /\ \A u \in Runs : u # r => run'[u] = run[u]
      /\ store' = store
  BY DEF Types
<1>2. StoreStands'
  BY <1>1 DEF MediaStands, StoreStands
<1>3. ASSUME NEW u \in Runs
      PROVE  /\ QueueStands(store[run'[u].stream], run'[u].queue)
             /\ InSession(run'[u]) /\ ~run'[u].broken =>
                  SessionNames(run'[u]) \subseteq AllMedia(store[run'[u].stream], run'[u].queue)
             /\ run'[u].pc = "connect" => run'[u].own = Len(run'[u].segs)
  <2>1. CASE u = r
    BY <1>1, <2>1 DEF MediaOf
  <2>2. CASE u # r
    BY <1>1, <2>2 DEF MediaStands, Of, At
  <2> QED
    BY <2>1, <2>2
<1>4. MediaStands'
  BY <1>1, <1>2, <1>3 DEF MediaStands, Of, At
<1>5. ASSUME NEW u \in Runs
      PROVE  EpochsOf(run'[u])
  <2>1. CASE u = r
    BY <1>1, <2>1
  <2>2. CASE u # r
    BY <1>1, <2>2 DEF EpochsRise, EpochsOf, At
  <2> QED
    BY <2>1, <2>2
<1>6. EpochsRise'
  BY <1>1, <1>5 DEF EpochsRise, EpochsOf, At
<1> QED
  BY <1>4, <1>6

(* They stand when an execution moves with an empty queue.                 *)
LEMMA GoesMedia ==
  ASSUME Types, MediaStands, EpochsRise, NEW r \in Runs, Goes(r), UNCHANGED store
  PROVE  MediaStands' /\ EpochsRise'
<1>1. CASE Ends(r)
  <2>1. NoRun.queue = <<>> /\ ~InSession(NoRun)
    BY DEF NoRun, InSession
  <2> QED
    BY <1>1, <2>1, NoRunIsExecution, QuietRecord, MediaKept DEF Ends
<1>2. CASE ~Ends(r)
  <2>1. PICK place \in Places, x \in Executions :
          run' = [run EXCEPT ![r] = x] /\ x.pc = place /\ x.queue = <<>>
    BY <1>2 DEF Goes, ToPlace
  <2>2. ~InSession(x)
    BY <2>1 DEF InSession, Places
  <2> QED
    BY <2>1, <2>2, QuietRecord, MediaKept
<1> QED
  BY <1>1, <1>2

(* The queue that a session opens with.                                    *)
LEMMA OpenedRecord ==
  ASSUME Types, MediaStands, EpochsRise, NEW r \in Runs, NEW x, Opened(r, x)
  PROVE  /\ MediaOf(store[x.stream], x) /\ EpochsOf(x)
         /\ InOrder(store[x.stream], x.queue)
         /\ Sequel(store[x.stream], x.queue, x.segs)
<1> DEFINE w == Put("master", "index")
           q == <<w>>
           st == store[Of(r)]
<1>1. q \in Seq(Writes) /\ Len(q) = 1 /\ DOMAIN q = 1..1 /\ q[1] = w
  BY PutIsWrite DEF Masters
<1>2. w.object = "master" /\ Names(w) = {}
  BY PutNames
<1> HIDE DEF q, w
<1>3. /\ x.pc = "connect" /\ x.stream = Of(r) /\ x.epoch = st.state.epochs /\ x.segs = st.state.segs
      /\ x.own = Len(x.segs) /\ x.queue = q
  BY DEF Opened, q, w
<1>4. st \in Stores /\ Of(r) \in Streams /\ st.state.segs \in Seq(Nat)
  BY StoreTypes
<1>5. Recorded(st.state.segs) \subseteq st.media /\ Below(st.state.segs, st.state.epochs)
  BY <1>4 DEF MediaStands, StoreStands, EpochsRise
<1> HIDE DEF st
<1>6. \A i \in DOMAIN q : q[i] = w
  BY <1>1
<1>7. QueueStands(st, q) /\ QueueRises(q) /\ InOrder(st, q)
  BY <1>1, <1>2, <1>6 DEF QueueStands, QueueRises, InOrder, ChainHolds, NoRewrite
<1>8. st.media \subseteq AllMedia(st, q)
  BY DEF AllMedia, MediaBefore
<1>9. SessionNames(x) = Recorded(st.state.segs)
  BY <1>3 DEF SessionNames
<1>10. Sequel(st, q, x.segs)
  BY <1>1, <1>2, <1>3, <1>4, <1>6, ExtendsFacts DEF Sequel
<1> QED
  BY <1>3, <1>5, <1>7, <1>8, <1>9, <1>10 DEF MediaOf, EpochsOf, st

(* The writes that close an archive.                                       *)
LEMMA LoadedRecord ==
  ASSUME Types, MediaStands, EpochsRise, NEW r \in Runs, NEW x, Loaded(r, x)
  PROVE  /\ MediaOf(store[x.stream], x) /\ EpochsOf(x)
         /\ InOrder(store[x.stream], x.queue)
<1> DEFINE st == store[Of(r)]
           q == FinalWrites(st)
<1>1. /\ x.pc = "closing" /\ x.stream = Of(r)
      /\ x.queue = IF st.state.segs = <<>> THEN <<>> ELSE q
  BY DEF Loaded
<1>2. st \in Stores /\ Of(r) \in Streams /\ st.state.segs \in Seq(Nat)
  BY StoreTypes
<1>3. Recorded(st.state.segs) \subseteq st.media /\ Below(st.state.segs, st.state.epochs)
  BY <1>2 DEF MediaStands, StoreStands, EpochsRise
<1> HIDE DEF st
<1>4. /\ q \in Seq(Writes) /\ Len(q) = 3 /\ DOMAIN q = 1..3
      /\ q[1] = Put("state", st.state) /\ q[2] = Put("archive", Whole(st))
      /\ q[3] = Put("master", "archive")
  BY <1>2, FinalWritesFacts
<1> HIDE DEF q
<1>5. /\ q[1].object = "state" /\ q[1].body = st.state
      /\ q[2].object = "archive" /\ q[2].body.segs = st.state.segs
      /\ q[3].object = "master"
  BY <1>4 DEF Put, Whole
<1>6. /\ Names(q[1]) = Recorded(st.state.segs) /\ Names(q[2]) = Recorded(st.state.segs)
      /\ Names(q[3]) = {}
  BY <1>5 DEF Names
<1>7. \A i \in DOMAIN q : i = 1 \/ i = 2 \/ i = 3
  BY <1>4
<1>8. QueueStands(st, q)
  <2>1. \A i : st.media \subseteq MediaBefore(st, q, i)
    BY DEF MediaBefore
  <2> QED
    BY <1>3, <1>4, <1>6, <1>7, <2>1 DEF QueueStands
<1>9. QueueRises(q)
  BY <1>3, <1>5, <1>7 DEF QueueRises
<1>10. InOrder(st, q)
  <2>1. Extends(st.state.segs, st.state.segs)
    BY <1>2, ExtendsFacts
  <2>2. \A i \in DOMAIN q : q[i].object = "state" => i = 1
    BY <1>5, <1>7
  <2>3. \A i \in DOMAIN q : q[i].object = "archive" => i = 2
    BY <1>5, <1>7
  <2>4. ChainHolds(st, q)
    BY <1>5, <2>1, <2>2, <2>3 DEF ChainHolds
  <2>5. NoRewrite(st, q)
    BY <1>5, <1>7 DEF NoRewrite
  <2> QED
    BY <2>4, <2>5 DEF InOrder
<1>11. ~InSession(x)
  BY <1>1 DEF InSession
<1> QED
  BY <1>1, <1>8, <1>9, <1>10, <1>11, EmptyQueue DEF MediaOf, EpochsOf, InSession, st
(* One write, and the writes of a closed segment, behind the queue.        *)
LEMMA BehindOne ==
  ASSUME NEW st \in Stores, NEW record \in Executions, NEW w \in Writes,
         w.object \notin {"state", "archive"},
         w.object = "media" => w.body \notin Recorded(record.segs),
         NEW x, x.broken = record.broken, x.segs = record.segs, Behind(x.queue, record, <<w>>)
  PROVE  /\ QueueRises(record.queue) => QueueRises(x.queue)
         /\ Ordered(st, record) => Ordered(st, x)
<1> DEFINE ws == <<w>>
<1>1. ws \in Seq(Writes) /\ record.segs \in Seq(Nat)
  BY DEF Executions, Segs
<1>2. Behind(x.queue, record, ws)
  OBVIOUS
<1> HIDE DEF ws
<1>3. /\ record.queue \in Seq(Writes)
      /\ record.broken => x.queue = record.queue
      /\ ~record.broken => x.queue = record.queue \o ws
  BY <1>1, <1>2, BehindTypes
<1>4. CASE record.broken
  BY <1>3, <1>4 DEF Ordered
<1>5. CASE ~record.broken
  <2>1. x.queue = record.queue \o <<w>>
    BY <1>3, <1>5 DEF ws
  <2> HIDE DEF ws
  <2> DEFINE z == record.queue \o <<w>>
  <2>2. /\ QueueRises(record.queue) => QueueRises(z)
        /\ Sequel(st, record.queue, record.segs) => Sequel(st, z, record.segs)
        /\ InOrder(st, record.queue) /\ Sequel(st, record.queue, record.segs) => InOrder(st, z)
    BY <1>1, <1>3, PushOne
  <2>3. x.queue = z
    BY <2>1
  <2> HIDE DEF z
  <2> QED
    BY <1>5, <2>2, <2>3 DEF Ordered
<1> QED
  BY <1>4, <1>5

(* A closed segment enqueued keeps what the session promised.              *)
LEMMA BehindClosing ==
  ASSUME NEW st \in Stores, NEW record \in Executions, Below(record.segs, record.epoch + 1),
         NEW x, x.broken = record.broken, x.segs = Append(record.segs, record.epoch),
         x.segs \in Segs, Behind(x.queue, record, ClosingWrites(record.epoch, x.segs))
  PROVE  /\ QueueRises(record.queue) => QueueRises(x.queue)
         /\ Ordered(st, record) => Ordered(st, x)
         /\ Below(x.segs, record.epoch + 1)
<1> DEFINE ws == ClosingWrites(record.epoch, x.segs)
<1>1. record.segs \in Seq(Nat) /\ record.epoch \in Nat
  BY DEF Executions, Segs
<1>2. ws \in Seq(Writes)
  BY <1>1, ClosingWritesFacts
<1>3. /\ record.queue \in Seq(Writes)
      /\ record.broken => x.queue = record.queue
      /\ ~record.broken => x.queue = record.queue \o ws
  BY <1>2, BehindTypes
<1>4. Below(x.segs, record.epoch + 1)
  BY <1>1 DEF Below
<1>5. CASE record.broken
  BY <1>3, <1>4, <1>5 DEF Ordered
<1>6. CASE ~record.broken
  <2> DEFINE z == record.queue \o ws
  <2>1. /\ QueueRises(record.queue) => QueueRises(z)
        /\ Sequel(st, record.queue, record.segs) => Sequel(st, z, x.segs)
        /\ InOrder(st, record.queue) /\ Sequel(st, record.queue, record.segs) => InOrder(st, z)
    BY <1>1, <1>3, PushClosing
  <2>2. x.queue = z
    BY <1>3, <1>6
  <2> HIDE DEF z
  <2> QED
    BY <1>4, <1>6, <2>1, <2>2 DEF Ordered
<1> QED
  BY <1>5, <1>6

(* The session goes on: what it queues keeps the promises.                 *)
Carried(r, x) ==
  /\ x \in Executions /\ x.stream = Of(r) /\ x.keyed = run[r].keyed
  /\ x.pc \in {"encode", "drain"}
  /\ MediaOf(store[Of(r)], x) /\ EpochsOf(x)
  /\ Ordered(store[Of(r)], run[r]) =>
       /\ InOrder(store[Of(r)], x.queue)
       /\ InSession(x) /\ ~x.broken => Sequel(store[Of(r)], x.queue, x.segs)

(* AcceptInit carries the promises of the session.                         *)
LEMMA InitCarries ==
  ASSUME Types, MediaStands, EpochsRise, OneHolder, NEW r \in Runs, AcceptInit(r)
  PROVE  \E x : Carried(r, x) /\ run' = [run EXCEPT ![r] = x]
<1> DEFINE st == store[Of(r)]
<1>1. PICK x \in Executions :
        /\ run' = [run EXCEPT ![r] = x] /\ PartsFit(x)
        /\ x.pc = "encode" /\ x.stream = Of(r) /\ x.keyed = run[r].keyed
        /\ x.epoch = run[r].epoch /\ x.own = run[r].own /\ x.broken = run[r].broken
        /\ x.segs = run[r].segs /\ x.parts = 0
        /\ Behind(x.queue, run[r], <<Put("media", InitKey(run[r].epoch))>>)
        /\ Put("media", InitKey(run[r].epoch)) \in Writes
  BY AcceptInitLeaves
<1> DEFINE w == Put("media", InitKey(run[r].epoch))
<1>2. st \in Stores /\ run[r] \in Executions /\ run[r].pc = "connect"
  BY StoreTypes DEF Types, AcceptInit, At
<1>3. /\ Solid(st, run[r]) /\ run[r].own = Len(run[r].segs)
      /\ QueueRises(run[r].queue) /\ Below(run[r].segs, run[r].epoch)
  BY <1>2 DEF MediaStands, EpochsRise, Solid, At, InSession
<1> HIDE DEF st
<1>4. Solid(st, x)
  BY <1>1, <1>2, <1>3, InitSolid
<1>5. w \in Writes /\ w.object = "media" /\ w.body = InitKey(run[r].epoch)
  BY <1>1, PutNames
<1>6. run[r].segs \in Seq(Nat) /\ run[r].epoch \in Nat /\ DOMAIN run[r].segs = 1..Len(run[r].segs)
  BY <1>2 DEF Executions, Segs
<1>7. InitKey(run[r].epoch) \notin Recorded(run[r].segs)
  BY <1>3, <1>6, RecordedKeys
<1> HIDE DEF w
<1>8. Behind(x.queue, run[r], <<w>>)
  BY <1>1 DEF w
<1>9. QueueRises(x.queue) /\ (Ordered(st, run[r]) => Ordered(st, x))
  BY <1>1, <1>2, <1>3, <1>5, <1>7, <1>8, BehindOne
<1>10. Below(x.segs, x.epoch + 1)
  <2>1. \A i \in DOMAIN run[r].segs : run[r].segs[i] \in Nat
    BY <1>6
  <2> QED
    BY <1>1, <1>3, <1>6, <2>1 DEF Below
<1>11. MediaOf(st, x) /\ EpochsOf(x)
  BY <1>1, <1>4, <1>9, <1>10 DEF MediaOf, EpochsOf, Solid
<1>12. Carried(r, x)
  BY <1>1, <1>9, <1>11 DEF Carried, Ordered, st
<1> QED
  BY <1>1, <1>12

(* The numbers of a session are numbers.                                   *)
LEMMA SessionFields ==
  ASSUME NEW x \in Executions
  PROVE  x.segs \in Seq(Nat) /\ x.epoch \in Nat /\ x.parts \in Nat /\ Len(x.segs) \in Nat
  BY BroadcastAssumption DEF Executions, Segs

(* AcceptPart carries the promises of the session.                         *)
LEMMA PartCarries ==
  ASSUME Types, MediaStands, EpochsRise, NEW r \in Runs, AcceptPart(r)
  PROVE  \E x : Carried(r, x) /\ run' = [run EXCEPT ![r] = x]
<1> DEFINE st == store[Of(r)]
           key == PartKey(run[r].epoch, Len(run[r].segs) + 1, run[r].parts + 1)
<1>1. PICK x, part, last \in Executions :
        /\ run' = [run EXCEPT ![r] = x] /\ PartsFit(x)
        /\ Same(part, run[r]) /\ part.segs = run[r].segs /\ part.parts = run[r].parts + 1
        /\ Behind(part.queue, run[r], <<Put("media", key)>>) /\ Put("media", key) \in Writes
        /\ Same(last, run[r])
        /\ \/ last = part /\ part.parts < PartsPerSegment
           \/ /\ part.parts = PartsPerSegment
              /\ last.parts = 0 /\ last.segs = Append(run[r].segs, run[r].epoch)
              /\ last.segs \in Segs
              /\ Behind(last.queue, part, ClosingWrites(run[r].epoch, last.segs))
        /\ Same(x, run[r]) /\ x.segs = last.segs /\ x.parts = last.parts
        /\ LET body == Listed(last.segs, last.own, last.epoch, last.parts) IN
           Behind(x.queue, last, <<Put("index", body)>>) /\ Put("index", body) \in Writes
  BY AcceptPartLeaves
<1> DEFINE body == Listed(last.segs, last.own, last.epoch, last.parts)
           w == Put("media", key)
           v == Put("index", body)
<1>2. st \in Stores /\ run[r] \in Executions /\ run[r].pc = "encode"
  BY StoreTypes DEF Types, AcceptPart, At
<1>3. /\ Solid(st, run[r])
      /\ QueueRises(run[r].queue) /\ Below(run[r].segs, run[r].epoch + 1)
  BY <1>2 DEF MediaStands, EpochsRise, Solid, At, InSession
<1> HIDE DEF st
<1>4. /\ run[r].segs \in Seq(Nat) /\ run[r].epoch \in Nat /\ run[r].parts \in Nat
      /\ Len(run[r].segs) \in Nat
  BY <1>2, SessionFields
<1>5. Solid(st, part)
  BY <1>1, <1>2, <1>3, PartSolid
<1>6. key \notin Recorded(run[r].segs)
  <2>1. Len(run[r].segs) + 1 \in Nat \ {0} /\ run[r].parts + 1 \in Nat \ {0}
    BY <1>4
  <2> QED
    BY <1>4, <2>1, RecordedKeys
<1>7. QueueRises(part.queue) /\ (Ordered(st, run[r]) => Ordered(st, part))
  <2>1. w \in Writes /\ w.object = "media" /\ w.body = key
    BY <1>1, PutNames
  <2>2. w.object \notin {"state", "archive"} /\ w.body \notin Recorded(run[r].segs)
    BY <1>6, <2>1
  <2> HIDE DEF w, key
  <2>3. Behind(part.queue, run[r], <<w>>) /\ part.broken = run[r].broken
    BY <1>1 DEF w, Same
  <2> QED
    BY <1>1, <1>2, <1>3, <2>1, <2>2, <2>3, BehindOne
<1>8. part.pc = "encode" /\ last.pc = "encode" /\ x.pc = "encode"
  BY <1>1, <1>2 DEF Same
<1>9. /\ Solid(st, last) /\ QueueRises(last.queue) /\ (Ordered(st, part) => Ordered(st, last))
      /\ Below(last.segs, last.epoch + 1)
  <2>1. CASE last = part
    BY <1>1, <1>3, <1>5, <1>7, <2>1 DEF Same
  <2>2. CASE /\ part.parts = PartsPerSegment
             /\ last.parts = 0 /\ last.segs = Append(run[r].segs, run[r].epoch)
             /\ last.segs \in Segs
             /\ Behind(last.queue, part, ClosingWrites(run[r].epoch, last.segs))
    <3>1. /\ Same(last, part) /\ last.segs = Append(part.segs, part.epoch)
          /\ last.broken = part.broken /\ last.epoch = part.epoch
          /\ Behind(last.queue, part, ClosingWrites(part.epoch, last.segs))
          /\ Below(part.segs, part.epoch + 1)
      BY <1>1, <1>3, <2>2 DEF Same
    <3>2. Solid(st, last)
      BY <1>1, <1>5, <1>8, <2>2, <3>1, ClosedSolid
    <3> QED
      BY <1>2, <1>7, <2>2, <3>1, <3>2, BehindClosing
  <2> QED
    BY <1>1, <2>1, <2>2
<1> HIDE DEF w
<1>10. Behind(x.queue, last, <<v>>) /\ v \in Writes
  BY <1>1
<1>11. Same(x, last) /\ x.broken = last.broken
  BY <1>1 DEF Same
<1>12. Solid(st, x)
  BY <1>1, <1>8, <1>9, <1>10, <1>11, PlaylistSolid
<1>13. v.object = "index"
  BY PutNames
<1> HIDE DEF v
<1>14. QueueRises(x.queue) /\ (Ordered(st, last) => Ordered(st, x))
  BY <1>1, <1>2, <1>9, <1>10, <1>11, <1>13, BehindOne
<1>15. Below(x.segs, x.epoch + 1)
  BY <1>1, <1>9 DEF Same
<1>16. MediaOf(st, x) /\ EpochsOf(x)
  BY <1>8, <1>12, <1>14, <1>15 DEF MediaOf, EpochsOf, Solid
<1>17. Ordered(st, run[r]) => Ordered(st, x)
  BY <1>7, <1>9, <1>14
<1>18. Carried(r, x)
  BY <1>1, <1>8, <1>16, <1>17 DEF Carried, Ordered, Same, st, Of
<1> QED
  BY <1>1, <1>18

(* EncoderStops carries the promises of the queue.                         *)
LEMMA StopCarries ==
  ASSUME Types, MediaStands, EpochsRise, OneHolder, NEW r \in Runs, EncoderStops(r)
  PROVE  \E x : Carried(r, x) /\ x.pc = "drain" /\ run' = [run EXCEPT ![r] = x]
<1> DEFINE st == store[Of(r)]
<1>1. PICK x \in Executions :
        /\ run' = [run EXCEPT ![r] = x] /\ PartsFit(x)
        /\ x.pc = "drain" /\ x.stream = Of(r) /\ x.keyed = run[r].keyed
        /\ \/ x.queue = run[r].queue /\ x.segs = run[r].segs
           \/ /\ run[r].parts > 0
              /\ x.segs = Append(run[r].segs, run[r].epoch) /\ x.segs \in Segs
              /\ Behind(x.queue, run[r], ClosingWrites(run[r].epoch, x.segs))
  BY EncoderStopsLeaves
<1>2. st \in Stores /\ run[r] \in Executions /\ run[r].pc \in {"connect", "encode"}
  BY StoreTypes DEF Types, EncoderStops
<1>3. Solid(st, run[r]) /\ QueueRises(run[r].queue)
  BY <1>2 DEF MediaStands, EpochsRise, Solid, InSession
<1> HIDE DEF st
<1>4. /\ QueueStands(st, x.queue) /\ QueueRises(x.queue)
      /\ Ordered(st, run[r]) => InOrder(st, x.queue)
  <2>1. CASE x.queue = run[r].queue /\ x.segs = run[r].segs
    BY <1>3, <2>1 DEF Solid, Ordered
  <2>2. CASE /\ run[r].parts > 0
             /\ x.segs = Append(run[r].segs, run[r].epoch) /\ x.segs \in Segs
             /\ Behind(x.queue, run[r], ClosingWrites(run[r].epoch, x.segs))
    <3>1. run[r].pc = "encode" /\ Below(run[r].segs, run[r].epoch + 1)
      BY <1>2, <2>2 DEF OneHolder, EpochsRise, At
    <3> DEFINE y == [x EXCEPT !.broken = run[r].broken]
    <3>2. y.queue = x.queue /\ y.segs = x.segs /\ y.broken = run[r].broken
      BY DEF Executions
    <3> HIDE DEF y
    <3>3. QueueStands(st, y.queue)
      BY <1>2, <1>3, <2>2, <3>1, <3>2, ClosedStands
    <3>4. /\ QueueRises(run[r].queue) => QueueRises(y.queue)
          /\ Ordered(st, run[r]) => Ordered(st, y)
      BY <1>2, <2>2, <3>1, <3>2, BehindClosing
    <3> QED
      BY <1>3, <3>2, <3>3, <3>4 DEF Ordered
  <2> QED
    BY <1>1, <2>1, <2>2
<1>5. MediaOf(st, x) /\ EpochsOf(x) /\ ~InSession(x)
  BY <1>1, <1>4 DEF MediaOf, EpochsOf, InSession
<1>6. Carried(r, x)
  BY <1>1, <1>4, <1>5 DEF Carried, st
<1> QED
  BY <1>1, <1>6
(* A write is made: the media it names are stored, and more is.            *)
LEMMA UploadMedia ==
  ASSUME Types, MediaStands, EpochsRise, NEW r \in Runs, Upload(r)
  PROVE  MediaStands' /\ EpochsRise'
<1>1. PICK x : Uploads(r, x) /\ run' = [run EXCEPT ![r] = x]
  BY UploadLeaves
<1> DEFINE st == store[Of(r)]
           q == run[r].queue
           st2 == Stored(st, Head(q))
<1>2. /\ x \in Executions /\ run[r] \in Executions /\ st \in Stores /\ Of(r) \in Streams
      /\ q \in Seq(Writes) /\ q # <<>> /\ x.stream = Of(r)
  BY <1>1, UploadLeaves, StoreTypes DEF Uploads, Types, Executions
<1>3. CASE x.queue = <<>> /\ x.broken /\ UNCHANGED store
  <2>1. MediaOf(store[x.stream], x)
    BY <1>1, <1>3, EmptyQueue DEF MediaOf, MediaStands, At, Uploads
  <2>2. EpochsOf(x)
    BY <1>1, <1>3, EmptyQueue DEF EpochsOf, EpochsRise, At, Uploads
  <2> QED
    BY <1>1, <1>2, <1>3, <2>1, <2>2, MediaKept
<1>4. CASE /\ store' = [store EXCEPT ![Of(r)] = st2]
           /\ x.queue = Tail(q) /\ x.broken = run[r].broken
  <2>0. QueueStands(st, q) /\ QueueRises(q) /\ Below(st.state.segs, st.state.epochs)
    BY <1>2 DEF MediaStands, EpochsRise
  <2>1. /\ QueueStands(st2, Tail(q)) /\ AllMedia(st2, Tail(q)) = AllMedia(st, q)
        /\ Names(q[1]) \subseteq st.media /\ st.media \subseteq st2.media
    BY <1>2, <2>0, PopStands
  <2>2. QueueRises(Tail(q)) /\ Below(st2.state.segs, st2.state.epochs)
    BY <1>2, <2>0, PopRises
  <2> DEFINE z == Tail(q)
  <2>3. Head(q) = q[1] /\ q[1] \in Writes
    BY <1>2, PopSeq
  <2>a. st2 = Stored(st, q[1])
    BY <2>3
  <2>5. x.queue = z
    BY <1>4
  <2> HIDE DEF st2, z, st, q
  <2>4. /\ st2.index = IF q[1].object = "index" THEN q[1].body ELSE st.index
        /\ st2.state = IF q[1].object = "state" THEN q[1].body ELSE st.state
        /\ st2.archive = IF q[1].object = "archive" THEN q[1].body ELSE st.archive
    BY <1>2, <2>3, <2>a, StoredFields
  <2>6. /\ Names(q[1]) = q[1].body \/ q[1].object # "index"
        /\ Names(q[1]) = Recorded(q[1].body.segs) \/ q[1].object \notin {"state", "archive"}
    BY DEF Names
  <2>7. /\ run'[r] = x /\ \A u \in Runs : u # r => run'[u] = run[u]
        /\ store'[Of(r)] = st2 /\ \A s \in Streams : s # Of(r) => store'[s] = store[s]
    BY <1>1, <1>2, <1>4 DEF Types
  <2>8. st2.index \cup Recorded(st2.state.segs) \cup Recorded(st2.archive.segs) \subseteq st2.media
    <3>1. st.index \cup Recorded(st.state.segs) \cup Recorded(st.archive.segs) \subseteq st.media
      BY <1>2 DEF MediaStands, StoreStands, st
    <3>2. st2.index \subseteq st.media
      BY <2>1, <2>4, <2>6, <3>1
    <3>3. Recorded(st2.state.segs) \subseteq st.media
      BY <2>1, <2>4, <2>6, <3>1
    <3>4. Recorded(st2.archive.segs) \subseteq st.media
      BY <2>1, <2>4, <2>6, <3>1
    <3> QED
      BY <2>1, <3>2, <3>3, <3>4
  <2>9. \A s \in Streams : store[s].media \subseteq store'[s].media
    BY <2>1, <2>7 DEF st
  <2>10. StoreStands'
    BY <2>7, <2>8 DEF StoreStands, MediaStands
  <2>11. ASSUME NEW u \in Runs
         PROVE  MediaOf(store'[run'[u].stream], run'[u]) /\ EpochsOf(run'[u])
    <3>1. CASE u = r
      <4>1. run'[u] = x /\ store'[run'[u].stream] = st2
        BY <1>2, <2>7, <3>1
      <4>2. SessionNames(x) = SessionNames(run[r]) /\ (InSession(x) <=> InSession(run[r]))
        BY <1>1 DEF Uploads, SessionNames, InSession
      <4>3. InSession(x) /\ ~x.broken => SessionNames(x) \subseteq AllMedia(st2, z)
        BY <1>4, <2>1, <4>2 DEF MediaStands, st, q, z
      <4>4. /\ x.pc = "connect" => x.own = Len(x.segs) /\ Below(x.segs, x.epoch)
            /\ x.pc = "encode" => Below(x.segs, x.epoch + 1)
        BY <1>1 DEF Uploads, MediaStands, EpochsRise, At
      <4> QED
        BY <2>1, <2>2, <2>5, <4>1, <4>3, <4>4 DEF MediaOf, EpochsOf, z
    <3>2. CASE u # r
      <4> DEFINE su == run[u].stream
      <4>1. run'[u] = run[u] /\ su \in Streams
        BY <2>7, <3>2 DEF Types, Executions
      <4>2. \A i : MediaBefore(store[su], run[u].queue, i) \subseteq MediaBefore(store'[su], run[u].queue, i)
        BY <2>9, <4>1, MediaGrows
      <4>3. /\ QueueStands(store[su], run[u].queue)
            /\ InSession(run[u]) /\ ~run[u].broken =>
                 SessionNames(run[u]) \subseteq AllMedia(store[su], run[u].queue)
            /\ run[u].pc = "connect" => run[u].own = Len(run[u].segs)
        BY DEF MediaStands, Of, At
      <4> HIDE DEF su
      <4>4. /\ QueueStands(store'[su], run[u].queue)
            /\ InSession(run[u]) /\ ~run[u].broken =>
                 SessionNames(run[u]) \subseteq AllMedia(store'[su], run[u].queue)
        BY <4>2, <4>3 DEF QueueStands, AllMedia
      <4>5. EpochsOf(run[u])
        BY DEF EpochsRise, EpochsOf, At
      <4> QED
        BY <4>1, <4>3, <4>4, <4>5 DEF MediaOf, su
    <3> QED
      BY <3>1, <3>2
  <2>12. \A s \in Streams : Below(store'[s].state.segs, store'[s].state.epochs)
    BY <2>2, <2>7 DEF EpochsRise
  <2>13. MediaStands'
    BY <2>10, <2>11 DEF MediaStands, MediaOf, Of, At
  <2>14. EpochsRise'
    BY <2>11, <2>12 DEF EpochsRise, EpochsOf, At
  <2> QED
    BY <2>13, <2>14
<1> QED
  BY <1>1, <1>3, <1>4 DEF Uploads

(* The media stand, and the epochs rise, over every step of an execution.  *)
LEMMA StepMedia ==
  ASSUME Types, MediaStands, EpochsRise, OneHolder,
         NEW r \in Runs, Progresses(r) \/ Crash(r) \/ Stall(r) \/ StartJob(r)
  PROVE  MediaStands' /\ EpochsRise'
<1>1. CASE Upload(r)
  BY <1>1, UploadMedia
<1>2. CASE Goes(r) /\ UNCHANGED store
  BY <1>2, GoesMedia
<1>3. ASSUME UNCHANGED store, NEW x, Opened(r, x), run' = [run EXCEPT ![r] = x]
      PROVE  MediaStands' /\ EpochsRise'
  BY <1>3, OpenedRecord, MediaKept DEF Opened
<1>4. ASSUME UNCHANGED store, NEW x, Loaded(r, x), run' = [run EXCEPT ![r] = x]
      PROVE  MediaStands' /\ EpochsRise'
  BY <1>4, LoadedRecord, MediaKept DEF Loaded
<1>5. ASSUME UNCHANGED store, NEW x, Carried(r, x), run' = [run EXCEPT ![r] = x]
      PROVE  MediaStands' /\ EpochsRise'
  BY <1>5, MediaKept DEF Carried
<1>6. CASE StartJob(r)
  <2>1. PICK s \in Streams, x \in Executions : Starts(r, s, x) /\ run' = [run EXCEPT ![r] = x]
    BY <1>6, StartLeaves
  <2>2. x.queue = <<>> /\ ~InSession(x) /\ UNCHANGED store
    BY <1>6, <2>1, StartLeaves DEF Starts, InSession
  <2> QED
    BY <2>1, <2>2, QuietRecord, MediaKept
<1>7. CASE Crash(r)
  BY <1>2, <1>7, EndingGoes DEF Goes, Crash
<1>8. CASE Stall(r)
  <2>1. UNCHANGED <<run, store>>
    BY <1>8 DEF Stall
  <2> QED
    BY <2>1 DEF MediaStands, EpochsRise, StoreStands, Of, At
<1>9. CASE Progresses(r) /\ ~Upload(r)
  <2>1. UNCHANGED store
    BY <1>9, ProgressLeaves
  <2>2. CASE AcceptInit(r)
    BY <1>5, <2>1, <2>2, InitCarries
  <2>3. CASE AcceptPart(r)
    BY <1>5, <2>1, <2>3, PartCarries
  <2>4. CASE EncoderStops(r)
    BY <1>5, <2>1, <2>4, StopCarries
  <2> QED
    BY <1>2, <1>3, <1>4, <1>9, <2>1, <2>2, <2>3, <2>4, QuietSteps DEF Progresses
<1> QED
  BY <1>1, <1>6, <1>7, <1>8, <1>9
-----------------------------------------------------------------------------
(* The rows.  No stream that began is ever taken back, and no end undone.  *)
GoOn ==
  /\ \A s \in Streams : /\ Began(s) => stream'[s].status \in {"LIVE", "ENDED"}
                        /\ stream[s].status = "ENDED" => stream'[s].status = "ENDED"
  /\ overlap => overlap'

(* What a changed record must say of its stream.                           *)
RowOf(x) ==
  /\ x.pc # "idle" => stream'[x.stream].status \in {"LIVE", "ENDED"}
  /\ x.pc \in {"flip", "next", "kick"} => stream'[x.stream].status = "ENDED"
  /\ x.pc \in {"archive", "closing"} /\ ~x.keyed /\ ~overlap' => stream'[x.stream].status = "ENDED"

RunsAgree ==
  /\ \A r \in Runs : ~At(r, "idle") => Began(Of(r))
  /\ \A r \in Runs : run[r].pc \in {"flip", "next", "kick"} => stream[Of(r)].status = "ENDED"
  /\ \A r \in Runs : run[r].pc \in {"archive", "closing"} /\ ~run[r].keyed /\ ~overlap =>
       stream[Of(r)].status = "ENDED"

JobsAgree ==
  /\ OneOpen
  /\ \A c \in calls : c.stream \in Broadcasts
  /\ \A s \in Streams :
       /\ stream[s].status = "LIVE" => s \in Broadcasts
       /\ s \in outbox \/ job[s].state # "absent" => Began(s)
       /\ video[s] \in {"READY", "FAILED"} => stream[s].status = "ENDED"

(* RowsAgree in its two parts.                                             *)
LEMMA RowsAre == RowsAgree <=> JobsAgree /\ RunsAgree
  BY DEF RowsAgree, JobsAgree, RunsAgree

(* One record changes, the others agree with their rows as before.         *)
LEMMA RunsKept ==
  ASSUME Types, RunsAgree, GoOn, NEW r \in Runs, NEW x, run' = [run EXCEPT ![r] = x], RowOf(x)
  PROVE  RunsAgree'
<1>1. /\ run'[r] = x /\ \A u \in Runs : u # r => run'[u] = run[u]
      /\ \A u \in Runs : run[u].stream \in Streams
  BY DEF Types, Executions
<1>2. ASSUME NEW u \in Runs PROVE RowOf(run'[u])
  <2>1. CASE u = r
    BY <1>1, <2>1
  <2>2. CASE u # r
    <3>1. run'[u] = run[u] /\ run[u].stream \in Streams
      BY <1>1, <2>2
    <3>2. RowOf(run[u])
      BY <3>1 DEF RunsAgree, GoOn, RowOf, At, Of
    <3> QED
      BY <3>1, <3>2
  <2> QED
    BY <2>1, <2>2
<1> QED
  BY <1>2 DEF RunsAgree, RowOf, Began, At, Of

(* The rows go on under executions that stay.                              *)
LEMMA RunsStay ==
  ASSUME Types, RunsAgree, GoOn, UNCHANGED run
  PROVE  RunsAgree'
<1>1. \A u \in Runs : run[u].stream \in Streams
  BY DEF Types, Executions
<1> QED
  BY <1>1 DEF RunsAgree, GoOn, Began, At, Of

(* The rows agree over the steps of the gateway, the creator and the relay. *)
LEMMA GateRows ==
  ASSUME Types, RowsAgree,
         \/ HookAsk \/ PublisherLeaves \/ StopRequest
         \/ \E s \in Streams : HookGoLive(s) \/ PublisherReady(s) \/ RelayPublish(s)
  PROVE  RowsAgree'
<1>0. /\ Open \in Streams /\ stream[Open].status \in {"IDLE", "LIVE"}
      /\ \A s \in Streams : /\ s < Open => stream[s].status = "ENDED"
                            /\ s > Open => stream[s].status = "NONE"
      /\ \A s \in Streams : stream[s].status \in {"IDLE", "LIVE"} => s = Open
  BY OpenIs DEF RowsAgree
<1>a. JobsAgree /\ RunsAgree
  BY RowsAre
<1>1. CASE HookAsk
  <2>1. Open < MaxStreams => Open \in Broadcasts
    BY <1>0, BroadcastAssumption DEF Broadcasts, Streams
  <2>2. \A c \in calls' : c.stream \in Broadcasts
    BY <1>0, <1>1, <1>a, <2>1 DEF HookAsk, JobsAgree, Call
  <2>3. UNCHANGED <<rows, job, run, overlap>>
    BY <1>1 DEF HookAsk, counters
  <2> QED
    BY <1>a, <2>2, <2>3 DEF RowsAgree, JobsAgree, RunsAgree, OneOpen, Began, At, Of, rows
<1>2. CASE PublisherLeaves
  <2>1. UNCHANGED <<rows, job, run, calls, overlap>>
    BY <1>2 DEF PublisherLeaves, counters
  <2> QED
    BY <1>a, <2>1 DEF RowsAgree, JobsAgree, RunsAgree, OneOpen, Began, At, Of, rows
<1>3. CASE StopRequest
  <2>1. \A s \in Streams : stream'[s].status = stream[s].status
    BY <1>0, <1>3 DEF StopRequest, Types, Rows
  <2>2. UNCHANGED <<video, outbox, job, run, calls, overlap>>
    BY <1>3 DEF StopRequest, gate, counters
  <2>3. GoOn
    BY <2>1, <2>2 DEF GoOn, Began
  <2>4. RunsAgree'
    BY <1>a, <2>2, <2>3, RunsStay
  <2>5. JobsAgree'
    BY <1>a, <2>1, <2>2 DEF JobsAgree, OneOpen, Began
  <2> QED
    BY <2>4, <2>5 DEF RowsAgree, JobsAgree, RunsAgree
<1>4. ASSUME NEW s \in Streams, HookGoLive(s) PROVE RowsAgree'
  <2>1. UNCHANGED <<job, run, overlap>>
    BY <1>4 DEF HookGoLive, counters
  <2>2. /\ Call("goLive", s) \in calls
        /\ calls' \subseteq calls \cup {Call("admitted", s)}
    BY <1>4 DEF HookGoLive, Taking
  <2>3. s \in Broadcasts
    BY <1>a, <2>2 DEF JobsAgree, Call
  <2>4. \A c \in calls' : c.stream \in Broadcasts
    BY <1>a, <2>2, <2>3 DEF JobsAgree, Call
  <2>5. CASE stream[s].status = "IDLE"
    <3>1. /\ stream' = [stream EXCEPT ![s].status = "LIVE"]
          /\ video' = [video EXCEPT ![s] = "LIVE"] /\ outbox' = outbox \cup {s}
      BY <1>4, <2>5 DEF HookGoLive
    <3>2. /\ stream'[s].status = "LIVE" /\ video'[s] = "LIVE"
          /\ \A t \in Streams : t # s => stream'[t] = stream[t] /\ video'[t] = video[t]
      BY <3>1 DEF Types, Rows
    <3>3. GoOn
      BY <2>1, <2>5, <3>2 DEF GoOn, Began
    <3>4. RunsAgree'
      BY <1>a, <2>1, <3>3, RunsStay
    <3>5. s = Open
      BY <1>0, <2>5
    <3>6. \A t \in Streams : (t < s => t # s) /\ (t > s => t # s)
      BY DEF Streams
    <3>7. OneOpen'
      BY <1>0, <3>2, <3>5, <3>6 DEF OneOpen
    <3>8. JobsAgree'
      BY <1>a, <2>1, <2>3, <2>4, <3>1, <3>2, <3>7 DEF JobsAgree, Began
    <3> QED
      BY <3>4, <3>8 DEF RowsAgree, JobsAgree, RunsAgree
  <2>6. CASE stream[s].status # "IDLE"
    <3>1. UNCHANGED rows
      BY <1>4, <2>6 DEF HookGoLive
    <3> QED
      BY <1>a, <2>1, <2>4, <3>1 DEF RowsAgree, JobsAgree, RunsAgree, OneOpen, Began, At, Of, rows
  <2> QED
    BY <2>5, <2>6
<1>5. ASSUME NEW s \in Streams, PublisherReady(s) PROVE RowsAgree'
  <2>1. calls' \subseteq calls /\ UNCHANGED <<rows, job, run, overlap>>
    BY <1>5 DEF PublisherReady, Taking
  <2> QED
    BY <1>a, <2>1 DEF RowsAgree, JobsAgree, RunsAgree, OneOpen, Began, At, Of, rows
<1>6. ASSUME NEW s \in Streams, RelayPublish(s) PROVE RowsAgree'
  <2>1. UNCHANGED <<stream, video, calls, run, overlap>> /\ s \in outbox /\ outbox' = outbox \ {s}
    BY <1>6 DEF RelayPublish, gate, counters
  <2>2. \A t \in Streams : t # s => job'[t] = job[t]
    BY <1>6 DEF RelayPublish, Types
  <2>3. \A t \in Streams : t \in outbox' \/ job'[t].state # "absent" => Began(t)
    BY <1>a, <2>1, <2>2 DEF JobsAgree
  <2> QED
    BY <1>a, <2>1, <2>3 DEF RowsAgree, JobsAgree, RunsAgree, OneOpen, Began, At, Of
<1> QED
  BY <1>1, <1>2, <1>3, <1>4, <1>5, <1>6

(* The rows over the steps of executions.                                  *)
LEMMA RowsGoOn ==
  ASSUME Types, RowsAgree, NEW r \in Runs, Progresses(r) \/ Crash(r) \/ Stall(r) \/ StartJob(r)
  PROVE  /\ GoOn /\ OneOpen'
         /\ \A s \in Streams :
              /\ stream'[s].status = "LIVE" => s \in Broadcasts
              /\ video'[s] \in {"READY", "FAILED"} => stream'[s].status = "ENDED"
         /\ UNCHANGED <<calls, outbox>>
         /\ EndStream(r) => \/ UNCHANGED stream /\ stream[Of(r)].status = "ENDED"
                            \/ stream'[Of(r)].status = "ENDED"
                            \/ Settle(r, "transient")
<1>0. /\ Open \in Streams /\ stream[Open].status \in {"IDLE", "LIVE"}
      /\ \A s \in Streams : /\ s < Open => stream[s].status = "ENDED"
                            /\ s > Open => stream[s].status = "NONE"
      /\ \A s \in Streams : stream[s].status \in {"IDLE", "LIVE"} => s = Open
  BY OpenIs DEF RowsAgree
<1>1. UNCHANGED <<calls, outbox>>
  BY ProgressLeaves, StartLeaves DEF Crash, Stall, rows, gate
<1>2. overlap => overlap'
  BY ProgressLeaves, StartLeaves DEF Counted, Crash, Stall, counters
<1>3. Of(r) \in Streams
  BY StoreTypes
<1>4. CASE UNCHANGED stream
  <2>1. GoOn /\ OneOpen'
    BY <1>2, <1>4 DEF GoOn, OneOpen, Began, RowsAgree
  <2>2. \A s \in Streams : stream'[s].status = "LIVE" => s \in Broadcasts
    BY <1>4 DEF RowsAgree
  <2>3. \A s \in Streams : video'[s] \in {"READY", "FAILED"} => stream'[s].status = "ENDED"
    <3>1. CASE UNCHANGED video
      BY <1>4, <3>1 DEF RowsAgree
    <3>2. CASE ~UNCHANGED video
      <4>1. FlipVideo(r)
        BY <3>2, ProgressLeaves, StartLeaves DEF Crash, Stall, rows
      <4>2. stream[Of(r)].status = "ENDED"
        BY <4>1 DEF FlipVideo, At, RowsAgree
      <4>3. \A s \in Streams : s # Of(r) => video'[s] = video[s]
        BY <4>1 DEF FlipVideo, Types
      <4> QED
        BY <1>4, <4>2, <4>3 DEF RowsAgree
    <3> QED
      BY <3>1, <3>2
  <2>4. EndStream(r) => stream[Of(r)].status = "ENDED" \/ Settle(r, "transient")
    <3> SUFFICES ASSUME EndStream(r), ~Settle(r, "transient") PROVE stream[Of(r)].status = "ENDED"
      OBVIOUS
    <3>1. stream[Of(r)].status \in {"LIVE", "ENDED"}
      BY DEF RowsAgree, EndStream, At, Began
    <3>2. stream[Of(r)].status = "LIVE" =>
            stream' = [stream EXCEPT ![Of(r)].status = "ENDED", ![Of(r) + 1].status = "IDLE"]
      BY DEF EndStream
    <3>3. stream[Of(r)].status # "LIVE"
      <4> SUFFICES ASSUME stream[Of(r)].status = "LIVE" PROVE FALSE
        OBVIOUS
      <4>1. Of(r) # Of(r) + 1
        BY <1>3 DEF Streams
      <4>2. stream'[Of(r)].status = "ENDED"
        BY <1>3, <3>2, <4>1 DEF Types, Rows
      <4> QED
        BY <1>4, <4>2
    <3> QED
      BY <3>1, <3>3
  <2> QED
    BY <1>1, <1>4, <2>1, <2>2, <2>3, <2>4
<1>5. CASE ~UNCHANGED stream
  <2> DEFINE s == Of(r)
  <2>1. EndStream(r)
    BY <1>5, ProgressLeaves, StartLeaves DEF Crash, Stall, rows
  <2>2. /\ stream[s].status = "LIVE"
        /\ stream' = [stream EXCEPT ![s].status = "ENDED", ![s + 1].status = "IDLE"]
    BY <1>5, <2>1 DEF EndStream
  <2>3. s \in Broadcasts /\ s = Open
    BY <1>0, <1>3, <2>2 DEF RowsAgree
  <2>4. s + 1 \in Streams /\ s # s + 1 /\ s < s + 1 /\ s + 1 > s
    BY <2>3, BroadcastAssumption DEF Streams, Broadcasts
  <2>a. s \in Streams
    BY <1>3
  <2> HIDE DEF s
  <2>5. /\ stream'[s].status = "ENDED" /\ stream'[s + 1].status = "IDLE"
        /\ \A t \in Streams : t # s /\ t # s + 1 => stream'[t] = stream[t]
    BY <2>a, <2>2, <2>4 DEF Types, Rows
  <2>6. stream[s + 1].status = "NONE"
    BY <1>0, <2>3, <2>4
  <2>7. GoOn
    BY <1>2, <2>5, <2>6 DEF GoOn, Began
  <2>8. \A t \in Streams : /\ t < s + 1 => t < s \/ t = s
                           /\ t > s + 1 => t > s /\ t # s /\ t # s + 1
                           /\ t < s => t # s /\ t # s + 1
    BY <2>a DEF Streams
  <2>9. OneOpen'
    <3>1. ASSUME NEW t \in Streams
          PROVE  /\ t < s + 1 => stream'[t].status = "ENDED"
                 /\ t > s + 1 => stream'[t].status = "NONE"
      BY <1>0, <2>3, <2>5, <2>8
    <3> QED
      BY <2>4, <2>5, <3>1 DEF OneOpen
  <2>10. UNCHANGED video
    BY <2>1 DEF EndStream
  <2>11. ASSUME NEW t \in Streams
         PROVE  /\ stream'[t].status = "LIVE" => t \in Broadcasts
                /\ video'[t] \in {"READY", "FAILED"} => stream'[t].status = "ENDED"
    BY <2>5, <2>6, <2>7, <2>10 DEF RowsAgree, GoOn
  <2> QED
    BY <1>1, <2>5, <2>7, <2>9, <2>11 DEF s
<1> QED
  BY <1>4, <1>5
(* No step but the relay's adds a job.                                     *)
LEMMA JobsStay ==
  ASSUME Types, OneHolder, NEW r \in Runs, Progresses(r) \/ Crash(r) \/ Stall(r) \/ StartJob(r)
  PROVE  \A s \in Streams : job'[s].state # "absent" => job[s].state # "absent"
<1>1. CASE UNCHANGED job
  BY <1>1
<1>2. CASE Ends(r)
  <2>1. CASE UNCHANGED job
    BY <2>1
  <2>2. CASE ~UNCHANGED job
    <3>1. /\ OwnedBy(job[Of(r)], r)
          /\ \E j \in StageJobs(Runs) : job' = [job EXCEPT ![Of(r)] = j]
      BY <1>2, <2>2 DEF Ends, JobSettles
    <3> QED
      BY <3>1, OwnedJob DEF Types
  <2> QED
    BY <2>1, <2>2
<1>3. CASE Stall(r)
  <2>1. OwnedBy(job[Of(r)], r) /\ job' = [job EXCEPT ![Of(r)] = Stalled(job[Of(r)])]
    BY <1>3 DEF Stall, Lost
  <2> QED
    BY <2>1, OwnedJob DEF Types
<1>4. CASE StartJob(r)
  <2>1. PICK s \in Streams, x \in Executions : Starts(r, s, x) /\ run' = [run EXCEPT ![r] = x]
    BY <1>4, StartLeaves
  <2> QED
    BY <2>1 DEF Starts, Types
<1>5. CASE Crash(r)
  BY <1>2, <1>5, EndingGoes
<1>6. CASE Progresses(r)
  <2>1. CASE Goes(r)
    BY <1>1, <1>2, <2>1 DEF Goes, ToPlace
  <2> QED
    BY <1>1, <1>6, <2>1, QuietSteps, UploadLeaves DEF Progresses, EncoderStops, AcceptInit, AcceptPart
<1> QED
  BY <1>3, <1>4, <1>5, <1>6

(* And over every step of an execution.                                    *)
LEMMA StepRows ==
  ASSUME Types, RowsAgree, OneHolder, HolderKnows, MediaStands, EpochsRise,
         NEW r \in Runs, Progresses(r) \/ Crash(r) \/ Stall(r) \/ StartJob(r)
  PROVE  RowsAgree'
<1>1. JobsAgree /\ RunsAgree /\ GoOn /\ Of(r) \in Streams
  BY RowsAre, RowsGoOn, StoreTypes
<1>2. JobsAgree'
  <2>1. \A s \in Streams : s \in outbox' \/ job'[s].state # "absent" => Began(s)
    BY <1>1, JobsStay, RowsGoOn DEF JobsAgree
  <2>2. \A s \in Streams : s \in outbox' \/ job'[s].state # "absent" => stream'[s].status \in {"LIVE", "ENDED"}
    BY <1>1, <2>1 DEF GoOn
  <2>3. \A c \in calls' : c.stream \in Broadcasts
    BY <1>1, RowsGoOn DEF JobsAgree
  <2> QED
    BY <2>2, <2>3, RowsGoOn DEF JobsAgree, Began
<1> SUFFICES RunsAgree'
  BY <1>2, RowsAre DEF RowsAgree, JobsAgree, RunsAgree
<1> DEFINE Kept(x) == run' = [run EXCEPT ![r] = x] /\ RowOf(x)
<1>3. \A x : Kept(x) => RunsAgree'
  BY <1>1, RunsKept
<1>4. ~At(r, "idle") => stream'[Of(r)].status \in {"LIVE", "ENDED"}
  BY <1>1 DEF RunsAgree, GoOn
<1>5. ~At(r, "idle") => \A x : x.stream = Of(r) /\ x.pc \notin {"archive", "closing", "flip", "next", "kick"} => RowOf(x)
  BY <1>4 DEF RowOf
<1>6. ASSUME ~At(r, "idle"), NEW x, x.stream = Of(r), x.pc \in {"flip", "next", "kick"},
             stream'[Of(r)].status = "ENDED"
      PROVE  RowOf(x)
  BY <1>6 DEF RowOf
<1>7. ASSUME ~At(r, "idle"), NEW x, x.stream = Of(r), x.pc \in {"archive", "closing"},
             stream'[Of(r)].status = "ENDED" \/ overlap' \/ x.keyed
      PROVE  RowOf(x)
  BY <1>4, <1>7 DEF RowOf
<1>8. RowOf(NoRun)
  BY DEF RowOf, NoRun
<1>9. CASE Ends(r)
  BY <1>3, <1>8, <1>9 DEF Ends
<1>10. ASSUME NEW place \in Places, ToPlace(r, place), ~At(r, "idle"),
              place \in {"flip", "next", "kick"} => stream'[Of(r)].status = "ENDED",
              place = "archive" => stream'[Of(r)].status = "ENDED" \/ overlap' \/ run[r].keyed
       PROVE  RunsAgree'
  <2>1. PICK x \in Executions :
          /\ run' = [run EXCEPT ![r] = x] /\ x.pc = place /\ x.stream = Of(r)
          /\ run[r].keyed => x.keyed
    BY <1>10 DEF ToPlace
  <2>2. RowOf(x)
    BY <1>5, <1>6, <1>7, <1>10, <2>1 DEF Places
  <2> QED
    BY <1>3, <2>1, <2>2
<1>11. stream[Of(r)].status = "ENDED" => stream'[Of(r)].status = "ENDED"
  BY <1>1 DEF GoOn
<1>12. CASE LoadStream(r)
  <2>1. ~At(r, "idle")
    BY <1>12 DEF LoadStream, At
  <2> QED
    BY <1>9, <1>10, <1>11, <1>12, <2>1, LoadGoes DEF Places
<1>13. CASE WaitForPublisher(r)
  <2>1. ~At(r, "idle")
    BY <1>13 DEF WaitForPublisher, At
  <2> QED
    BY <1>9, <1>10, <1>13, <2>1, WaitGoes DEF Places
<1>14. CASE OpenSession(r)
  <2>1. ~At(r, "idle")
    BY <1>14 DEF OpenSession, At
  <2>2. ASSUME NEW x, Opened(r, x), run' = [run EXCEPT ![r] = x] PROVE RunsAgree'
    BY <1>3, <1>5, <2>1, <2>2 DEF Opened
  <2> QED
    BY <1>9, <1>10, <1>14, <2>1, <2>2, OpenSessionLeaves DEF Places
<1>15. CASE EncoderStops(r) \/ AcceptInit(r) \/ AcceptPart(r)
  <2>1. ~At(r, "idle")
    BY <1>15 DEF EncoderStops, AcceptInit, AcceptPart, At
  <2>2. PICK x : Carried(r, x) /\ run' = [run EXCEPT ![r] = x]
    BY <1>15, InitCarries, PartCarries, StopCarries
  <2> QED
    BY <1>3, <1>5, <2>1, <2>2 DEF Carried
<1>16. CASE Drained(r)
  <2>1. ~At(r, "idle")
    BY <1>16 DEF Drained, At
  <2> QED
    BY <1>9, <1>10, <1>16, <2>1, DrainedGoes DEF Places
<1>17. CASE CheckPublisher(r) \/ LastKick(r)
  <2>1. ~At(r, "idle") /\ overlap' = overlap
    BY <1>17 DEF CheckPublisher, LastKick, At
  <2>2. overlap \/ run[r].keyed
    BY <1>17 DEF CheckPublisher, LastKick, At, HolderKnows
  <2> QED
    BY <1>9, <1>10, <1>17, <2>1, <2>2, CheckGoes, EndingGoes DEF Places
<1>18. CASE LoadArchive(r)
  <2>1. ~At(r, "idle") /\ overlap' = overlap
    BY <1>18 DEF LoadArchive, At
  <2>2. stream[Of(r)].status = "ENDED" \/ overlap \/ run[r].keyed
    BY <1>1, <1>18 DEF LoadArchive, At, RunsAgree
  <2>3. ASSUME NEW x, Loaded(r, x), run' = [run EXCEPT ![r] = x] PROVE RunsAgree'
    BY <1>3, <1>7, <1>11, <2>1, <2>2, <2>3 DEF Loaded
  <2> QED
    BY <1>9, <1>18, <2>3, LoadArchiveLeaves
<1>19. CASE EndStream(r)
  <2>1. ~At(r, "idle")
    BY <1>19 DEF EndStream, At
  <2>2. \/ Ends(r)
        \/ ToPlace(r, "flip") /\ stream'[Of(r)].status = "ENDED"
    BY <1>11, <1>19, RowsGoOn, EndingGoes, SettleEnds DEF Progresses, Progress
  <2> QED
    BY <1>9, <1>10, <2>1, <2>2 DEF Places
<1>20. CASE FlipVideo(r) \/ LookAtNext(r)
  <2>1. ~At(r, "idle") /\ stream[Of(r)].status = "ENDED"
    BY <1>1, <1>20 DEF FlipVideo, LookAtNext, At, RunsAgree
  <2> QED
    BY <1>9, <1>10, <1>11, <1>20, <2>1, EndingGoes DEF Places
<1>21. CASE KickOrphan(r) \/ Crash(r)
  BY <1>9, <1>21, EndingGoes
<1>22. CASE Upload(r)
  <2>1. PICK x : Uploads(r, x) /\ run' = [run EXCEPT ![r] = x]
    BY <1>22, UploadLeaves
  <2>2. ~At(r, "idle") /\ overlap' = overlap
    BY <1>22, UploadLeaves DEF OneHolder, At, Upload
  <2>3. RowOf(x)
    BY <1>1, <1>4, <1>11, <2>1, <2>2 DEF RowOf, Uploads, RunsAgree, At
  <2> QED
    BY <1>3, <2>1, <2>3
<1>23. CASE StartJob(r)
  <2>1. PICK s \in Streams, x \in Executions : Starts(r, s, x) /\ run' = [run EXCEPT ![r] = x]
    BY <1>23, StartLeaves
  <2>2. stream'[s].status \in {"LIVE", "ENDED"}
    BY <1>1, <2>1 DEF Starts, JobsAgree, GoOn
  <2>3. RowOf(x)
    BY <2>1, <2>2 DEF RowOf, Starts
  <2> QED
    BY <1>3, <2>1, <2>3
<1>24. CASE Stall(r)
  BY <1>1, <1>24, RunsStay DEF Stall
<1> QED
  BY <1>12, <1>13, <1>14, <1>15, <1>16, <1>17, <1>18, <1>19, <1>20, <1>21, <1>22, <1>23, <1>24
     DEF Progresses, Progress
-----------------------------------------------------------------------------
(* The owner of a job is its one execution, until a lock is lost.          *)
Owners == ~overlap => \A r \in Runs : ~At(r, "idle") => OwnedBy(job[Of(r)], r)

HeldBy(x) ==
  /\ x.queue # <<>> => x.pc \in {"connect", "encode", "drain", "closing"}
  /\ x.pc \in {"idle", "load", "wait", "open", "connect"} => x.parts = 0

(* OneHolder in its three parts.                                           *)
LEMMA HolderIs == OneHolder <=> (overlap => faults > 0) /\ Owners /\ \A r \in Runs : HeldBy(run[r])
  BY DEF OneHolder, Owners, HeldBy

(* An execution that ends leaves the others their jobs.                    *)
LEMMA EndsOwners ==
  ASSUME Types, Owners, overlap => overlap', NEW r \in Runs, Ends(r)
  PROVE  Owners'
<1>1. /\ run'[r] = NoRun /\ \A u \in Runs : u # r => run'[u] = run[u]
  BY DEF Types, Ends
<1>2. NoRun.pc = "idle"
  BY DEF NoRun
<1>3. ASSUME NEW u \in Runs, run'[u].pc # "idle", ~overlap'
      PROVE  OwnedBy(job'[run'[u].stream], u)
  <2>1. u # r /\ run'[u] = run[u] /\ run[u].stream \in Streams
    BY <1>1, <1>2, <1>3 DEF Types, Executions
  <2>2. OwnedBy(job[run[u].stream], u)
    BY <1>3, <2>1 DEF Owners, At, Of
  <2>3. CASE UNCHANGED job
    BY <2>1, <2>2, <2>3
  <2>4. CASE ~UNCHANGED job
    <3>1. OwnedBy(job[Of(r)], r) /\ \E j \in StageJobs(Runs) : job' = [job EXCEPT ![Of(r)] = j]
      BY <2>4 DEF Ends, JobSettles
    <3>2. run[u].stream # Of(r)
      BY <2>1, <2>2, <3>1 DEF OwnedBy
    <3>3. job'[run[u].stream] = job[run[u].stream]
      BY <2>1, <3>1, <3>2 DEF Types
    <3> QED
      BY <2>1, <2>2, <3>3
  <2> QED
    BY <2>3, <2>4
<1> QED
  BY <1>3 DEF Owners, At, Of

(* An execution that goes on keeps its job.                                *)
LEMMA SameOwners ==
  ASSUME Types, Owners, overlap => overlap', NEW r \in Runs, UNCHANGED job, ~At(r, "idle"),
         NEW x, x.stream = Of(r), run' = [run EXCEPT ![r] = x]
  PROVE  Owners'
<1>1. /\ run'[r] = x /\ \A u \in Runs : u # r => run'[u] = run[u]
  BY DEF Types
<1>2. ASSUME NEW u \in Runs, run'[u].pc # "idle", ~overlap'
      PROVE  OwnedBy(job'[run'[u].stream], u)
  BY <1>1, <1>2 DEF Owners, At, Of
<1> QED
  BY <1>2 DEF Owners, At, Of

(* A worker takes a job nobody owns.                                       *)
LEMMA StartOwners ==
  ASSUME Types, Owners, NEW r \in Runs, StartJob(r)
  PROVE  Owners'
<1>1. PICK s \in Streams, x \in Executions : Starts(r, s, x) /\ run' = [run EXCEPT ![r] = x]
  BY StartLeaves
<1>2. /\ run'[r] = x /\ \A u \in Runs : u # r => run'[u] = run[u]
      /\ job'[s] = Taken(job[s], r) /\ \A t \in Streams : t # s => job'[t] = job[t]
      /\ job[s].state = "waiting" /\ x.stream = s /\ overlap' = overlap
  BY <1>1, StartLeaves DEF Types, Starts, counters
<1>3. OwnedBy(Taken(job[s], r), r)
  BY DEF Types, StageJobs, OwnedBy, Taken
<1>4. ASSUME NEW u \in Runs, run'[u].pc # "idle", ~overlap'
      PROVE  OwnedBy(job'[run'[u].stream], u)
  <2>1. CASE u = r
    BY <1>2, <1>3, <2>1
  <2>2. CASE u # r
    <3>1. run'[u] = run[u] /\ run[u].stream \in Streams
      BY <1>2, <2>2 DEF Types, Executions
    <3>2. OwnedBy(job[run[u].stream], u)
      BY <1>2, <1>4, <3>1 DEF Owners, At, Of
    <3>3. run[u].stream # s
      BY <1>2, <3>2 DEF OwnedBy
    <3> QED
      BY <1>2, <3>1, <3>2, <3>3
  <2> QED
    BY <2>1, <2>2
<1> QED
  BY <1>4 DEF Owners, At, Of

(* One record changes, the others have their queue where they had it.      *)
LEMMA HeldKept ==
  ASSUME Types, OneHolder, NEW r \in Runs, NEW x, run' = [run EXCEPT ![r] = x], HeldBy(x)
  PROVE  \A u \in Runs : HeldBy(run'[u])
<1>1. run'[r] = x /\ \A u \in Runs : u # r => run'[u] = run[u]
  BY DEF Types
<1> QED
  BY <1>1, HolderIs

(* Gateway, creator and relay take no job from its holder.                 *)
LEMMA GateHolder ==
  ASSUME Types, OneHolder,
         \/ HookAsk \/ PublisherLeaves \/ StopRequest
         \/ \E s \in Streams : HookGoLive(s) \/ PublisherReady(s) \/ RelayPublish(s)
  PROVE  OneHolder'
<1>1. UNCHANGED <<run, overlap, faults>>
  BY DEF HookAsk, PublisherLeaves, StopRequest, HookGoLive, PublisherReady, RelayPublish, counters
<1>2. \A t \in Streams : job[t].state = "active" => job'[t] = job[t]
  <2>1. CASE UNCHANGED job
    BY <2>1
  <2>2. CASE ~UNCHANGED job
    <3>1. PICK s \in Streams : RelayPublish(s)
      BY <2>2 DEF HookAsk, PublisherLeaves, StopRequest, HookGoLive, PublisherReady
    <3>2. job' = [job EXCEPT ![s] = Added(job[s], "waiting")]
      BY <3>1 DEF RelayPublish
    <3>3. job[s].state = "active" => Added(job[s], "waiting") = job[s]
      BY DEF Added
    <3> QED
      BY <3>2, <3>3 DEF Types
  <2> QED
    BY <2>1, <2>2
<1>3. \A u \in Runs : run[u].stream \in Streams
  BY DEF Types, Executions
<1>4. ASSUME Owners PROVE Owners'
  BY <1>1, <1>2, <1>3, <1>4 DEF Owners, OwnedBy, At, Of
<1>5. (\A u \in Runs : HeldBy(run[u])) => \A u \in Runs : HeldBy(run'[u])
  BY <1>1
<1>6. OneHolder' <=> (overlap' => faults' > 0) /\ Owners' /\ \A u \in Runs : HeldBy(run'[u])
  BY DEF OneHolder, Owners, HeldBy, At
<1> QED
  BY <1>1, <1>4, <1>5, <1>6, HolderIs

(* Nor does a step of an execution.                                        *)
LEMMA StepHolder ==
  ASSUME Types, OneHolder, MediaStands, EpochsRise, RowsAgree,
         NEW r \in Runs, Progresses(r) \/ Crash(r) \/ Stall(r) \/ StartJob(r)
  PROVE  OneHolder'
<1>1. OneHolder' <=> (overlap' => faults' > 0) /\ Owners' /\ \A u \in Runs : HeldBy(run'[u])
  BY DEF OneHolder, Owners, HeldBy, At
<1>2. (overlap => faults > 0) /\ Owners /\ \A u \in Runs : HeldBy(run[u])
  BY HolderIs
<1>3. overlap' => faults' > 0
  <2>1. faults \in Nat
    BY DEF Types
  <2>2. CASE Progresses(r)
    BY <1>2, <2>2, ProgressLeaves DEF Counted, counters
  <2>3. CASE Crash(r) \/ Stall(r)
    <3>1. faults' = faults + 1
      BY <2>3 DEF Crash, Stall
    <3> QED
      BY <2>1, <3>1
  <2>4. CASE StartJob(r)
    BY <1>2, <2>4, StartLeaves DEF counters
  <2> QED
    BY <2>2, <2>3, <2>4
<1>4. overlap => overlap'
  BY RowsGoOn DEF GoOn
<1> SUFFICES Owners' /\ \A u \in Runs : HeldBy(run'[u])
  BY <1>1, <1>3
<1>5. HeldBy(NoRun)
  BY DEF HeldBy, NoRun
<1>6. CASE Ends(r)
  <2>1. run' = [run EXCEPT ![r] = NoRun]
    BY <1>6 DEF Ends
  <2> QED
    BY <1>2, <1>4, <1>5, <1>6, <2>1, EndsOwners, HeldKept
<1>7. ASSUME NEW place \in Places, ToPlace(r, place), ~At(r, "idle"),
             place \in {"wait", "open"} => run[r].parts = 0
      PROVE  Owners' /\ \A u \in Runs : HeldBy(run'[u])
  <2>1. UNCHANGED job
    BY <1>7 DEF ToPlace
  <2>2. PICK x \in Executions :
          /\ run' = [run EXCEPT ![r] = x] /\ x.pc = place /\ x.stream = Of(r)
          /\ x.parts = run[r].parts /\ x.queue = <<>>
    BY <1>7 DEF ToPlace
  <2>3. HeldBy(x)
    BY <1>7, <2>2 DEF HeldBy, Places
  <2> QED
    BY <1>2, <1>4, <1>7, <2>1, <2>2, <2>3, SameOwners, HeldKept
<1>8. ASSUME ~At(r, "idle"), UNCHANGED job, NEW x, x.stream = Of(r), HeldBy(x), run' = [run EXCEPT ![r] = x]
      PROVE  Owners' /\ \A u \in Runs : HeldBy(run'[u])
  BY <1>2, <1>4, <1>8, SameOwners, HeldKept
<1>9. run[r].pc \in {"load", "wait"} => run[r].parts = 0
  BY <1>2 DEF HeldBy
<1>10. CASE LoadStream(r)
  <2>1. ~At(r, "idle") /\ run[r].parts = 0
    BY <1>9, <1>10 DEF LoadStream, At
  <2> QED
    BY <1>6, <1>7, <1>10, <2>1, LoadGoes DEF Places
<1>11. CASE WaitForPublisher(r)
  <2>1. ~At(r, "idle") /\ run[r].parts = 0
    BY <1>9, <1>11 DEF WaitForPublisher, At
  <2> QED
    BY <1>6, <1>7, <1>11, <2>1, WaitGoes DEF Places
<1>12. CASE OpenSession(r)
  <2>1. ~At(r, "idle")
    BY <1>12 DEF OpenSession, At
  <2>2. ASSUME UNCHANGED job, NEW x, Opened(r, x), run' = [run EXCEPT ![r] = x]
        PROVE  Owners' /\ \A u \in Runs : HeldBy(run'[u])
    BY <1>8, <2>1, <2>2 DEF Opened, HeldBy
  <2> QED
    BY <1>6, <1>7, <1>12, <2>1, <2>2, OpenSessionLeaves DEF Places
<1>13. CASE EncoderStops(r) \/ AcceptInit(r) \/ AcceptPart(r)
  <2>1. ~At(r, "idle") /\ UNCHANGED job
    BY <1>13 DEF EncoderStops, AcceptInit, AcceptPart, At
  <2>2. PICK x : Carried(r, x) /\ run' = [run EXCEPT ![r] = x]
    BY <1>13, InitCarries, PartCarries, StopCarries
  <2>3. HeldBy(x) /\ x.stream = Of(r)
    BY <2>2 DEF Carried, HeldBy
  <2> QED
    BY <1>8, <2>1, <2>2, <2>3
<1>14. CASE Drained(r)
  <2>1. ~At(r, "idle")
    BY <1>14 DEF Drained, At
  <2> QED
    BY <1>6, <1>7, <1>14, <2>1, DrainedGoes DEF Places
<1>15. CASE CheckPublisher(r)
  <2>1. ~At(r, "idle")
    BY <1>15 DEF CheckPublisher, At
  <2> QED
    BY <1>6, <1>7, <1>15, <2>1, CheckGoes DEF Places
<1>16. CASE LoadArchive(r)
  <2>1. ~At(r, "idle")
    BY <1>16 DEF LoadArchive, At
  <2>2. ASSUME UNCHANGED job, NEW x, Loaded(r, x), run' = [run EXCEPT ![r] = x]
        PROVE  Owners' /\ \A u \in Runs : HeldBy(run'[u])
    BY <1>8, <2>1, <2>2 DEF Loaded, HeldBy
  <2> QED
    BY <1>6, <1>16, <2>2, LoadArchiveLeaves
<1>17. CASE LastKick(r) \/ EndStream(r) \/ FlipVideo(r) \/ LookAtNext(r)
  <2>1. ~At(r, "idle")
    BY <1>17 DEF LastKick, EndStream, FlipVideo, LookAtNext, At
  <2> QED
    BY <1>6, <1>7, <1>17, <2>1, EndingGoes DEF Places
<1>18. CASE KickOrphan(r) \/ Crash(r)
  BY <1>6, <1>18, EndingGoes
<1>19. CASE Upload(r)
  <2>1. PICK x : Uploads(r, x) /\ run' = [run EXCEPT ![r] = x]
    BY <1>19, UploadLeaves
  <2>2. ~At(r, "idle") /\ UNCHANGED job /\ run[r].queue # <<>>
    BY <1>2, <1>19, UploadLeaves DEF HeldBy, At
  <2>3. HeldBy(x) /\ x.stream = Of(r)
    BY <1>2, <2>1, <2>2 DEF HeldBy, Uploads
  <2> QED
    BY <1>8, <2>1, <2>2, <2>3
<1>20. CASE StartJob(r)
  <2>1. PICK s \in Streams, x \in Executions : Starts(r, s, x) /\ run' = [run EXCEPT ![r] = x]
    BY <1>20, StartLeaves
  <2>2. HeldBy(x)
    BY <2>1 DEF HeldBy, Starts
  <2> QED
    BY <1>2, <1>20, <2>1, <2>2, StartOwners, HeldKept
<1>21. CASE Stall(r)
  BY <1>2, <1>21 DEF Stall, Owners
<1> QED
  BY <1>10, <1>11, <1>12, <1>13, <1>14, <1>15, <1>16, <1>17, <1>18, <1>19, <1>20, <1>21
     DEF Progresses, Progress
-----------------------------------------------------------------------------
(* What the holder of a broadcast knows of its archive.                    *)
KnowsOf(st, row, x) ==
  /\ InOrder(st, x.queue)
  /\ InSession(x) /\ ~x.broken => Sequel(st, x.queue, x.segs)
  /\ x.pc = "closing" => Finalizes(st, x)
  /\ x.pc = "flip" => x.segs = st.state.segs
  /\ x.pc \in {"wait", "open", "connect", "encode", "drain", "check", "lastKick"} =>
       row.status = "LIVE" /\ x.keyed

StoresKnow ==
  \A s \in Streams :
    /\ Extends(store[s].state.segs, store[s].archive.segs)
    /\ stream[s].status = "ENDED" => Sealed(store[s])
    /\ video[s] = "READY" => store[s].state.segs # <<>>

RunsKnow == \A r \in Runs : KnowsOf(store[Of(r)], stream[Of(r)], run[r])

(* HolderKnows in its two parts.                                           *)
LEMMA KnowledgeIs == HolderKnows <=> (~overlap => StoresKnow /\ RunsKnow)
  BY DEF HolderKnows, StoresKnow, RunsKnow, KnowsOf, At

(* What a record with an empty queue has to know.                          *)
LEMMA QuietKnows ==
  ASSUME NEW st, NEW row, NEW x, x.queue = <<>>, x.pc \notin {"connect", "encode", "closing"},
         x.pc = "flip" => x.segs = st.state.segs,
         x.pc \in {"wait", "open", "drain", "check", "lastKick"} => row.status = "LIVE" /\ x.keyed
  PROVE  KnowsOf(st, row, x)
  BY EmptyQueue DEF KnowsOf, InSession

(* A record that changes while the objects stay.                           *)
LEMMA KnowsKept ==
  ASSUME Types, RunsKnow, UNCHANGED store,
         NEW r \in Runs, NEW x, run' = [run EXCEPT ![r] = x],
         \A u \in Runs \ {r} : ~At(u, "idle") /\ stream[Of(u)].status = "LIVE" => stream'[Of(u)].status = "LIVE",
         KnowsOf(store[x.stream], stream'[x.stream], x)
  PROVE  RunsKnow'
<1>1. run'[r] = x /\ \A u \in Runs : u # r => run'[u] = run[u]
  BY DEF Types
<1>2. ASSUME NEW u \in Runs PROVE KnowsOf(store[run'[u].stream], stream'[run'[u].stream], run'[u])
  <2>1. CASE u = r
    BY <1>1, <2>1
  <2>2. CASE u # r
    <3>1. run'[u] = run[u]
      BY <1>1, <2>2
    <3>2. KnowsOf(store[run[u].stream], stream[run[u].stream], run[u])
      BY DEF RunsKnow, Of
    <3>3. run[u].pc # "idle" /\ stream[run[u].stream].status = "LIVE" => stream'[run[u].stream].status = "LIVE"
      BY <2>2 DEF At, Of
    <3>4. KnowsOf(store[run[u].stream], stream'[run[u].stream], run[u])
      BY <3>2, <3>3 DEF KnowsOf
    <3> QED
      BY <3>1, <3>4
  <2> QED
    BY <2>1, <2>2
<1> QED
  BY <1>2 DEF RunsKnow, Of

(* A finalize that begins knows what it will leave.                        *)
LEMMA LoadedKnows ==
  ASSUME Types, MediaStands, EpochsRise, NEW r \in Runs, NEW x, Loaded(r, x), NEW row
  PROVE  KnowsOf(store[x.stream], row, x)
<1> DEFINE st == store[Of(r)]
           q == FinalWrites(st)
<1>1. InOrder(store[x.stream], x.queue)
  BY LoadedRecord
<1>2. /\ x.pc = "closing" /\ x.stream = Of(r) /\ ~x.broken /\ x.segs = st.state.segs
      /\ x.queue = IF st.state.segs = <<>> THEN <<>> ELSE q
  BY DEF Loaded
<1>3. st \in Stores
  BY StoreTypes
<1> HIDE DEF st
<1>4. /\ q \in Seq(Writes) /\ Len(q) = 3
      /\ q[1] = Put("state", st.state) /\ q[2] = Put("archive", Whole(st))
      /\ q[3] = Put("master", "archive")
  BY <1>3, FinalWritesFacts
<1> HIDE DEF q
<1>5. Finalizes(st, x)
  <2>1. CASE st.state.segs = <<>>
    <3>1. x.queue = <<>> /\ Len(x.queue) = 0
      BY <1>2, <2>1
    <3> QED
      BY <1>2, <2>1, <3>1 DEF Finalizes
  <2>2. CASE st.state.segs # <<>>
    <3> DEFINE z == x.queue
    <3>1. z = q
      BY <1>2, <2>2
    <3>2. Len(z) = 3 /\ z[Len(z)] = Put("master", "archive")
      BY <1>4, <3>1
    <3>a. Len(z) - 1 = 2
      BY <3>2
    <3>b. z[2] = Put("archive", Whole(st)) /\ z[1] = Put("state", st.state)
      BY <1>4, <3>1
    <3>3. z[Len(z) - 1] = Put("archive", Whole(st)) /\ z[1] = Put("state", st.state)
      BY <3>a, <3>b
    <3>4. Len(z) \in 1..3 /\ ~(Len(z) < 2) /\ ~(Len(z) < 1)
      BY <3>2
    <3> QED
      BY <1>2, <2>2, <3>2, <3>3, <3>4 DEF Finalizes
  <2> QED
    BY <2>1, <2>2
<1> QED
  BY <1>1, <1>2, <1>5 DEF KnowsOf, InSession, st

(* No other execution is at work on the stream that one holds.             *)
LEMMA SoleHolder ==
  ASSUME Types, OneHolder, ~overlap, NEW r \in Runs, NEW u \in Runs, u # r,
         ~At(r, "idle"), ~At(u, "idle")
  PROVE  Of(u) # Of(r)
  BY DEF OneHolder, OwnedBy

(* Gateway, creator and relay leave the holder its knowledge.              *)
LEMMA GateKnows ==
  ASSUME Types, RowsAgree, HolderKnows,
         \/ HookAsk \/ PublisherLeaves \/ StopRequest
         \/ \E s \in Streams : HookGoLive(s) \/ PublisherReady(s) \/ RelayPublish(s)
  PROVE  HolderKnows'
<1>1. UNCHANGED <<run, store, overlap>>
  BY DEF HookAsk, PublisherLeaves, StopRequest, HookGoLive, PublisherReady, RelayPublish, counters
<1>2. /\ Open \in Streams
      /\ \A s \in Streams : stream[s].status \in {"IDLE", "LIVE"} => s = Open
  BY OpenIs DEF RowsAgree
<1>3. \A s \in Streams : /\ stream[s].status = "LIVE" => stream'[s].status = "LIVE"
                         /\ stream'[s].status = "ENDED" => stream[s].status = "ENDED"
                         /\ video'[s] = "READY" => video[s] = "READY"
  <2>1. CASE UNCHANGED <<stream, video>>
    BY <2>1
  <2>2. CASE StopRequest
    BY <1>2, <2>2 DEF StopRequest, Types, Rows
  <2>3. ASSUME NEW s \in Streams, HookGoLive(s), stream[s].status = "IDLE"
        PROVE  \A t \in Streams : /\ stream[t].status = "LIVE" => stream'[t].status = "LIVE"
                                  /\ stream'[t].status = "ENDED" => stream[t].status = "ENDED"
                                  /\ video'[t] = "READY" => video[t] = "READY"
    <3>1. stream' = [stream EXCEPT ![s].status = "LIVE"] /\ video' = [video EXCEPT ![s] = "LIVE"]
      BY <2>3 DEF HookGoLive
    <3> QED
      BY <2>3, <3>1 DEF Types, Rows
  <2>4. ASSUME NEW s \in Streams, HookGoLive(s), stream[s].status # "IDLE"
        PROVE  UNCHANGED <<stream, video>>
    BY <2>4 DEF HookGoLive, rows
  <2> QED
    BY <2>1, <2>2, <2>3, <2>4 DEF HookAsk, PublisherLeaves, PublisherReady, RelayPublish, rows
<1>4. \A u \in Runs : run[u].stream \in Streams
  BY DEF Types, Executions
<1>5. RunsKnow => RunsKnow'
  BY <1>1, <1>3, <1>4 DEF RunsKnow, KnowsOf, Of
<1>6. StoresKnow => StoresKnow'
  BY <1>1, <1>3 DEF StoresKnow
<1>7. HolderKnows' <=> (~overlap' => StoresKnow' /\ RunsKnow')
  BY DEF HolderKnows, StoresKnow, RunsKnow, KnowsOf, At
<1> QED
  BY <1>1, <1>5, <1>6, <1>7, KnowledgeIs
(* One more object of the broadcast: nothing recorded is lost.             *)
LEMMA UploadKnows ==
  ASSUME Types, RowsAgree, OneHolder, HolderKnows, ~overlap, NEW r \in Runs, Upload(r)
  PROVE  /\ StoresKnow' /\ RunsKnow'
         /\ \A s \in Streams :
              /\ Extends(store'[s].state.segs, store[s].state.segs)
              /\ Extends(store'[s].archive.segs, store[s].archive.segs)
              /\ store[s].archive.ended /\ stream[s].status = "ENDED" => store'[s].archive.ended
<1>1. PICK x : Uploads(r, x) /\ run' = [run EXCEPT ![r] = x]
  BY UploadLeaves
<1> DEFINE st == store[Of(r)]
           q == run[r].queue
           st2 == Stored(st, q[1])
<1>2. /\ x \in Executions /\ run[r] \in Executions /\ st \in Stores /\ Of(r) \in Streams
      /\ q \in Seq(Writes) /\ q # <<>> /\ x.stream = Of(r)
  BY <1>1, UploadLeaves, StoreTypes DEF Uploads, Types, Executions
<1>3. UNCHANGED <<stream, video>>
  BY DEF Upload, rows
<1>4. StoresKnow /\ RunsKnow
  BY KnowledgeIs
<1>5. /\ run'[r] = x /\ \A u \in Runs : u # r => run'[u] = run[u]
      /\ \A u \in Runs : run[u].stream \in Streams
  BY <1>1 DEF Types, Executions
<1>6. /\ \A s \in Streams : Extends(store[s].state.segs, store[s].state.segs)
      /\ \A s \in Streams : Extends(store[s].archive.segs, store[s].archive.segs)
  <2>1. \A s \in Streams : store[s].state.segs \in Seq(Nat) /\ store[s].archive.segs \in Seq(Nat)
    BY DEF Types, Stores, States, Archives, Segs
  <2> QED
    BY <2>1, ExtendsFacts
<1>7. /\ x.pc = run[r].pc /\ x.segs = run[r].segs /\ x.keyed = run[r].keyed
      /\ (InSession(x) <=> InSession(run[r]))
  BY <1>1 DEF Uploads, InSession
<1>8. KnowsOf(st, stream[Of(r)], run[r]) /\ ~At(r, "idle") /\ run[r].pc # "flip"
  BY <1>2, <1>4 DEF RunsKnow, OneHolder, At
<1>9. CASE x.queue = <<>> /\ x.broken /\ UNCHANGED store
  <2>1. x.pc = "closing" => Finalizes(st, x)
    <3>1. Len(x.queue) = 0
      BY <1>9
    <3> QED
      BY <1>2, <1>7, <1>8, <1>9, <3>1 DEF Finalizes, KnowsOf
  <2>2. KnowsOf(store[x.stream], stream'[x.stream], x)
    BY <1>2, <1>3, <1>7, <1>8, <1>9, <2>1, EmptyQueue DEF KnowsOf
  <2>3. RunsKnow'
    BY <1>1, <1>3, <1>4, <1>9, <2>2, KnowsKept
  <2>4. StoresKnow'
    BY <1>3, <1>4, <1>9 DEF StoresKnow
  <2> QED
    BY <1>6, <1>9, <2>3, <2>4
<1>10. CASE /\ store' = [store EXCEPT ![Of(r)] = Stored(st, Head(q))]
            /\ x.queue = Tail(q) /\ x.broken = run[r].broken
  <2>1. Extends(st.state.segs, st.archive.segs) /\ InOrder(st, q)
    BY <1>2, <1>4, <1>8 DEF StoresKnow, KnowsOf
  <2>2. /\ Head(q) = q[1] /\ Len(x.queue) = Len(q) - 1
        /\ \A i \in 1..Len(q) - 1 : x.queue[i] = q[i + 1]
    BY <1>2, <1>10, PopSeq
  <2>3. /\ InOrder(st2, x.queue)
        /\ Extends(st2.state.segs, st.state.segs)
        /\ Extends(st2.archive.segs, st.archive.segs)
        /\ Extends(st2.state.segs, st2.archive.segs)
        /\ \A segs \in Seq(Nat) : Sequel(st, q, segs) => Sequel(st2, x.queue, segs)
    BY <1>2, <1>10, <2>1, <2>2, PopOrder
  <2>4. /\ store'[Of(r)] = st2 /\ \A s \in Streams : s # Of(r) => store'[s] = store[s]
    BY <1>2, <1>10, <2>2 DEF Types
  <2>5. ASSUME x.pc = "closing"
        PROVE  /\ Finalizes(st2, x) /\ st2.state = st.state
               /\ st.archive.ended => st2.archive.ended
               /\ Sealed(st) => Sealed(st2)
    <3>1. Finalizes(st, run[r])
      BY <1>7, <1>8, <2>5 DEF KnowsOf
    <3>2. st2 = Stored(st, run[r].queue[1])
      BY DEF st2
    <3>3. st \in Stores /\ run[r] \in Executions /\ x \in Executions /\ run[r].queue # <<>>
      BY <1>2
    <3>4. x.segs = run[r].segs /\ x.broken = run[r].broken
      BY <1>7, <1>10
    <3>5. /\ Len(x.queue) = Len(run[r].queue) - 1
          /\ \A i \in 1..Len(run[r].queue) - 1 : x.queue[i] = run[r].queue[i + 1]
      BY <2>2
    <3> HIDE DEF st2, st, q
    <3> QED
      BY <3>1, <3>2, <3>3, <3>4, <3>5, PopFinal
  <2>6. x.segs \in Seq(Nat)
    BY <1>2 DEF Executions, Segs
  <2>7. stream[Of(r)].status = "ENDED" => x.pc = "closing"
    BY <1>2, <1>7, <1>8 DEF OneHolder, KnowsOf
  <2> HIDE DEF st2, st
  <2>8. KnowsOf(st2, stream[Of(r)], x)
    BY <1>7, <1>8, <1>10, <2>3, <2>5, <2>6 DEF KnowsOf
  <2>9. RunsKnow'
    <3> SUFFICES ASSUME NEW u \in Runs
                 PROVE  KnowsOf(store'[run'[u].stream], stream'[run'[u].stream], run'[u])
      BY DEF RunsKnow, Of
    <3>1. CASE u = r
      BY <1>2, <1>3, <1>5, <2>4, <2>8, <3>1
    <3>2. CASE u # r /\ run[u].pc = "idle"
      <4>1. run'[u] = run[u] /\ run[u].queue = <<>>
        BY <1>5, <3>2 DEF OneHolder
      <4> QED
        BY <3>2, <4>1, QuietKnows
    <3>3. CASE u # r /\ run[u].pc # "idle"
      <4>1. Of(u) # Of(r)
        BY <1>8, <3>3, SoleHolder DEF At
      <4>2. run'[u] = run[u] /\ store'[run[u].stream] = store[run[u].stream]
        BY <1>5, <2>4, <3>3, <4>1 DEF Of
      <4> QED
        BY <1>3, <1>4, <4>2 DEF RunsKnow, Of
    <3> QED
      BY <3>1, <3>2, <3>3
  <2>10. stream[Of(r)].status = "ENDED" => Sealed(st2)
    BY <1>2, <1>4, <2>5, <2>7 DEF StoresKnow, st
  <2>11. video[Of(r)] = "READY" => st2.state.segs # <<>>
    BY <1>2, <1>4, <2>5, <2>7 DEF StoresKnow, RowsAgree, st
  <2>12. StoresKnow'
    BY <1>3, <1>4, <2>3, <2>4, <2>10, <2>11 DEF StoresKnow
  <2>13. ASSUME NEW s \in Streams
         PROVE  /\ Extends(store'[s].state.segs, store[s].state.segs)
                /\ Extends(store'[s].archive.segs, store[s].archive.segs)
                /\ store[s].archive.ended /\ stream[s].status = "ENDED" => store'[s].archive.ended
    <3>1. CASE s = Of(r)
      BY <2>3, <2>4, <2>5, <2>7, <3>1 DEF st
    <3>2. CASE s # Of(r)
      BY <1>6, <2>4, <3>2
    <3> QED
      BY <3>1, <3>2
  <2> QED
    BY <2>9, <2>12, <2>13
<1> QED
  BY <1>1, <1>9, <1>10 DEF Uploads
(* Who ends a broadcast leaves its archive closed, and nobody else's row.  *)
LEMMA EndLeaves ==
  ASSUME Types, RowsAgree, OneHolder, HolderKnows, ~overlap, NEW r \in Runs, EndStream(r)
  PROVE  /\ \A u \in Runs \ {r} :
              ~At(u, "idle") /\ stream[Of(u)].status = "LIVE" => stream'[Of(u)].status = "LIVE"
         /\ \A s \in Streams : stream'[s].status = "ENDED" => Sealed(store[s])
<1>1. /\ Of(r) \in Streams /\ ~At(r, "idle") /\ At(r, "closing")
      /\ \A u \in Runs : Of(u) \in Streams
  BY StoreTypes DEF EndStream, At
<1>2. StoresKnow /\ KnowsOf(store[Of(r)], stream[Of(r)], run[r])
  BY KnowledgeIs DEF RunsKnow
<1>3. CASE UNCHANGED stream
  BY <1>2, <1>3 DEF StoresKnow
<1>4. CASE ~UNCHANGED stream
  <2>1. /\ stream[Of(r)].status = "LIVE"
        /\ stream' = [stream EXCEPT ![Of(r)].status = "ENDED", ![Of(r) + 1].status = "IDLE"]
        /\ run[r].queue = <<>> /\ ~run[r].broken
    BY <1>4 DEF EndStream
  <2>2. \A s \in Streams : stream[s].status = "LIVE" => s = Of(r)
    BY <1>1, <2>1, OpenIs DEF RowsAgree
  <2>3. \A u \in Runs \ {r} : ~At(u, "idle") => stream[Of(u)].status # "LIVE"
    BY <1>1, <2>2, SoleHolder
  <2>4. Sealed(store[Of(r)])
    <3>1. Finalizes(store[Of(r)], run[r]) /\ Len(run[r].queue) = 0
      BY <1>1, <1>2, <2>1 DEF KnowsOf, At
    <3> QED
      BY <2>1, <3>1 DEF Finalizes, Sealed
  <2>5. ASSUME NEW s \in Streams, s # Of(r), stream'[s].status = "ENDED" PROVE stream[s].status = "ENDED"
    BY <1>1, <2>1, <2>5 DEF Types, Rows
  <2> QED
    BY <1>2, <2>3, <2>4, <2>5 DEF StoresKnow
<1> QED
  BY <1>3, <1>4

(* A video is made READY only over an archive with a segment.              *)
LEMMA FlipLeaves ==
  ASSUME Types, HolderKnows, ~overlap, NEW r \in Runs, FlipVideo(r)
  PROVE  \A s \in Streams : video'[s] = "READY" => store[s].state.segs # <<>>
<1>1. StoresKnow /\ run[r].segs = store[Of(r)].state.segs /\ Of(r) \in Streams
  BY KnowledgeIs, StoreTypes DEF RunsKnow, KnowsOf, FlipVideo, At
<1>2. CASE UNCHANGED video
  BY <1>1, <1>2 DEF StoresKnow
<1>3. CASE ~UNCHANGED video
  <2>1. video' = [video EXCEPT ![Of(r)] = IF run[r].segs = <<>> THEN "FAILED" ELSE "READY"]
    BY <1>3 DEF FlipVideo
  <2> QED
    BY <1>1, <2>1 DEF Types, StoresKnow
<1> QED
  BY <1>2, <1>3

(* What the holder knows outlives every step of an execution.              *)
LEMMA StepKnows ==
  ASSUME Types, RowsAgree, OneHolder, HolderKnows, MediaStands, EpochsRise,
         NEW r \in Runs, Progresses(r) \/ Crash(r) \/ Stall(r) \/ StartJob(r)
  PROVE  HolderKnows'
<1>1. HolderKnows' <=> (~overlap' => StoresKnow' /\ RunsKnow')
  BY DEF HolderKnows, StoresKnow, RunsKnow, KnowsOf, At
<1> SUFFICES ASSUME ~overlap' PROVE StoresKnow' /\ RunsKnow'
  BY <1>1
<1>2. ~overlap
  BY RowsGoOn DEF GoOn
<1>3. /\ StoresKnow /\ RunsKnow /\ KnowsOf(store[Of(r)], stream[Of(r)], run[r])
      /\ Of(r) \in Streams
  BY <1>2, KnowledgeIs, StoreTypes DEF RunsKnow
<1>4. CASE Upload(r)
  BY <1>2, <1>4, UploadKnows
<1>5. CASE Stall(r)
  BY <1>5 DEF Stall
<1>6. CASE ~Upload(r) /\ ~Stall(r)
  <2>1. UNCHANGED store
    BY <1>6, ProgressLeaves, StartLeaves DEF Crash
  <2>2. EndStream(r) \/ UNCHANGED stream
    BY <1>6, ProgressLeaves, StartLeaves DEF Crash, rows
  <2>3. FlipVideo(r) \/ UNCHANGED video
    BY <1>6, ProgressLeaves, StartLeaves DEF Crash, rows
  <2>4. StoresKnow'
    <3>1. \A s \in Streams : stream'[s].status = "ENDED" => Sealed(store[s])
      BY <1>2, <1>3, <2>2, EndLeaves DEF StoresKnow
    <3>2. \A s \in Streams : video'[s] = "READY" => store[s].state.segs # <<>>
      BY <1>2, <1>3, <2>3, FlipLeaves DEF StoresKnow
    <3> QED
      BY <1>3, <2>1, <3>1, <3>2 DEF StoresKnow
  <2>5. \A u \in Runs \ {r} :
           ~At(u, "idle") /\ stream[Of(u)].status = "LIVE" => stream'[Of(u)].status = "LIVE"
    BY <1>2, <2>2, EndLeaves
  <2> DEFINE Kept(x) == run' = [run EXCEPT ![r] = x] /\ KnowsOf(store[x.stream], stream'[x.stream], x)
  <2>6. \A x : Kept(x) => RunsKnow'
    BY <1>3, <2>1, <2>5, KnowsKept
  <2>7. CASE Ends(r)
    <3>1. KnowsOf(store[NoRun.stream], stream'[NoRun.stream], NoRun)
      <4>1. NoRun.queue = <<>> /\ NoRun.pc = "idle"
        BY DEF NoRun
      <4> QED
        BY <4>1, QuietKnows
    <3> QED
      BY <2>4, <2>6, <2>7, <3>1 DEF Ends
  <2>8. ASSUME NEW place \in Places, ToPlace(r, place),
               place = "flip" => run[r].segs = store[Of(r)].state.segs,
               place \in {"wait", "open", "check", "lastKick"} =>
                 stream'[Of(r)].status = "LIVE" /\ (run[r].keyed \/ place = "wait")
        PROVE  RunsKnow'
    <3>1. PICK x \in Executions :
            /\ run' = [run EXCEPT ![r] = x] /\ x.pc = place /\ x.stream = Of(r)
            /\ x.segs = run[r].segs /\ x.queue = <<>> /\ x.keyed = (run[r].keyed \/ place = "wait")
      BY <2>8 DEF ToPlace
    <3>2. place \notin {"connect", "encode", "closing", "drain"}
      BY DEF Places
    <3>3. KnowsOf(store[x.stream], stream'[x.stream], x)
      BY <2>8, <3>1, <3>2, QuietKnows
    <3> QED
      BY <2>6, <3>1, <3>3
  <2>9. run[r].pc \in {"wait", "open", "connect", "encode", "drain", "check"} =>
          stream[Of(r)].status = "LIVE" /\ run[r].keyed
    BY <1>3 DEF KnowsOf
  <2>10. CASE LoadStream(r)
    <3>1. UNCHANGED stream /\ stream[Of(r)].status \in {"LIVE", "ENDED"}
      BY <2>10 DEF LoadStream, At, RowsAgree, Began, rows
    <3> QED
      BY <2>4, <2>7, <2>8, <2>10, <3>1, LoadGoes DEF Places
  <2>11. CASE WaitForPublisher(r)
    <3>1. UNCHANGED stream /\ run[r].pc = "wait"
      BY <2>11 DEF WaitForPublisher, At, rows
    <3> QED
      BY <2>4, <2>7, <2>8, <2>9, <2>11, <3>1, WaitGoes DEF Places
  <2>12. CASE OpenSession(r)
    <3>1. UNCHANGED stream /\ run[r].pc = "open"
      BY <2>12 DEF OpenSession, At, rows
    <3>2. ASSUME NEW x, Opened(r, x), run' = [run EXCEPT ![r] = x] PROVE RunsKnow'
      <4>1. x.pc = "connect" /\ x.stream = Of(r) /\ x.keyed = run[r].keyed
        BY <3>2 DEF Opened
      <4>2. InOrder(store[x.stream], x.queue) /\ Sequel(store[x.stream], x.queue, x.segs)
        BY <3>2, OpenedRecord
      <4>3. KnowsOf(store[x.stream], stream'[x.stream], x)
        BY <2>9, <3>1, <4>1, <4>2 DEF KnowsOf
      <4> QED
        BY <2>6, <3>2, <4>3
    <3> QED
      BY <2>4, <2>7, <2>8, <2>9, <2>12, <3>1, <3>2, OpenSessionLeaves DEF Places
  <2>13. CASE EncoderStops(r) \/ AcceptInit(r) \/ AcceptPart(r)
    <3>1. UNCHANGED stream /\ run[r].pc \in {"connect", "encode"}
      BY <2>13 DEF EncoderStops, AcceptInit, AcceptPart, At, rows
    <3>2. PICK x : Carried(r, x) /\ run' = [run EXCEPT ![r] = x]
      BY <2>13, InitCarries, PartCarries, StopCarries
    <3>3. Ordered(store[Of(r)], run[r])
      BY <1>3, <3>1 DEF KnowsOf, Ordered, InSession
    <3>4. x.stream = Of(r) /\ x.keyed = run[r].keyed /\ x.pc \in {"encode", "drain"}
      BY <3>2 DEF Carried
    <3>5. /\ InOrder(store[Of(r)], x.queue)
          /\ InSession(x) /\ ~x.broken => Sequel(store[Of(r)], x.queue, x.segs)
      BY <3>2, <3>3 DEF Carried
    <3>6. KnowsOf(store[x.stream], stream'[x.stream], x)
      BY <2>9, <3>1, <3>4, <3>5 DEF KnowsOf
    <3> QED
      BY <2>4, <2>6, <3>2, <3>6
  <2>14. CASE Drained(r)
    <3>1. UNCHANGED stream /\ run[r].pc = "drain"
      BY <2>14 DEF Drained, At, rows
    <3> QED
      BY <2>4, <2>7, <2>8, <2>9, <2>14, <3>1, DrainedGoes DEF Places
  <2>15. CASE CheckPublisher(r)
    <3>1. UNCHANGED stream /\ run[r].pc = "check"
      BY <2>15 DEF CheckPublisher, At, rows
    <3> QED
      BY <2>4, <2>7, <2>8, <2>9, <2>15, <3>1, CheckGoes DEF Places
  <2>16. CASE LastKick(r) \/ LookAtNext(r) \/ FlipVideo(r)
    BY <2>4, <2>7, <2>8, <2>16, EndingGoes DEF Places
  <2>17. CASE LoadArchive(r)
    <3>1. ASSUME NEW x, Loaded(r, x), run' = [run EXCEPT ![r] = x] PROVE RunsKnow'
      BY <2>6, <3>1, LoadedKnows
    <3> QED
      BY <2>4, <2>7, <2>17, <3>1, LoadArchiveLeaves
  <2>18. CASE EndStream(r)
    <3>1. run[r].segs = store[Of(r)].state.segs
      BY <1>3, <2>18 DEF EndStream, At, KnowsOf, Finalizes
    <3> QED
      BY <2>4, <2>7, <2>8, <2>18, <3>1, EndingGoes DEF Places
  <2>19. CASE KickOrphan(r) \/ Crash(r)
    BY <2>4, <2>7, <2>19, EndingGoes
  <2>20. CASE StartJob(r)
    <3>1. PICK s \in Streams, x \in Executions : Starts(r, s, x) /\ run' = [run EXCEPT ![r] = x]
      BY <2>20, StartLeaves
    <3>2. KnowsOf(store[x.stream], stream'[x.stream], x)
      <4>1. x.queue = <<>> /\ x.pc = "load"
        BY <3>1 DEF Starts
      <4> QED
        BY <4>1, QuietKnows
    <3> QED
      BY <2>4, <2>6, <3>1, <3>2
  <2> QED
    BY <1>6, <2>10, <2>11, <2>12, <2>13, <2>14, <2>15, <2>16, <2>17, <2>18, <2>19, <2>20
       DEF Progresses, Progress
<1> QED
  BY <1>4, <1>5, <1>6
-----------------------------------------------------------------------------
(* A publisher on a key whose row is IDLE.                                 *)
IdleRow(f) == \E s \in Streams : f[s].status = "IDLE"
Seeing(x) == x.pc \in {"flip", "next", "kick"} /\ x.keyed

(* One row is open, and an orphan is there when that one is IDLE.          *)
LEMMA OrphanRow ==
  ASSUME NEW f,
         \E o \in Streams :
           /\ f[o].status \in {"IDLE", "LIVE"}
           /\ \A s \in Streams : (s < o => f[s].status = "ENDED") /\ (s > o => f[s].status = "NONE")
  PROVE  LET o == CHOOSE s \in Streams : f[s].status \in {"IDLE", "LIVE"}
         IN  /\ o \in Streams /\ f[o].status \in {"IDLE", "LIVE"}
             /\ f[o].status = "IDLE" <=> IdleRow(f)
<1> DEFINE o == CHOOSE s \in Streams : f[s].status \in {"IDLE", "LIVE"}
<1>1. PICK p \in Streams :
        /\ f[p].status \in {"IDLE", "LIVE"}
        /\ \A s \in Streams : (s < p => f[s].status = "ENDED") /\ (s > p => f[s].status = "NONE")
  OBVIOUS
<1>2. o \in Streams /\ f[o].status \in {"IDLE", "LIVE"}
  BY <1>1
<1> HIDE DEF o
<1>3. ASSUME NEW s \in Streams, f[s].status \in {"IDLE", "LIVE"} PROVE s = p
  <2>1. ~(s < p) /\ ~(s > p)
    BY <1>1, <1>3
  <2> QED
    BY <2>1 DEF Streams
<1>4. f[o].status = "IDLE" <=> IdleRow(f)
  BY <1>2, <1>3 DEF IdleRow
<1> QED
  BY <1>2, <1>4 DEF o

(* An orphan is a publisher on the key of an IDLE row.                     *)
LEMMA OrphanIs ==
  ASSUME OneOpen
  PROVE  Orphaned <=> publishing /\ IdleRow(stream)
  BY OrphanRow DEF OneOpen, Orphaned, Open

(* The same, after a step.                                                 *)
LEMMA OrphanWillBe ==
  ASSUME OneOpen'
  PROVE  Orphaned' <=> publishing' /\ IdleRow(stream')
<1>1. LET o == CHOOSE s \in Streams : stream'[s].status \in {"IDLE", "LIVE"}
      IN  /\ o \in Streams /\ stream'[o].status \in {"IDLE", "LIVE"}
          /\ stream'[o].status = "IDLE" <=> IdleRow(stream')
  BY OrphanRow DEF OneOpen
<1> QED
  BY <1>1 DEF Orphaned, Open

(* No step of the gate or of the creator leaves an orphan unseen.          *)
LEMMA GateSees ==
  ASSUME Types, RowsAgree, OneOpen', OrphanIsSeen,
         \/ HookAsk \/ PublisherLeaves \/ StopRequest
         \/ \E s \in Streams : HookGoLive(s) \/ PublisherReady(s) \/ RelayPublish(s)
  PROVE  OrphanIsSeen'
<1> SUFFICES ASSUME Untroubled', publishing', IdleRow(stream')
             PROVE  \E u \in Runs : run'[u].pc \in {"flip", "next", "kick"} /\ run'[u].keyed
  BY OrphanWillBe DEF OrphanIsSeen
<1>1. UNCHANGED <<run, faults, errors>>
  BY DEF HookAsk, PublisherLeaves, StopRequest, HookGoLive, PublisherReady, RelayPublish, counters
<1>2. /\ Open \in Streams /\ stream[Open].status \in {"IDLE", "LIVE"}
      /\ \A s \in Streams : stream[s].status \in {"IDLE", "LIVE"} => s = Open
  BY OpenIs DEF RowsAgree
<1>3. IdleRow(stream)
  <2>1. CASE UNCHANGED stream
    BY <2>1
  <2>2. CASE StopRequest
    <3>1. stream' = [stream EXCEPT ![Open].stop = TRUE]
      BY <2>2 DEF StopRequest
    <3>2. \A s \in Streams : stream'[s].status = stream[s].status
      BY <1>2, <3>1 DEF Types, Rows
    <3> QED
      BY <3>2 DEF IdleRow
  <2>3. ASSUME NEW s \in Streams, HookGoLive(s), ~UNCHANGED stream PROVE FALSE
    <3>1. stream[s].status = "IDLE" /\ stream' = [stream EXCEPT ![s].status = "LIVE"]
      BY <2>3 DEF HookGoLive, rows
    <3>2. stream'[s].status = "LIVE" /\ \A t \in Streams : t # s => stream'[t] = stream[t]
      BY <3>1 DEF Types, Rows
    <3>3. \A t \in Streams : stream'[t].status # "IDLE"
      BY <1>2, <3>1, <3>2
    <3> QED
      BY <3>3 DEF IdleRow
  <2> QED
    BY <2>1, <2>2, <2>3 DEF HookAsk, PublisherLeaves, PublisherReady, RelayPublish, rows
<1>4. publishing /\ ~slipped
  <2>1. CASE UNCHANGED <<publishing, slipped>>
    BY <2>1 DEF Untroubled
  <2>2. CASE PublisherLeaves
    BY <2>2 DEF PublisherLeaves
  <2>3. ASSUME NEW s \in Streams, PublisherReady(s) PROVE FALSE
    <3>1. stream[s].status = "LIVE"
      BY <2>3 DEF PublisherReady, Untroubled
    <3> QED
      BY <1>2, <1>3, <3>1 DEF IdleRow
  <2> QED
    BY <2>1, <2>2, <2>3 DEF HookAsk, StopRequest, HookGoLive, RelayPublish, gate, counters
<1> QED
  BY <1>1, <1>3, <1>4, OrphanIs DEF OrphanIsSeen, Untroubled, RowsAgree

(* And no step of an execution: who ends a row has its key and goes on to  *)
(* look at the next.                                                       *)
LEMMA StepSees ==
  ASSUME Types, RowsAgree, OneHolder, OneOpen', OrphanIsSeen,
         NEW r \in Runs, Progresses(r) \/ Crash(r) \/ Stall(r) \/ StartJob(r)
  PROVE  OrphanIsSeen'
<1> SUFFICES ASSUME Untroubled', publishing', IdleRow(stream')
             PROVE  \E u \in Runs : Seeing(run'[u])
  BY OrphanWillBe DEF OrphanIsSeen, Seeing
<1>1. faults \in Nat /\ errors \in Nat /\ faults' = 0 /\ errors' = 0
  BY DEF Types, Untroubled
<1>2. Progresses(r) \/ StartJob(r)
  BY <1>1 DEF Crash, Stall
<1>3. UNCHANGED counters /\ publishing
  <2>1. CASE StartJob(r)
    BY <2>1, StartLeaves DEF gate
  <2>2. CASE Progresses(r)
    <3>1. Counted /\ publishing' \in {publishing, FALSE}
      BY <2>2, ProgressLeaves
    <3>2. ~CallFails
      BY <1>1 DEF CallFails
    <3> QED
      BY <3>1, <3>2 DEF Counted
  <2> QED
    BY <1>2, <2>1, <2>2
<1>4. Untroubled /\ ~overlap
  BY <1>1, <1>3 DEF Untroubled, counters, OneHolder
<1>5. /\ run \in [Runs -> Executions] /\ run[r] \in Executions
      /\ Of(r) \in Streams
  BY StoreTypes DEF Types
<1>6. CASE IdleRow(stream)
  <2>1. PICK u \in Runs : Seeing(run[u])
    BY <1>3, <1>4, <1>6, OrphanIs DEF OrphanIsSeen, RowsAgree, Seeing
  <2>2. CASE u # r
    <3>1. \E x : run' = [run EXCEPT ![r] = x]
      BY <1>2 DEF Progresses, Progress, StartJob, LoadStream, WaitForPublisher, OpenSession,
                  EncoderStops, Drained, CheckPublisher, LastKick, LoadArchive, EndStream, FlipVideo,
                  LookAtNext, KickOrphan, Upload, AcceptInit, AcceptPart, Settle, Returned, Goto,
                  Unsuccessful, Becomes
    <3> QED
      BY <1>5, <2>1, <2>2, <3>1
  <2>3. CASE u = r
    <3>1. FlipVideo(r) \/ LookAtNext(r) \/ KickOrphan(r)
      <4>1. run[r].queue = <<>>
        BY <2>1, <2>3 DEF OneHolder, Seeing
      <4> QED
        BY <1>2, <2>1, <2>3, <4>1
        DEF Seeing, Progresses, Progress, StartJob, LoadStream, WaitForPublisher, OpenSession,
            EncoderStops, Drained, CheckPublisher, LastKick, LoadArchive, EndStream, Upload,
            AcceptInit, AcceptPart, At
    <3>2. ~CallFails
      BY <1>1, <1>3 DEF CallFails, counters
    <3>3. CASE FlipVideo(r)
      <4>1. run' = [run EXCEPT ![r] = [run[r] EXCEPT !.pc = "next"]]
        BY <2>1, <2>3, <3>2, <3>3 DEF FlipVideo, Returned, Goto, Becomes, Seeing
      <4>2. run'[r].pc = "next" /\ run'[r].keyed = run[r].keyed
        BY <1>5, <4>1 DEF Executions
      <4> QED
        BY <2>1, <2>3, <4>2 DEF Seeing
    <3>4. CASE LookAtNext(r)
      <4>1. stream[Open].status # "LIVE"
        BY <1>3, <1>6, OrphanIs DEF RowsAgree, Orphaned
      <4>2. run' = [run EXCEPT ![r] = [run[r] EXCEPT !.pc = "kick"]]
        BY <3>2, <3>4, <4>1 DEF LookAtNext, Returned, Goto, Becomes
      <4>3. run'[r].pc = "kick" /\ run'[r].keyed = run[r].keyed
        BY <1>5, <4>2 DEF Executions
      <4> QED
        BY <2>1, <2>3, <4>3 DEF Seeing
    <3>5. CASE KickOrphan(r)
      BY <3>2, <3>5 DEF KickOrphan, Kick
    <3> QED
      BY <3>1, <3>3, <3>4, <3>5
  <2> QED
    BY <2>2, <2>3
<1>7. CASE ~IdleRow(stream)
  <2>1. EndStream(r) /\ ~UNCHANGED stream
    BY <1>2, <1>7, ProgressLeaves, StartLeaves DEF rows
  <2>2. stream[Of(r)].status = "LIVE" /\ At(r, "closing") /\ Returned(r, "flip")
    BY <2>1 DEF EndStream
  <2>3. run[r].keyed
    BY <1>4, <2>2 DEF RowsAgree, At
  <2>4. run'[r].pc = "flip" /\ run'[r].keyed = run[r].keyed
    BY <1>5, <2>2 DEF Returned, Goto, Becomes, Executions
  <2> QED
    BY <2>3, <2>4 DEF Seeing
<1> QED
  BY <1>6, <1>7
-----------------------------------------------------------------------------
(* The invariant holds at first.                                           *)
LEMMA InitEstablishes == Init => IInv
<1> SUFFICES ASSUME Init PROVE IInv
  OBVIOUS
<1>1. /\ NoRun.queue = <<>> /\ NoRun.pc = "idle" /\ NoRun.parts = 0 /\ NoRun.stream = 1
      /\ ~InSession(NoRun)
  BY DEF NoRun, InSession
<1>2. /\ 1 \in Streams /\ \A s \in Streams : s > 1 <=> s # 1
      /\ \A s \in Streams : ~(s < 1)
  BY BroadcastAssumption DEF Streams
<1>3. \A r \in Runs : run[r] = NoRun
  BY DEF Init
<1>4. \A s \in Streams : /\ store[s] = EmptyStore /\ job[s] = NewJob
                         /\ stream[s] = [status |-> IF s = 1 THEN "IDLE" ELSE "NONE", stop |-> FALSE]
                         /\ video[s] = "none"
  BY DEF Init
<1>5. /\ EmptyStore \in Stores /\ EmptyStore.media = {} /\ EmptyStore.index = {}
      /\ EmptyStore.state = [epochs |-> 0, segs |-> <<>>]
      /\ EmptyStore.archive = [segs |-> <<>>, ended |-> FALSE]
  <2>1. <<>> \in Segs
    <3>1. Len(<<>>) = 0 /\ 0 <= MaxSegments
      BY BroadcastAssumption
    <3> QED
      BY <3>1 DEF Segs
  <2> QED
    BY <2>1 DEF EmptyStore, Stores, States, Archives, Masters
<1>6. NewJob \in StageJobs(Runs) /\ NewJob.state = "absent"
  BY DEF NewJob, StageJobs, JobStates
<1>a. ASSUME NEW s \in Streams
      PROVE  /\ store[s].media = {} /\ store[s].index = {}
             /\ store[s].state.segs = <<>> /\ store[s].state.epochs = 0
             /\ store[s].archive.segs = <<>>
             /\ stream[s] \in Rows /\ stream[s].status = IF s = 1 THEN "IDLE" ELSE "NONE"
             /\ video[s] = "none" /\ job[s].state = "absent"
  <2>1. /\ store[s] = EmptyStore /\ job[s] = NewJob /\ video[s] = "none"
        /\ stream[s] = [status |-> IF s = 1 THEN "IDLE" ELSE "NONE", stop |-> FALSE]
    BY <1>4
  <2>2. /\ store[s].media = {} /\ store[s].index = {}
        /\ store[s].state.segs = <<>> /\ store[s].state.epochs = 0 /\ store[s].archive.segs = <<>>
    BY <1>5, <2>1
  <2>3. stream[s] \in Rows /\ stream[s].status = IF s = 1 THEN "IDLE" ELSE "NONE"
    BY <2>1 DEF Rows
  <2> QED
    BY <1>6, <2>1, <2>2, <2>3
<1>7. Types
  <2>1. stream \in [Streams -> Rows] /\ video \in [Streams -> {"none", "LIVE", "READY", "FAILED"}]
    BY <1>4 DEF Init, Rows
  <2>2. job \in [Streams -> StageJobs(Runs)] /\ store \in [Streams -> Stores]
    BY <1>5, <1>6 DEF Init
  <2>3. run \in [Runs -> Executions] /\ \A r \in Runs : PartsFit(run[r])
    BY <1>3, NoRunIsExecution DEF Init
  <2>4. /\ outbox = {} /\ calls = {} /\ publishing = FALSE /\ overlap = FALSE /\ slipped = FALSE
        /\ faults = 0 /\ errors = 0
    BY DEF Init
  <2>5. faults \in Nat /\ errors \in Nat /\ faults + errors <= MaxTroubles
    BY <2>4, BroadcastAssumption
  <2>6. publishing \in BOOLEAN /\ overlap \in BOOLEAN /\ slipped \in BOOLEAN
    BY <2>4
  <2>7. outbox \subseteq Streams /\ calls \subseteq [at : {"goLive", "admitted"}, stream : Streams]
    BY <2>4
  <2> QED
    BY <2>1, <2>2, <2>3, <2>5, <2>6, <2>7 DEF Types
<1>8. /\ DOMAIN <<>> = {} /\ Len(<<>>) = 0 /\ Recorded(<<>>) = {} /\ \A n : Below(<<>>, n)
      /\ Extends(<<>>, <<>>)
  BY DEF Recorded, Below, Extends
<1>9. MediaStands
  <2>1. StoreStands
    BY <1>a, <1>8 DEF StoreStands
  <2>2. \A r \in Runs : QueueStands(store[Of(r)], run[r].queue)
    BY <1>1, <1>3, EmptyQueue
  <2> QED
    BY <1>1, <1>3, <2>1, <2>2 DEF MediaStands, At
<1>10. EpochsRise
  <2>1. \A s \in Streams : Below(store[s].state.segs, store[s].state.epochs)
    BY <1>a, <1>8
  <2>2. \A r \in Runs : QueueRises(run[r].queue) /\ run[r].pc = "idle"
    BY <1>1, <1>3, EmptyQueue
  <2> QED
    BY <2>1, <2>2 DEF EpochsRise, At
<1>11. RowsAgree
  <2>1. OneOpen
    BY <1>2, <1>a DEF OneOpen
  <2>2. outbox = {} /\ calls = {}
    BY DEF Init
  <2>3. ASSUME NEW s \in Streams
        PROVE  /\ stream[s].status # "LIVE" /\ s \notin outbox /\ job[s].state = "absent"
               /\ video[s] \notin {"READY", "FAILED"}
    BY <1>a, <2>2
  <2>4. \A r \in Runs : run[r].pc = "idle"
    BY <1>1, <1>3
  <2> QED
    BY <2>1, <2>2, <2>3, <2>4 DEF RowsAgree, At
<1>12. OneHolder
  BY <1>1, <1>3 DEF Init, OneHolder, At
<1>13. HolderKnows
  <2>1. StoresKnow
    <3>1. ASSUME NEW s \in Streams
          PROVE  /\ Extends(store[s].state.segs, store[s].archive.segs)
                 /\ Sealed(store[s]) /\ video[s] # "READY"
      BY <1>a, <1>8, <3>1 DEF Sealed
    <3> QED
      BY <3>1 DEF StoresKnow
  <2>2. RunsKnow
    BY <1>1, <1>3, QuietKnows DEF RunsKnow
  <2> QED
    BY <2>1, <2>2, KnowledgeIs
<1>14. OrphanIsSeen
  BY DEF Init, OrphanIsSeen, Orphaned
<1> QED
  BY <1>7, <1>9, <1>10, <1>11, <1>12, <1>13, <1>14 DEF IInv

(* The media stand where no execution and no object changes.               *)
LEMMA GateMedia ==
  ASSUME MediaStands, EpochsRise, UNCHANGED <<run, store>>
  PROVE  MediaStands' /\ EpochsRise'
  BY DEF MediaStands, EpochsRise, StoreStands, Of, At

(* The invariant holds where nothing changes.                              *)
LEMMA StillHolds ==
  ASSUME IInv, UNCHANGED vars
  PROVE  IInv'
<1>1. /\ UNCHANGED <<stream, video, outbox, job, publishing, calls, store, run>>
      /\ UNCHANGED <<faults, errors, overlap, slipped>>
  BY DEF vars, rows, gate, counters
<1>2. Types'
  BY <1>1 DEF IInv, Types
<1>3. MediaStands' /\ EpochsRise'
  BY <1>1, GateMedia DEF IInv
<1>4. RowsAgree'
  BY <1>1 DEF IInv, RowsAgree, OneOpen, Began, Of, At
<1>5. OneHolder'
  BY <1>1 DEF IInv, OneHolder, Of, At
<1>6. HolderKnows'
  BY <1>1 DEF IInv, HolderKnows, Of, At
<1>7. OrphanIsSeen'
  BY <1>1 DEF IInv, OrphanIsSeen, Untroubled, Orphaned, Open
<1> QED
  BY <1>2, <1>3, <1>4, <1>5, <1>6, <1>7 DEF IInv

(* Every step preserves the invariant.                                     *)
LEMMA StepPreserves == IInv /\ [Next]_vars => IInv'
<1> SUFFICES ASSUME IInv, [Next]_vars PROVE IInv'
  OBVIOUS
<1> USE DEF IInv
<1>1. CASE \/ HookAsk \/ PublisherLeaves \/ StopRequest
           \/ \E s \in Streams : HookGoLive(s) \/ PublisherReady(s) \/ RelayPublish(s)
  <2>1. UNCHANGED <<run, store>>
    BY <1>1 DEF HookAsk, PublisherLeaves, StopRequest, HookGoLive, PublisherReady, RelayPublish
  <2>2. RowsAgree'
    BY <1>1, GateRows
  <2>3. OrphanIsSeen'
    BY <1>1, <2>2, GateSees DEF RowsAgree
  <2> QED
    BY <1>1, <2>1, <2>2, <2>3, GateTypes, GateMedia, GateHolder, GateKnows
<1>2. ASSUME NEW r \in Runs, Progresses(r) \/ Crash(r) \/ Stall(r) \/ StartJob(r)
      PROVE  IInv'
  <2>1. RowsAgree'
    BY <1>2, StepRows
  <2>2. OrphanIsSeen'
    BY <1>2, <2>1, StepSees DEF RowsAgree
  <2> QED
    BY <1>2, <2>1, <2>2, StepTypes, StepMedia, StepHolder, StepKnows
<1>3. CASE UNCHANGED vars
  BY <1>3, StillHolds
<1> QED
  BY <1>1, <1>2, <1>3 DEF Next, Progresses

(* The invariant holds of every behaviour.                                 *)
THEOREM Inductive == Spec => []IInv
  BY InitEstablishes, StepPreserves, PTL DEF Spec

(* The variables keep their types (TypeOK).                                *)
THEOREM TypeCorrect == Spec => []TypeOK
<1>1. IInv => TypeOK
  <2> SUFFICES ASSUME Types PROVE TypeOK
    BY DEF IInv
  <2>1. ASSUME NEW s \in Streams
        PROVE  /\ store[s].media \cup store[s].index \subseteq MediaKeys
               /\ store[s].master \in {"none", "index", "archive"}
    BY DEF Types, Stores, Masters
  <2>2. ASSUME NEW r \in Runs
        PROVE  /\ run[r].pc \in RunPlaces /\ run[r].stream \in Streams
               /\ run[r].outcome \in {"ok", "transient", "permanent"}
               /\ run[r].parts \in 0..PartsPerSegment
    BY DEF Types, Executions, Outcomes
  <2>3. faults \in 0..MaxTroubles /\ errors \in 0..MaxTroubles
    BY BroadcastAssumption DEF Types
  <2>4. /\ stream \in [Streams -> [status : {"NONE", "IDLE", "LIVE", "ENDED"}, stop : BOOLEAN]]
        /\ video \in [Streams -> {"none", "LIVE", "READY", "FAILED"}]
        /\ outbox \subseteq Streams
        /\ job \in [Streams -> StageJobs(Runs)]
        /\ {publishing, overlap, slipped} \subseteq BOOLEAN
        /\ calls \subseteq [at : {"goLive", "admitted"}, stream : Streams]
    BY DEF Types, Rows
  <2> QED
    BY <2>1, <2>2, <2>3, <2>4 DEF TypeOK
<1> QED
  BY <1>1, Inductive, PTL

(* A playlist and the archive's state name only stored media, whatever     *)
(* fails and however many runs write; and while one execution at a time    *)
(* holds the broadcast, no recorded segment is written again               *)
(* (ListedMediaStands; live-uploader.ts, live-session.ts).                 *)
THEOREM BroadcastMediaStands == Spec => []ListedMediaStands
<1>1. IInv => ListedMediaStands
  <2> SUFFICES ASSUME IInv PROVE ListedMediaStands
    OBVIOUS
  <2>1. ASSUME ~overlap, NEW r \in Runs, NEW i \in DOMAIN run[r].queue, run[r].queue[i].object = "media"
        PROVE  run[r].queue[i].body \notin Recorded(store[Of(r)].state.segs)
    BY <2>1 DEF IInv, HolderKnows, InOrder, NoRewrite
  <2> QED
    BY <2>1 DEF IInv, MediaStands, StoreStands, ListedMediaStands
<1> QED
  BY <1>1, Inductive, PTL

(* A READY broadcast is its closed archive (ReadyPlays; finalize).         *)
THEOREM ReadyBroadcastPlays == Spec => []ReadyPlays
<1>1. IInv => ReadyPlays
  <2> SUFFICES ASSUME IInv, NEW s \in Streams, video[s] = "READY", ~overlap
               PROVE  /\ store[s].master = "archive"
                      /\ store[s].archive = [segs |-> store[s].state.segs, ended |-> TRUE]
                      /\ store[s].state.segs # <<>>
    BY DEF ReadyPlays
  <2>1. stream[s].status = "ENDED"
    BY DEF IInv, RowsAgree
  <2> QED
    BY <2>1 DEF IInv, HolderKnows, Sealed, Whole
<1> QED
  BY <1>1, Inductive, PTL

(* Once every broadcast's job has settled, no publisher is left on the key *)
(* of a stream that is not live (OrphanIsDropped; live-stage.ts).          *)
THEOREM OrphanDropped == Spec => []OrphanIsDropped
<1>1. IInv => OrphanIsDropped
  <2> SUFFICES ASSUME IInv, Untroubled, \A s \in Streams : ~Live(job[s]), Orphaned PROVE FALSE
    BY DEF OrphanIsDropped
  <2>1. PICK r \in Runs : run[r].pc \in {"flip", "next", "kick"}
    BY DEF IInv, OrphanIsSeen
  <2>2. ~overlap
    BY DEF IInv, OneHolder, Untroubled
  <2>3. OwnedBy(job[Of(r)], r)
    BY <2>1, <2>2 DEF IInv, OneHolder, At
  <2>4. Of(r) \in Streams
    BY StoreTypes DEF IInv
  <2> QED
    BY <2>3, <2>4 DEF OwnedBy, Live
<1> QED
  BY <1>1, Inductive, PTL

(* What a broadcast recorded stays recorded, and the closed archive of an  *)
(* ended stream stays closed (ArchiveOnlyGrows; closeSegment, finalize).   *)
THEOREM ArchiveGrows == Spec => ArchiveOnlyGrows
<1> DEFINE Grows ==
      ~overlap' => \A s \in Streams :
         /\ IsPrefix(store[s].state.segs, store'[s].state.segs)
         /\ IsPrefix(store[s].archive.segs, store'[s].archive.segs)
         /\ store[s].archive.ended /\ stream[s].status = "ENDED" => store'[s].archive.ended
<1>1. IInv /\ [Next]_vars => [Grows]_vars
  <2> SUFFICES ASSUME IInv, IInv', Next, ~overlap', NEW s \in Streams
               PROVE  /\ IsPrefix(store[s].state.segs, store'[s].state.segs)
                      /\ IsPrefix(store[s].archive.segs, store'[s].archive.segs)
                      /\ store[s].archive.ended /\ stream[s].status = "ENDED" => store'[s].archive.ended
    BY StepPreserves
  <2>1. /\ store[s].state.segs \in Seq(Nat) /\ store[s].archive.segs \in Seq(Nat)
        /\ store'[s].state.segs \in Seq(Nat) /\ store'[s].archive.segs \in Seq(Nat)
    <3>1. store[s] \in Stores /\ store'[s] \in Stores
      BY DEF IInv, Types
    <3> QED
      BY <3>1 DEF Stores, States, Archives, Segs
  <2> SUFFICES /\ Extends(store'[s].state.segs, store[s].state.segs)
               /\ Extends(store'[s].archive.segs, store[s].archive.segs)
               /\ store[s].archive.ended /\ stream[s].status = "ENDED" => store'[s].archive.ended
    BY <2>1, PrefixIsExtends
  <2>2. CASE UNCHANGED store
    <3>1. store'[s] = store[s]
      BY <2>2
    <3>2. Extends(store[s].state.segs, store[s].state.segs) /\ Extends(store[s].archive.segs, store[s].archive.segs)
      BY <2>1, ExtendsFacts
    <3> QED
      BY <3>1, <3>2
  <2>3. ASSUME NEW r \in Runs, Upload(r)
        PROVE  /\ Extends(store'[s].state.segs, store[s].state.segs)
               /\ Extends(store'[s].archive.segs, store[s].archive.segs)
               /\ store[s].archive.ended /\ stream[s].status = "ENDED" => store'[s].archive.ended
    <3>1. ~overlap
      BY <2>3 DEF Upload
    <3> QED
      BY <2>3, <3>1, UploadKnows DEF IInv
  <2>4. CASE \/ HookAsk \/ PublisherLeaves \/ StopRequest
             \/ \E t \in Streams : HookGoLive(t) \/ PublisherReady(t) \/ RelayPublish(t)
    BY <2>2, <2>4 DEF HookAsk, PublisherLeaves, StopRequest, HookGoLive, PublisherReady, RelayPublish
  <2>5. ASSUME NEW r \in Runs, ~Upload(r), Progresses(r) \/ Crash(r) \/ Stall(r) \/ StartJob(r)
        PROVE  UNCHANGED store
    BY <2>5, ProgressLeaves, StartLeaves DEF Crash, Stall, IInv
  <2> QED
    BY <2>2, <2>3, <2>4, <2>5 DEF Next, Progresses
<1> QED
  BY <1>1, Inductive, PTL DEF Spec, ArchiveOnlyGrows
=============================================================================
