------------------------- MODULE VideoPipelineProofs -------------------------
(***************************************************************************)
(* The pipeline of one video, proved for any number of generations, of     *)
(* lock tokens, of requesters and of faults: a READY is published over a   *)
(* ladder that plays, once per generation, and VideoLifecycle is           *)
(* implemented step by step.                                               *)
(***************************************************************************)
EXTENDS VideoPipeline, TLAPS

(* A package execution past its verification, or past its upload, has seen *)
(* or written what stands for good: nothing takes an object away.          *)
Ladder ==
  \A t \in Tokens : JobOf(t)[1] = "package" =>
    /\ execs[t].pc = "upload" => GenOf(t) \in playlists
    /\ execs[t].pc \in {"complete", "flip", "announce"} => Playable(GenOf(t))

(* The notice is committed before it is announced, and never taken back.   *)
AnnouncedBefore ==
  \A t \in Tokens : JobOf(t)[1] = "package" /\ execs[t].pc = "announce" =>
    ReadyNotice \in outbox \cup notices

(* What was published plays, and the notice is of something published.     *)
PublishedPlays == \A g \in Gens : published[g] > 0 => Playable(g)
NoticeOfPublished ==
  ReadyNotice \in outbox \cup notices => \E g \in Gens : published[g] > 0

(* The rendition rows are inserted once, so one probe execution is ever    *)
(* past that insert: it turns the video PROCESSING, and until then nothing *)
(* is published.                                                           *)
Accepting(t) == execs[t].pc \in {"rows", "accepted"}
Unpublished == \A g \in Gens : published[g] = 0

AcceptedOnce ==
  /\ \A t \in Tokens : Accepting(t) => rendered /\ Unpublished /\ video.status # "PROCESSING"
  /\ \A t, u \in Tokens : Accepting(t) /\ Accepting(u) => t = u
  /\ video.status = "PROCESSING" => rendered /\ Unpublished
  /\ ~rendered => Unpublished

IInv ==
  /\ TypeOK
  /\ Ladder
  /\ AnnouncedBefore
  /\ PublishedPlays
  /\ NoticeOfPublished
  /\ AcceptedOnce
  /\ PublishedOnce

-----------------------------------------------------------------------------
(* What the queue makes of an answer, and of a lock that expired.          *)
LEMMA AnsweredIsJob ==
  ASSUME NEW j \in StageJobs(Tokens), NEW outcome
  PROVE  Answered(j, outcome) \in StageJobs(Tokens)
<1>1. j.attempts \in Nat /\ j.attempts + 1 \in Nat
  BY DEF StageJobs
<1>2. CASE outcome = "ok"
  BY <1>2 DEF Answered, StageJobs, JobStates
<1>3. CASE outcome # "ok"
  <2> DEFINE state == IF outcome = "transient" /\ j.attempts + 1 < MaxAttempts THEN "waiting" ELSE "failed"
  <2>1. state \in JobStates
    BY DEF JobStates
  <2>2. Answered(j, outcome) = [j EXCEPT !.attempts = j.attempts + 1, !.owner = NoToken, !.state = state]
    BY <1>3 DEF Answered
  <2> HIDE DEF state
  <2> QED
    BY <1>1, <2>1, <2>2 DEF StageJobs
<1> QED
  BY <1>2, <1>3

(* A job whose lock expired is a job (Stalled).                            *)
LEMMA StalledIsJob ==
  ASSUME NEW j \in StageJobs(Tokens)
  PROVE  Stalled(j) \in StageJobs(Tokens)
<1> DEFINE state == IF j.stalls < MaxStalled THEN "waiting" ELSE "failed"
<1>1. state \in JobStates /\ j.stalls \in Nat /\ j.stalls + 1 \in Nat
  BY DEF JobStates, StageJobs
<1>2. Stalled(j) = [j EXCEPT !.stalls = j.stalls + 1, !.owner = NoToken, !.state = state]
  BY DEF Stalled
<1> HIDE DEF state
<1> QED
  BY <1>1, <1>2 DEF StageJobs

(* A job that is added is a job.                                           *)
LEMMA AddedIsJob ==
  ASSUME NEW j \in StageJobs(Tokens), NEW state \in JobStates
  PROVE  Added(j, state) \in StageJobs(Tokens)
  BY DEF Added, StageJobs

(* Every status of a step row that a stage or a listener writes is one.    *)
LEMMA WrittenIsRow ==
  ASSUME NEW t \in Tokens, NEW r \in StepRows(Tokens \cup {NoToken})
  PROVE  /\ Claimed(t) \in StepRows(Tokens \cup {NoToken})
         /\ {Completed(r), Failed(r), MarkedDead(r)} \subseteq StepRows(Tokens \cup {NoToken})
  BY DEF Claimed, Completed, Failed, MarkedDead, Ended, StepRows, StepStatus

(* An execution at a place of a stage has a job of that stage.             *)
LEMMA PlacedHasJob ==
  ASSUME TypeOK, NEW t \in Tokens, JobOf(t)[1] \in {"probe", "package"}
  PROVE  JobOf(t) \in Jobs /\ GenOf(t) \in Gens /\ JobOf(t) = <<JobOf(t)[1], GenOf(t)>>
  BY DEF TypeOK, JobOf, GenOf, Jobs, NoJob

(* A worker that settles its job keeps the types.                          *)
LEMMA SettledTypes ==
  ASSUME TypeOK, NEW t \in Tokens, NEW outcome, Settle(t, outcome)
  PROVE  /\ jobs' \in [Jobs -> StageJobs(Tokens)] /\ reports' \in [Jobs -> Nat]
         /\ execs' = [execs EXCEPT ![t] = Idle]
<1>1. JobOf(t) \in Jobs \cup {NoJob}
  BY DEF TypeOK, JobOf
<1>2. CASE Owns(t)
  <2>1. JobOf(t) \in Jobs
    BY <1>1, <1>2 DEF Owns
  <2>2. Answered(jobs[JobOf(t)], outcome) \in StageJobs(Tokens)
    BY <2>1, AnsweredIsJob DEF TypeOK
  <2> QED
    BY <1>2, <2>1, <2>2 DEF TypeOK, Settle
<1>3. CASE ~Owns(t)
  BY <1>3 DEF TypeOK, Settle
<1> QED
  BY <1>2, <1>3

(* A lock that expires keeps the types.                                    *)
LEMMA ExpiredTypes ==
  ASSUME TypeOK, NEW j \in Jobs, Expire(j)
  PROVE  jobs' \in [Jobs -> StageJobs(Tokens)] /\ reports' \in [Jobs -> Nat]
<1>1. Stalled(jobs[j]) \in StageJobs(Tokens)
  BY StalledIsJob DEF TypeOK
<1> QED
  BY <1>1 DEF TypeOK, Expire

(* Where an execution moves, it keeps its job; where it is settled, it has *)
(* none.                                                                   *)
Execs == [job : Jobs \cup {NoJob}, pc : ProbePlaces \cup PackagePlaces \cup {"idle"}]

(* A stage that moves on keeps the types.                                  *)
LEMMA MovedTypes ==
  ASSUME TypeOK, NEW t \in Tokens, NEW pc \in ProbePlaces \cup PackagePlaces, Goto(t, pc)
  PROVE  /\ execs' \in [Tokens -> Execs]
         /\ execs' = [execs EXCEPT ![t] = [job |-> JobOf(t), pc |-> pc]]
<1>1. execs \in [Tokens -> Execs] /\ execs[t] \in Execs
  BY DEF TypeOK, Execs
<1>2. [execs[t] EXCEPT !.pc = pc] = [job |-> JobOf(t), pc |-> pc]
  BY <1>1 DEF Execs, JobOf
<1>3. [job |-> JobOf(t), pc |-> pc] \in Execs
  BY <1>1 DEF Execs, JobOf
<1> QED
  BY <1>1, <1>2, <1>3 DEF Goto

(* A slot that becomes idle keeps the types.                               *)
LEMMA IdleTypes ==
  ASSUME TypeOK, NEW t \in Tokens, execs' = [execs EXCEPT ![t] = Idle]
  PROVE  execs' \in [Tokens -> Execs]
  BY DEF TypeOK, Execs, Idle

-----------------------------------------------------------------------------
(* Places an execution can be at before it is known what is in storage or  *)
(* who accepts the video, and after it matters.                            *)
Harmless == {"idle", "start", "claim", "probing", "rejecting", "dispatch", "verify"}

(* Most steps publish nothing, take no object away, and turn no video      *)
(* PROCESSING: what the invariant says of the other executions stands.     *)
LEMMA FramePreserves ==
  ASSUME IInv,
         \A t \in Tokens : execs'[t] = execs[t] \/ execs'[t].pc \in Harmless,
         playlists \subseteq playlists', masters \subseteq masters',
         ReadyNotice \in (outbox \cup notices)' <=> ReadyNotice \in outbox \cup notices,
         video.status' = "PROCESSING" => video.status = "PROCESSING",
         UNCHANGED <<rendered, published>>
  PROVE  /\ Ladder' /\ AnnouncedBefore' /\ PublishedPlays' /\ NoticeOfPublished'
         /\ AcceptedOnce' /\ PublishedOnce'
<1>1. \A g \in Gens : Playable(g) => Playable(g)'
  BY DEF Playable
<1>2. \A t \in Tokens : execs'[t].pc \in {"upload", "complete", "flip", "announce", "rows", "accepted"} =>
         execs'[t] = execs[t]
  BY DEF Harmless
<1>3. Ladder'
  <2> SUFFICES ASSUME NEW t \in Tokens, JobOf(t)'[1] = "package"
               PROVE  /\ execs'[t].pc = "upload" => GenOf(t)' \in playlists'
                      /\ execs'[t].pc \in {"complete", "flip", "announce"} => Playable(GenOf(t))'
    BY DEF Ladder
  <2>1. CASE execs'[t] = execs[t]
    BY <2>1 DEF IInv, Ladder, JobOf, GenOf, Playable
  <2>2. CASE execs'[t].pc \in Harmless
    BY <2>2 DEF Harmless
  <2> QED
    BY <2>1, <2>2
<1>4. AnnouncedBefore'
  BY <1>2 DEF IInv, AnnouncedBefore, JobOf
<1>5. PublishedPlays' /\ NoticeOfPublished' /\ PublishedOnce'
  BY <1>1 DEF IInv, PublishedPlays, NoticeOfPublished, PublishedOnce
<1>6. AcceptedOnce'
  BY <1>2 DEF IInv, AcceptedOnce, Accepting, Unpublished
<1> QED
  BY <1>3, <1>4, <1>5, <1>6

(* A step of a stage that ends the execution or leaves it at a harmless    *)
(* place: it may write the step rows and notices, and move the video       *)
(* anywhere but to PROCESSING.                                             *)
Quietly(t) ==
  \/ \E pc \in Harmless \ {"idle"} : StillOn(t, pc)
  \/ \E outcome \in {"ok", "permanent", "transient"} : Settle(t, outcome)

(* A step that publishes nothing and goes to a quiet place preserves it.   *)
LEMMA QuietPreserves ==
  ASSUME IInv, NEW t \in Tokens, Quietly(t),
         video' \in [status : Statuses, gen : Gens],
         video'.status = "PROCESSING" => video.status = "PROCESSING",
         steps' \in [{"probe", "package"} -> StepRows(Tokens \cup {NoToken})],
         outbox' = outbox, notices' \subseteq Notices,
         ReadyNotice \in (outbox \cup notices)' <=> ReadyNotice \in outbox \cup notices,
         UNCHANGED <<rendered, store, parking, others, published>>
  PROVE  IInv'
<1>1. TypeOK
  BY DEF IInv
<1> DEFINE Moved == /\ jobs' \in [Jobs -> StageJobs(Tokens)] /\ reports' \in [Jobs -> Nat]
                    /\ execs' \in [Tokens -> Execs]
                    /\ \A u \in Tokens : execs'[u] = execs[u] \/ execs'[u].pc \in Harmless
<1>2. Moved
  <2>1. ASSUME NEW pc \in Harmless \ {"idle"}, StillOn(t, pc) PROVE Moved
    <3>1. pc \in ProbePlaces \cup PackagePlaces
      BY DEF Harmless, ProbePlaces, PackagePlaces
    <3>2. execs' \in [Tokens -> Execs] /\ execs' = [execs EXCEPT ![t] = [job |-> JobOf(t), pc |-> pc]]
      BY <1>1, <2>1, <3>1, MovedTypes DEF StillOn
    <3>3. UNCHANGED <<jobs, reports>>
      BY <2>1 DEF StillOn, Working
    <3> QED
      BY <1>1, <3>2, <3>3 DEF TypeOK
  <2>2. ASSUME NEW outcome \in {"ok", "permanent", "transient"}, Settle(t, outcome)
        PROVE  Moved
    <3>1. /\ jobs' \in [Jobs -> StageJobs(Tokens)] /\ reports' \in [Jobs -> Nat]
          /\ execs' = [execs EXCEPT ![t] = Idle]
      BY <1>1, <2>2, SettledTypes
    <3>2. execs' \in [Tokens -> Execs]
      BY <1>1, <3>1, IdleTypes
    <3> QED
      BY <1>1, <3>1, <3>2 DEF TypeOK, Idle, Harmless
  <2> QED
    BY <2>1, <2>2 DEF Quietly
<1>3. TypeOK'
  BY <1>1, <1>2 DEF TypeOK, Execs, store, others
<1>4. /\ Ladder' /\ AnnouncedBefore' /\ PublishedPlays' /\ NoticeOfPublished'
      /\ AcceptedOnce' /\ PublishedOnce'
  BY <1>2, FramePreserves DEF store
<1> QED
  BY <1>3, <1>4 DEF IInv

(* A step that keeps the execution going at another place.                 *)
LEMMA GoingOn ==
  ASSUME TypeOK, NEW t \in Tokens, NEW pc \in ProbePlaces \cup PackagePlaces, StillOn(t, pc)
  PROVE  /\ UNCHANGED <<jobs, reports>>
         /\ execs' \in [Tokens -> Execs]
         /\ execs'[t].pc = pc /\ JobOf(t)' = JobOf(t) /\ GenOf(t)' = GenOf(t)
         /\ \A u \in Tokens \ {t} :
              execs'[u] = execs[u] /\ JobOf(u)' = JobOf(u) /\ GenOf(u)' = GenOf(u)
<1>1. execs' \in [Tokens -> Execs] /\ execs' = [execs EXCEPT ![t] = [job |-> JobOf(t), pc |-> pc]]
  BY MovedTypes DEF StillOn
<1> QED
  BY <1>1 DEF TypeOK, StillOn, Working, JobOf, GenOf

(* The types of a step of the stages that keeps the execution going.       *)
LEMMA GoingOnTypes ==
  ASSUME TypeOK, NEW t \in Tokens, NEW pc \in ProbePlaces \cup PackagePlaces, StillOn(t, pc),
         video' \in [status : Statuses, gen : Gens],
         steps' \in [{"probe", "package"} -> StepRows(Tokens \cup {NoToken})],
         rendered' \in BOOLEAN, masters' \subseteq Gens, outbox' \subseteq Jobs \cup Notices,
         published' \in [Gens -> Nat],
         UNCHANGED <<playlists, notices, parking, others>>
  PROVE  TypeOK'
  BY GoingOn DEF TypeOK, Execs, others

(* Claims and completions, of either stage.                                *)
LEMMA StepWrites ==
  ASSUME TypeOK, NEW t \in Tokens, NEW stage \in {"probe", "package"},
         NEW r \in {Claimed(t), Completed(steps[stage]), Failed(steps[stage]),
                    MarkedDead(steps[stage]), steps[stage]},
         SetStep(stage, r)
  PROVE  steps' \in [{"probe", "package"} -> StepRows(Tokens \cup {NoToken})]
<1>1. steps[stage] \in StepRows(Tokens \cup {NoToken})
  BY DEF TypeOK
<1>2. r \in StepRows(Tokens \cup {NoToken})
  BY <1>1, WrittenIsRow
<1> QED
  BY <1>2 DEF TypeOK, SetStep

(* The claims preserve the invariant.                                      *)
LEMMA ClaimsPreserve ==
  ASSUME IInv, NEW t \in Tokens, NEW stage \in {"probe", "package"},
         NEW held \in {"probing", "verify"}, Claims(t, stage, held)
  PROVE  IInv'
<1>1. TypeOK /\ UNCHANGED <<video, rendered, store, messages, parking, others, published>>
  BY DEF IInv, Claims
<1>2. steps' \in [{"probe", "package"} -> StepRows(Tokens \cup {NoToken})]
  BY <1>1, StepWrites DEF Claims, TypeOK
<1>3. Quietly(t)
  BY DEF Claims, Quietly, Harmless
<1> QED
  BY <1>1, <1>2, <1>3, QuietPreserves DEF TypeOK, messages

(* A stage that answers and writes nothing preserves the invariant.        *)
LEMMA FencedPreserves ==
  ASSUME IInv, NEW t \in Tokens, Settle(t, "ok"),
         UNCHANGED <<video, steps, rendered, store, messages, parking, others, published>>
  PROVE  IInv'
<1>1. TypeOK /\ Quietly(t)
  BY DEF IInv, Quietly
<1> QED
  BY <1>1, QuietPreserves DEF TypeOK, messages

-----------------------------------------------------------------------------
(* The probe stage.                                                        *)
LEMMA ProbePreserves ==
  ASSUME IInv, NEW t \in Tokens, ProbeStage(t)
  PROVE  IInv'
<1>1. TypeOK
  BY DEF IInv
<1>2. /\ video \in [status : Statuses, gen : Gens] /\ rendered \in BOOLEAN
      /\ steps \in [{"probe", "package"} -> StepRows(Tokens \cup {NoToken})]
      /\ notices \subseteq Notices /\ outbox \subseteq Jobs \cup Notices
      /\ playlists \subseteq Gens /\ masters \subseteq Gens /\ published \in [Gens -> Nat]
  BY <1>1 DEF TypeOK
<1>3. ReadyNotice # FailedNotice /\ FailedNotice \in Notices
  BY DEF ReadyNotice, FailedNotice, Notices
<1>4. ASSUME NEW to \in Statuses, NEW from, Transition(from, to)
      PROVE  video' \in [status : Statuses, gen : Gens] /\ video'.status = to /\ video.status \in from
  BY <1>2, <1>4 DEF Transition
<1> USE DEF messages, store
<1>5. CASE ProbeStart(t)
  <2>1. video' \in [status : Statuses, gen : Gens]
        /\ (video'.status = "PROCESSING" => video.status = "PROCESSING")
    BY <1>2, <1>4, <1>5 DEF ProbeStart, Statuses
  <2>2. Quietly(t)
    BY <1>5 DEF ProbeStart, Quietly, Harmless
  <2> QED
    BY <1>2, <1>5, <2>1, <2>2, QuietPreserves DEF ProbeStart
<1>6. CASE ProbeClaim(t)
  BY <1>6, ClaimsPreserve DEF ProbeClaim
<1>7. CASE ProbeReject(t)
  <2>1. steps' \in [{"probe", "package"} -> StepRows(Tokens \cup {NoToken})]
    BY <1>1, <1>7, StepWrites DEF ProbeReject
  <2>2. Quietly(t)
    BY <1>7 DEF ProbeReject, Quietly, Harmless
  <2> QED
    BY <1>2, <1>7, <2>1, <2>2, QuietPreserves DEF ProbeReject
<1>8. CASE ProbeRejected(t)
  <2>1. video' \in [status : Statuses, gen : Gens]
        /\ (video'.status = "PROCESSING" => video.status = "PROCESSING")
    BY <1>2, <1>4, <1>8 DEF ProbeRejected, Statuses
  <2>2. notices' \subseteq Notices /\ (ReadyNotice \in notices' <=> ReadyNotice \in notices)
    BY <1>2, <1>3, <1>8 DEF ProbeRejected
  <2>3. Quietly(t)
    BY <1>8 DEF ProbeRejected, Quietly
  <2> QED
    BY <1>2, <1>8, <2>1, <2>2, <2>3, QuietPreserves DEF ProbeRejected
<1>9. CASE ProbeRows(t)
  <2>1. CASE rendered /\ Settle(t, "transient")
    BY <1>2, <1>9, <2>1, QuietPreserves DEF ProbeRows, Quietly
  <2>2. CASE ~rendered /\ rendered' = TRUE /\ StillOn(t, "rows")
    <3>1. UNCHANGED <<video, steps, store, messages, parking, others, published>>
      BY <1>9 DEF ProbeRows
    <3>2. "rows" \in ProbePlaces
      BY DEF ProbePlaces
    <3>3. /\ execs'[t].pc = "rows"
          /\ \A u \in Tokens \ {t} :
               execs'[u] = execs[u] /\ JobOf(u)' = JobOf(u) /\ GenOf(u)' = GenOf(u)
      BY <1>1, <2>2, <3>2, GoingOn
    <3>4. TypeOK'
      BY <1>1, <1>2, <2>2, <3>1, <3>2, GoingOnTypes
    <3>5. Ladder' /\ AnnouncedBefore' /\ PublishedPlays' /\ NoticeOfPublished' /\ PublishedOnce'
      BY <3>1, <3>3
      DEF IInv, Ladder, AnnouncedBefore, PublishedPlays, NoticeOfPublished, PublishedOnce, Playable
    <3>6. AcceptedOnce'
      BY <2>2, <3>1, <3>3 DEF IInv, AcceptedOnce, Accepting, Unpublished
    <3> QED
      BY <3>4, <3>5, <3>6 DEF IInv
  <2> QED
    BY <1>9, <2>1, <2>2 DEF ProbeRows
<1>10. CASE ProbeComplete(t)
  <2>1. CASE Settle(t, "ok") /\ UNCHANGED steps
    BY <1>10, <2>1, FencedPreserves DEF ProbeComplete, Completes
  <2>2. CASE SetStep("probe", Completed(steps["probe"])) /\ StillOn(t, "accepted")
    <3>1. UNCHANGED <<video, rendered, store, messages, parking, others, published>>
      BY <1>10 DEF ProbeComplete, Completes
    <3>2. "accepted" \in ProbePlaces /\ execs[t].pc = "rows"
      BY <1>10 DEF ProbePlaces, ProbeComplete, Completes, At
    <3>3. /\ execs'[t].pc = "accepted"
          /\ \A u \in Tokens \ {t} :
               execs'[u] = execs[u] /\ JobOf(u)' = JobOf(u) /\ GenOf(u)' = GenOf(u)
      BY <1>1, <2>2, <3>2, GoingOn
    <3>4. TypeOK'
      BY <1>1, <1>2, <2>2, <3>1, <3>2, GoingOnTypes, StepWrites
    <3>5. Ladder' /\ AnnouncedBefore' /\ PublishedPlays' /\ NoticeOfPublished' /\ PublishedOnce'
      BY <3>1, <3>3
      DEF IInv, Ladder, AnnouncedBefore, PublishedPlays, NoticeOfPublished, PublishedOnce, Playable
    <3>6. AcceptedOnce'
      BY <3>1, <3>2, <3>3 DEF IInv, AcceptedOnce, Accepting, Unpublished
    <3> QED
      BY <3>4, <3>5, <3>6 DEF IInv
  <2> QED
    BY <1>10, <2>1, <2>2 DEF ProbeComplete, Completes
<1>11. CASE ProbeCommit(t)
  <2>1. UNCHANGED <<steps, rendered, store, messages, parking, others, published>>
    BY <1>11 DEF ProbeCommit
  <2>2. "dispatch" \in ProbePlaces /\ execs[t].pc = "accepted" /\ StillOn(t, "dispatch")
    BY <1>11 DEF ProbePlaces, ProbeCommit, At
  <2>3. /\ execs'[t].pc = "dispatch"
        /\ \A u \in Tokens \ {t} :
             execs'[u] = execs[u] /\ JobOf(u)' = JobOf(u) /\ GenOf(u)' = GenOf(u)
    BY <1>1, <2>2, GoingOn
  <2>4. video' \in [status : Statuses, gen : Gens]
    BY <1>2, <1>4, <1>11 DEF ProbeCommit, Statuses
  <2>5. TypeOK'
    BY <1>1, <1>2, <2>1, <2>2, <2>4, GoingOnTypes
  <2>6. Ladder' /\ AnnouncedBefore' /\ PublishedPlays' /\ NoticeOfPublished' /\ PublishedOnce'
    BY <2>1, <2>3
    DEF IInv, Ladder, AnnouncedBefore, PublishedPlays, NoticeOfPublished, PublishedOnce, Playable
  <2>7. rendered /\ Unpublished /\ \A u \in Tokens : ~Accepting(u)'
    BY <2>2, <2>3 DEF IInv, AcceptedOnce, Accepting
  <2>8. AcceptedOnce'
    BY <2>1, <2>7 DEF AcceptedOnce, Unpublished
  <2> QED
    BY <2>5, <2>6, <2>8 DEF IInv
<1>12. CASE ProbeDispatch(t)
  <2>1. /\ UNCHANGED <<database, store, messages, listeners, others, published>>
        /\ execs' = [execs EXCEPT ![t] = Idle]
        /\ At(t, "probe", "dispatch")
    BY <1>12 DEF ProbeDispatch
  <2>2. Package(GenOf(t)) \in Jobs /\ JobOf(t) \in Jobs
    BY <1>1, <2>1, PlacedHasJob DEF At, Package, Jobs
  <2> DEFINE flow == [jobs EXCEPT ![Package(GenOf(t))] = Added(@, "waitingChildren")]
  <2>3. flow \in [Jobs -> StageJobs(Tokens)]
    <3>1. "waitingChildren" \in JobStates
      BY DEF JobStates
    <3> QED
      BY <1>1, <2>2, <3>1, AddedIsJob DEF TypeOK
  <2>4. jobs' = IF Owns(t) THEN [flow EXCEPT ![JobOf(t)] = Answered(@, "ok")] ELSE flow
    BY <1>12 DEF ProbeDispatch
  <2> HIDE DEF flow
  <2>5. jobs' \in [Jobs -> StageJobs(Tokens)]
    BY <2>2, <2>3, <2>4, AnsweredIsJob
  <2>6. execs' \in [Tokens -> Execs]
    BY <1>1, <2>1, IdleTypes
  <2>7. TypeOK'
    BY <1>1, <2>1, <2>5, <2>6 DEF TypeOK, Execs, database, listeners, others
  <2>8. \A u \in Tokens : execs'[u] = execs[u] \/ execs'[u].pc \in Harmless
    BY <1>1, <2>1 DEF TypeOK, Idle, Harmless
  <2> QED
    BY <2>1, <2>7, <2>8, FramePreserves DEF IInv, database
<1> QED
  BY <1>5, <1>6, <1>7, <1>8, <1>9, <1>10, <1>11, <1>12 DEF ProbeStage

-----------------------------------------------------------------------------
(* The package stage.                                                      *)
LEMMA PackagePreserves ==
  ASSUME IInv, NEW t \in Tokens, PackageStage(t)
  PROVE  IInv'
<1>1. TypeOK
  BY DEF IInv
<1>2. /\ video \in [status : Statuses, gen : Gens] /\ rendered \in BOOLEAN
      /\ steps \in [{"probe", "package"} -> StepRows(Tokens \cup {NoToken})]
      /\ notices \subseteq Notices /\ outbox \subseteq Jobs \cup Notices
      /\ playlists \subseteq Gens /\ masters \subseteq Gens /\ published \in [Gens -> Nat]
  BY <1>1 DEF TypeOK
<1>3. ReadyNotice \in Notices
  BY DEF Notices
<1>4. JobOf(t)[1] = "package" => GenOf(t) \in Gens
  BY <1>1, PlacedHasJob
<1>5. {"upload", "complete", "flip", "announce"} \subseteq PackagePlaces
  BY DEF PackagePlaces
<1> USE DEF messages, store
(* What stands when the execution goes on past its verification.           *)
<1>6. ASSUME NEW pc \in {"upload", "complete", "flip", "announce"}, StillOn(t, pc),
             playlists' = playlists, masters \subseteq masters',
             GenOf(t) \in playlists, pc # "upload" => GenOf(t) \in masters',
             outbox \subseteq outbox', notices' = notices, pc = "announce" => ReadyNotice \in outbox'
      PROVE  Ladder' /\ AnnouncedBefore' /\ \A u \in Tokens : Accepting(u)' => Accepting(u)
  <2>1. /\ execs'[t].pc = pc /\ JobOf(t)' = JobOf(t) /\ GenOf(t)' = GenOf(t)
        /\ \A u \in Tokens \ {t} :
             execs'[u] = execs[u] /\ JobOf(u)' = JobOf(u) /\ GenOf(u)' = GenOf(u)
    BY <1>1, <1>5, <1>6, GoingOn
  <2>2. \A g \in Gens : Playable(g) => Playable(g)'
    BY <1>6 DEF Playable
  <2>3. Ladder'
    <3> SUFFICES ASSUME NEW u \in Tokens, JobOf(u)'[1] = "package"
                 PROVE  /\ execs'[u].pc = "upload" => GenOf(u)' \in playlists'
                        /\ execs'[u].pc \in {"complete", "flip", "announce"} => Playable(GenOf(u))'
      BY DEF Ladder
    <3>1. CASE u = t
      BY <1>6, <2>1, <3>1 DEF Playable
    <3>2. CASE u # t
      BY <1>6, <2>1, <2>2, <3>2 DEF IInv, Ladder, Playable
    <3> QED
      BY <3>1, <3>2
  <2>4. AnnouncedBefore'
    <3> SUFFICES ASSUME NEW u \in Tokens, JobOf(u)'[1] = "package", execs'[u].pc = "announce"
                 PROVE  ReadyNotice \in outbox' \cup notices'
      BY DEF AnnouncedBefore
    <3> QED
      BY <1>6, <2>1 DEF IInv, AnnouncedBefore
  <2>5. \A u \in Tokens : Accepting(u)' => Accepting(u)
    BY <2>1 DEF Accepting
  <2> QED
    BY <2>3, <2>4, <2>5
<1>7. CASE PackageClaim(t)
  BY <1>7, ClaimsPreserve DEF PackageClaim
<1>8. CASE PackageVerify(t)
  <2>1. CASE GenOf(t) \in playlists /\ UNCHANGED steps /\ StillOn(t, "upload")
    <3>1. UNCHANGED <<video, rendered, store, messages, parking, others, published>>
      BY <1>8 DEF PackageVerify
    <3>2. Ladder' /\ AnnouncedBefore' /\ \A u \in Tokens : Accepting(u)' => Accepting(u)
      BY <1>6, <2>1, <3>1
    <3>3. TypeOK'
      BY <1>1, <1>2, <1>5, <2>1, <3>1, GoingOnTypes
    <3>4. PublishedPlays' /\ NoticeOfPublished' /\ PublishedOnce' /\ AcceptedOnce'
      BY <3>1, <3>2
      DEF IInv, PublishedPlays, NoticeOfPublished, PublishedOnce, AcceptedOnce, Unpublished, Playable
    <3> QED
      BY <3>2, <3>3, <3>4 DEF IInv
  <2>2. CASE Settle(t, "transient")
             /\ SetStep("package", IF Holds(steps["package"], t) THEN Failed(steps["package"])
                                   ELSE steps["package"])
    <3>1. steps' \in [{"probe", "package"} -> StepRows(Tokens \cup {NoToken})]
      BY <1>1, <2>2, StepWrites
    <3> QED
      BY <1>2, <1>8, <2>2, <3>1, QuietPreserves DEF PackageVerify, Quietly
  <2> QED
    BY <1>8, <2>1, <2>2 DEF PackageVerify
<1>9. CASE PackageUpload(t)
  <2>1. /\ UNCHANGED <<database, playlists, messages, parking, others, published>>
        /\ masters' = masters \cup {GenOf(t)} /\ StillOn(t, "complete")
        /\ JobOf(t)[1] = "package" /\ execs[t].pc = "upload"
    BY <1>9 DEF PackageUpload, At
  <2>2. GenOf(t) \in playlists /\ GenOf(t) \in Gens
    BY <1>4, <2>1 DEF IInv, Ladder
  <2>3. Ladder' /\ AnnouncedBefore' /\ \A u \in Tokens : Accepting(u)' => Accepting(u)
    BY <1>6, <2>1, <2>2
  <2>4. TypeOK'
    BY <1>1, <1>2, <1>5, <2>1, <2>2, GoingOnTypes DEF database
  <2>5. PublishedPlays' /\ NoticeOfPublished' /\ PublishedOnce' /\ AcceptedOnce'
    BY <2>1, <2>3
    DEF IInv, PublishedPlays, NoticeOfPublished, PublishedOnce, AcceptedOnce, Unpublished, Playable,
        database
  <2> QED
    BY <2>3, <2>4, <2>5 DEF IInv
<1>10. CASE PackageComplete(t)
  <2>1. CASE Settle(t, "ok") /\ UNCHANGED steps
    BY <1>10, <2>1, FencedPreserves DEF PackageComplete, Completes
  <2>2. CASE SetStep("package", Completed(steps["package"])) /\ StillOn(t, "flip")
    <3>1. /\ UNCHANGED <<video, rendered, store, messages, parking, others, published>>
          /\ JobOf(t)[1] = "package" /\ execs[t].pc = "complete"
      BY <1>10 DEF PackageComplete, Completes, At
    <3>2. GenOf(t) \in playlists /\ GenOf(t) \in masters
      BY <3>1 DEF IInv, Ladder, Playable
    <3>3. Ladder' /\ AnnouncedBefore' /\ \A u \in Tokens : Accepting(u)' => Accepting(u)
      BY <1>6, <2>2, <3>1, <3>2
    <3>4. TypeOK'
      BY <1>1, <1>2, <1>5, <2>2, <3>1, GoingOnTypes, StepWrites
    <3>5. PublishedPlays' /\ NoticeOfPublished' /\ PublishedOnce' /\ AcceptedOnce'
      BY <3>1, <3>3
      DEF IInv, PublishedPlays, NoticeOfPublished, PublishedOnce, AcceptedOnce, Unpublished, Playable
    <3> QED
      BY <3>3, <3>4, <3>5 DEF IInv
  <2> QED
    BY <1>10, <2>1, <2>2 DEF PackageComplete, Completes
<1>11. CASE PackageFlip(t)
  <2>1. CASE video.status # "PROCESSING" /\ UNCHANGED <<video, outbox, published>> /\ Settle(t, "ok")
    BY <1>11, <2>1, FencedPreserves DEF PackageFlip
  <2>2. CASE /\ Transition({"PROCESSING"}, "READY")
             /\ outbox' = outbox \cup {ReadyNotice}
             /\ published' = [published EXCEPT ![GenOf(t)] = @ + 1]
             /\ StillOn(t, "announce")
    <3>1. /\ UNCHANGED <<steps, rendered, store, notices, parking, others>>
          /\ JobOf(t)[1] = "package" /\ execs[t].pc = "flip"
      BY <1>11 DEF PackageFlip, At
    <3>2. GenOf(t) \in Gens /\ GenOf(t) \in playlists /\ GenOf(t) \in masters
      BY <1>4, <3>1 DEF IInv, Ladder, Playable
    <3>3. /\ video.status = "PROCESSING" /\ video'.status = "READY"
          /\ video' \in [status : Statuses, gen : Gens]
      BY <1>2, <2>2 DEF Transition, Statuses
    <3>4. Ladder' /\ AnnouncedBefore' /\ \A u \in Tokens : Accepting(u)' => Accepting(u)
      BY <1>6, <2>2, <3>1, <3>2
    <3>5. Unpublished /\ rendered /\ \A u \in Tokens : ~Accepting(u)
      BY <3>3 DEF IInv, AcceptedOnce
    <3>6. \A g \in Gens : published'[g] = IF g = GenOf(t) THEN 1 ELSE 0
      BY <1>2, <2>2, <3>2, <3>5 DEF Unpublished
    <3>7. TypeOK'
      <4>1. published' \in [Gens -> Nat] /\ outbox' \subseteq Jobs \cup Notices
        BY <1>2, <1>3, <2>2, <3>2
      <4> QED
        BY <1>1, <1>2, <1>5, <2>2, <3>1, <3>3, <4>1, GoingOnTypes
    <3>8. PublishedPlays' /\ NoticeOfPublished' /\ PublishedOnce'
      BY <3>1, <3>2, <3>6 DEF PublishedPlays, NoticeOfPublished, PublishedOnce, Playable
    <3>9. AcceptedOnce'
      BY <3>1, <3>3, <3>4, <3>5 DEF AcceptedOnce
    <3> QED
      BY <3>4, <3>7, <3>8, <3>9 DEF IInv
  <2> QED
    BY <1>11, <2>1, <2>2 DEF PackageFlip
<1>12. CASE PackageAnnounce(t)
  <2>1. ReadyNotice \in outbox \cup notices
    BY <1>12 DEF PackageAnnounce, At, IInv, AnnouncedBefore
  <2> QED
    BY <1>2, <1>3, <1>12, <2>1, QuietPreserves DEF PackageAnnounce, Quietly, database
<1> QED
  BY <1>7, <1>8, <1>9, <1>10, <1>11, <1>12 DEF PackageStage

-----------------------------------------------------------------------------
(* What is not a step of a stage leaves the executions at their places, or *)
(* ends one.                                                               *)
LEMMA AsidePreserves ==
  ASSUME IInv, TypeOK',
         UNCHANGED execs \/ \E t \in Tokens : execs' = [execs EXCEPT ![t] = Idle],
         playlists \subseteq playlists', UNCHANGED masters,
         ReadyNotice \in (outbox \cup notices)' <=> ReadyNotice \in outbox \cup notices,
         video.status' = "PROCESSING" => video.status = "PROCESSING",
         UNCHANGED <<rendered, published>>
  PROVE  IInv'
<1>1. \A t \in Tokens : execs'[t] = execs[t] \/ execs'[t].pc \in Harmless
  BY DEF IInv, TypeOK, Idle, Harmless
<1> QED
  BY <1>1, FramePreserves DEF IInv

(* Workers that take up jobs, err, stall and die.                          *)
LEMMA WorkerPreserves ==
  ASSUME IInv,
         \/ \E j \in Jobs : StartJob(j)
         \/ \E t \in Tokens : StageErrs(t) \/ Stall(t) \/ Crash(t)
  PROVE  IInv'
<1>1. TypeOK
  BY DEF IInv
<1> USE DEF database, store, messages, listeners, others
<1>2. ASSUME NEW j \in Jobs, StartJob(j) PROVE IInv'
  <2>1. PICK t \in FreshTokens :
          /\ jobs' = [jobs EXCEPT ![j] = Taken(@, t)]
          /\ execs' = [execs EXCEPT ![t] = [job |-> j,
                         pc |-> IF j[1] = "probe" THEN "start" ELSE "claim"]]
    BY <1>2 DEF StartJob
  <2>2. t \in Tokens /\ UNCHANGED <<database, store, messages, listeners, others, published>>
    BY <1>2 DEF StartJob, FreshTokens
  <2> DEFINE e == [job |-> j, pc |-> IF j[1] = "probe" THEN "start" ELSE "claim"]
  <2>3. e \in Execs /\ e.pc \in Harmless
    BY DEF Execs, ProbePlaces, Harmless
  <2> HIDE DEF e
  <2>4. execs' = [execs EXCEPT ![t] = e]
    BY <2>1 DEF e
  <2>5. Taken(jobs[j], t) \in StageJobs(Tokens)
    <3>1. jobs[j] \in StageJobs(Tokens)
      BY <1>1 DEF TypeOK
    <3> QED
      BY <2>2, <3>1 DEF Taken, StageJobs, JobStates
  <2>6. TypeOK'
    BY <1>1, <2>1, <2>2, <2>3, <2>4, <2>5 DEF TypeOK, Execs
  <2>7. \A u \in Tokens : execs'[u] = execs[u] \/ execs'[u].pc \in Harmless
    BY <1>1, <2>2, <2>3, <2>4 DEF TypeOK
  <2> QED
    BY <2>2, <2>6, <2>7, FramePreserves DEF IInv
<1>3. ASSUME NEW t \in Tokens, StageErrs(t) PROVE IInv'
  <2>1. Quietly(t)
    BY <1>3 DEF StageErrs, Quietly
  <2> QED
    BY <1>1, <1>3, <2>1, QuietPreserves DEF StageErrs, TypeOK
<1>4. ASSUME NEW t \in Tokens, Owns(t) PROVE JobOf(t) \in Jobs
  BY <1>1, <1>4 DEF Owns, TypeOK, JobOf
<1>5. ASSUME faults < MaxFaults, faults' = faults + 1 PROVE faults' \in 0..MaxFaults
  BY <1>1, <1>5, PipelineAssumption DEF TypeOK
<1>6. ASSUME NEW t \in Tokens, Stall(t) PROVE IInv'
  <2>1. /\ jobs' \in [Jobs -> StageJobs(Tokens)] /\ reports' \in [Jobs -> Nat]
        /\ faults' \in 0..MaxFaults
    BY <1>1, <1>4, <1>5, <1>6, ExpiredTypes DEF Stall
  <2>2. UNCHANGED <<database, store, execs, messages, parking, sweep, asked, published>>
    BY <1>6 DEF Stall
  <2>3. TypeOK'
    BY <1>1, <2>1, <2>2 DEF TypeOK
  <2> QED
    BY <2>2, <2>3, AsidePreserves
<1>7. ASSUME NEW t \in Tokens, Crash(t) PROVE IInv'
  <2>1. /\ jobs' \in [Jobs -> StageJobs(Tokens)] /\ reports' \in [Jobs -> Nat]
        /\ faults' \in 0..MaxFaults
    <3>1. CASE Owns(t)
      BY <1>1, <1>4, <1>5, <1>7, <3>1, ExpiredTypes DEF Crash
    <3>2. CASE ~Owns(t)
      BY <1>1, <1>5, <1>7, <3>2 DEF Crash, Working, TypeOK
    <3> QED
      BY <3>1, <3>2
  <2>2. UNCHANGED <<database, store, messages, parking, sweep, asked, published>>
        /\ execs' = [execs EXCEPT ![t] = Idle]
    BY <1>7 DEF Crash
  <2>3. execs' \in [Tokens -> Execs]
    BY <1>1, <2>2, IdleTypes
  <2>4. TypeOK'
    BY <1>1, <2>1, <2>2, <2>3 DEF TypeOK, Execs
  <2> QED
    BY <2>2, <2>4, AsidePreserves
<1> QED
  BY <1>2, <1>3, <1>6, <1>7

(* The transcodes: they release the package job, or fail it.               *)
LEMMA EncodesPreserve ==
  ASSUME IInv, NEW g \in Gens, Encodes(g)
  PROVE  IInv'
<1>1. TypeOK
  BY DEF IInv
<1> USE DEF database, store, messages, listeners, others
<1>2. Package(g) \in Jobs
  BY DEF Package, Jobs
<1>3. /\ UNCHANGED <<video, steps, rendered, masters, execs, outbox, notices, parking, sweep, asked,
                     published>>
      /\ playlists \subseteq playlists' /\ playlists' \subseteq Gens
  BY <1>1 DEF Encodes, EncodesDone, EncodesFenced, EncodesLate, EncodesFail, TypeOK
<1>4. jobs' \in [Jobs -> StageJobs(Tokens)]
  <2>1. Ready(jobs[Package(g)]) \in StageJobs(Tokens)
    BY <1>1, <1>2 DEF Ready, TypeOK, StageJobs, JobStates
  <2>2. Answered(jobs[Package(g)], "permanent") \in StageJobs(Tokens)
    BY <1>1, <1>2, AnsweredIsJob DEF TypeOK
  <2>3. \/ UNCHANGED jobs
        \/ jobs' = [jobs EXCEPT ![Package(g)] = Ready(@)]
        \/ jobs' = [jobs EXCEPT ![Package(g)] = Answered(@, "permanent")]
    BY DEF Encodes, EncodesDone, EncodesFenced, EncodesLate, EncodesFail
  <2> QED
    BY <1>1, <1>2, <2>1, <2>2, <2>3 DEF TypeOK
<1>5. reports' \in [Jobs -> Nat]
  <2>1. UNCHANGED reports \/ reports' = [reports EXCEPT ![Package(g)] = @ + 1]
    BY DEF Encodes, EncodesDone, EncodesFenced, EncodesLate, EncodesFail
  <2> QED
    BY <1>1, <1>2, <2>1 DEF TypeOK
<1>6. faults' \in 0..MaxFaults
  <2>1. UNCHANGED faults \/ (faults < MaxFaults /\ faults' = faults + 1)
    BY DEF Encodes, EncodesDone, EncodesFenced, EncodesLate, EncodesFail
  <2> QED
    BY <1>1, <2>1, PipelineAssumption DEF TypeOK
<1>7. TypeOK'
  BY <1>1, <1>3, <1>4, <1>5, <1>6 DEF TypeOK
<1> QED
  BY <1>3, <1>7, AsidePreserves

(* The listeners, the relay, the reconcilers and the owner.                *)
LEMMA AroundPreserves ==
  ASSUME IInv,
         \/ Listeners \/ \E m \in Jobs \cup Notices : RelayPublish(m)
         \/ Housekeeping \/ SweepUploaded \/ Owner
  PROVE  IInv'
<1>1. TypeOK
  BY DEF IInv
<1> USE DEF database, store, messages, listeners, others
<1>2. /\ video \in [status : Statuses, gen : Gens]
      /\ ReadyNotice # FailedNotice /\ {ReadyNotice, FailedNotice} \subseteq Notices
  BY <1>1 DEF TypeOK, ReadyNotice, FailedNotice, Notices
<1>3. ASSUME NEW to \in Statuses, NEW from, Transition(from, to)
      PROVE  video' \in [status : Statuses, gen : Gens] /\ video'.status = to
  BY <1>2, <1>3 DEF Transition
<1>4. ASSUME NEW j \in Jobs, ListenerMarks(j) PROVE IInv'
  <2>1. /\ j[1] \in {"probe", "package"} /\ j[2] \in Gens
        /\ UNCHANGED <<video, rendered, store, jobs, execs, messages, others, published>>
    BY <1>4 DEF ListenerMarks, Jobs
  <2>2. steps' \in [{"probe", "package"} -> StepRows(Tokens \cup {NoToken})]
    <3>1. CASE SetStep(j[1], MarkedDead(steps[j[1]]))
      <4>1. steps[j[1]] \in StepRows(Tokens \cup {NoToken})
        BY <1>1, <2>1 DEF TypeOK
      <4>2. MarkedDead(steps[j[1]]) \in StepRows(Tokens \cup {NoToken})
        BY <4>1 DEF MarkedDead, Ended, StepRows, StepStatus
      <4> QED
        BY <1>1, <3>1, <4>2 DEF TypeOK, SetStep
    <3>2. CASE UNCHANGED steps
      BY <1>1, <3>2 DEF TypeOK
    <3> QED
      BY <1>4, <3>1, <3>2 DEF ListenerMarks
  <2>3. reports' \in [Jobs -> Nat]
    BY <1>1, <1>4 DEF ListenerMarks, TypeOK
  <2>4. parking' \in [Gens -> Nat]
    BY <1>1, <1>4, <2>1 DEF ListenerMarks, TypeOK
  <2>5. TypeOK'
    BY <1>1, <2>1, <2>2, <2>3, <2>4 DEF TypeOK
  <2> QED
    BY <2>1, <2>5, AsidePreserves
<1>5. ASSUME NEW g \in Gens, ListenerFlips(g) PROVE IInv'
  <2>1. UNCHANGED <<steps, rendered, store, jobs, execs, reports, others, published>>
    BY <1>5 DEF ListenerFlips
  <2>2. video' \in [status : Statuses, gen : Gens]
        /\ (video'.status = "PROCESSING" => video.status = "PROCESSING")
    BY <1>2, <1>3, <1>5 DEF ListenerFlips, Statuses
  <2>3. /\ outbox' \in {outbox, outbox \cup {FailedNotice}}
        /\ notices' \in {notices, notices \cup {FailedNotice}}
    BY <1>5 DEF ListenerFlips
  <2>4. parking' \in [Gens -> Nat]
    BY <1>1, <1>5 DEF ListenerFlips, TypeOK
  <2>5. TypeOK'
    BY <1>1, <1>2, <2>1, <2>2, <2>3, <2>4 DEF TypeOK
  <2> QED
    BY <1>2, <2>1, <2>2, <2>3, <2>5, AsidePreserves
<1>6. ASSUME NEW m \in Jobs \cup Notices, RelayPublish(m) PROVE IInv'
  <2>1. /\ m \in outbox /\ outbox' \in {outbox, outbox \ {m}}
        /\ notices' = IF m \in Notices THEN notices \cup {m} ELSE notices
        /\ UNCHANGED <<database, store, execs, listeners, others, published>>
    BY <1>6 DEF RelayPublish
  <2>2. jobs' \in [Jobs -> StageJobs(Tokens)]
    <3>1. CASE m \in Notices
      BY <1>1, <1>6, <3>1 DEF RelayPublish, TypeOK
    <3>2. CASE m \notin Notices
      <4>1. m \in Jobs /\ "waiting" \in JobStates /\ jobs' = [jobs EXCEPT ![m] = Added(@, "waiting")]
        BY <1>6, <3>2 DEF RelayPublish, JobStates
      <4>2. jobs[m] \in StageJobs(Tokens)
        BY <1>1, <4>1 DEF TypeOK
      <4>3. Added(jobs[m], "waiting") \in StageJobs(Tokens)
        BY <4>1, <4>2 DEF Added, StageJobs
      <4> QED
        BY <1>1, <4>1, <4>3 DEF TypeOK
    <3> QED
      BY <3>1, <3>2
  <2>3. TypeOK'
    BY <1>1, <2>1, <2>2 DEF TypeOK
  <2>4. ReadyNotice \in (outbox \cup notices)' <=> ReadyNotice \in outbox \cup notices
    BY <1>2, <2>1
  <2> QED
    BY <2>1, <2>3, <2>4, AsidePreserves
<1>7. CASE Housekeeping
  <2>1. /\ UNCHANGED <<steps, rendered, store, jobs, execs, messages, listeners, asked, faults, published>>
        /\ sweep' \in {"idle", "looking", "condemned"}
    BY <1>7 DEF Housekeeping, SweepScan, SweepLook, SweepFlip
  <2>2. UNCHANGED video \/ Transition({"PROCESSING"}, "FAILED")
    BY <1>7 DEF Housekeeping, SweepScan, SweepLook, SweepFlip
  <2>3. video' \in [status : Statuses, gen : Gens]
        /\ (video'.status = "PROCESSING" => video.status = "PROCESSING")
    BY <1>2, <1>3, <2>2 DEF Statuses
  <2>4. TypeOK'
    BY <1>1, <2>1, <2>3 DEF TypeOK
  <2> QED
    BY <2>1, <2>3, <2>4, AsidePreserves
<1>8. CASE SweepUploaded
  <2>1. Probe(video.gen) \in Jobs /\ "waiting" \in JobStates
    BY <1>2 DEF Probe, Jobs, JobStates
  <2>2. Added(jobs[Probe(video.gen)], "waiting") \in StageJobs(Tokens)
    BY <1>1, <2>1 DEF Added, TypeOK, StageJobs
  <2>3. jobs' \in [Jobs -> StageJobs(Tokens)]
    BY <1>1, <1>8, <2>1, <2>2 DEF SweepUploaded, TypeOK
  <2>4. TypeOK'
    BY <1>1, <1>8, <2>3 DEF SweepUploaded, TypeOK
  <2> QED
    BY <1>8, <2>4, AsidePreserves DEF SweepUploaded
<1>9. CASE SoftDelete
  <2>1. UNCHANGED <<steps, rendered, store, jobs, execs, messages, listeners, others, published>>
    BY <1>9 DEF SoftDelete
  <2>2. video' \in [status : Statuses, gen : Gens] /\ video'.status = "DELETED"
    BY <1>3, <1>9 DEF SoftDelete, Statuses
  <2>3. TypeOK'
    BY <1>1, <2>1, <2>2 DEF TypeOK
  <2> QED
    BY <2>1, <2>2, <2>3, AsidePreserves
<1>10. ASSUME NEW u \in Users, AskReprocess(u) PROVE IInv'
  <2>1. video.gen + 1 \in Gens
    BY <1>2, <1>10, PipelineAssumption DEF AskReprocess, Gens
  <2>2. TypeOK'
    BY <1>1, <1>10, <2>1 DEF AskReprocess, TypeOK
  <2> QED
    BY <1>10, <2>2, AsidePreserves DEF AskReprocess
<1>11. ASSUME NEW u \in Users, CommitReprocess(u) PROVE IInv'
  <2>1. /\ asked[u] \in Gens
        /\ UNCHANGED <<steps, rendered, store, jobs, execs, notices, listeners, sweep, faults, published>>
        /\ asked' = [asked EXCEPT ![u] = 0]
        /\ \/ video' = [status |-> "PROBING", gen |-> asked[u]] /\ outbox' = outbox \cup {Probe(asked[u])}
           \/ UNCHANGED <<video, outbox>>
    BY <1>1, <1>11 DEF CommitReprocess, TypeOK
  <2>2. Probe(asked[u]) \in Jobs /\ Probe(asked[u]) # ReadyNotice
    BY <2>1 DEF Probe, Jobs, ReadyNotice
  <2>3. /\ video' \in [status : Statuses, gen : Gens]
        /\ (video'.status = "PROCESSING" => video.status = "PROCESSING")
    BY <1>2, <2>1 DEF Statuses
  <2>4. TypeOK'
    BY <1>1, <2>1, <2>2, <2>3 DEF TypeOK
  <2> QED
    BY <2>1, <2>2, <2>3, <2>4, AsidePreserves
<1> QED
  BY <1>4, <1>5, <1>6, <1>7, <1>8, <1>9, <1>10, <1>11 DEF Listeners, Owner

-----------------------------------------------------------------------------
(* The invariant holds at first.                                           *)
LEMMA InitEstablishes == Init => IInv
<1> SUFFICES ASSUME Init PROVE IInv
  OBVIOUS
<1>1. TypeOK
  <2>1. 1 \in Gens /\ Probe(1) \in Jobs
    BY PipelineAssumption DEF Gens, Probe, Jobs
  <2>2. NoStep(NoToken) \in StepRows(Tokens \cup {NoToken})
    BY DEF NoStep, StepRows, StepStatus
  <2>3. NewJob \in StageJobs(Tokens)
    BY DEF NewJob, StageJobs, JobStates
  <2>4. 0 \in 0..MaxFaults
    BY PipelineAssumption
  <2> QED
    BY <2>1, <2>2, <2>3, <2>4 DEF Init, TypeOK, Statuses, Idle
<1>2. \A t \in Tokens : execs[t].pc = "idle"
  BY DEF Init, Idle
<1>3. Unpublished /\ PublishedPlays /\ PublishedOnce
  BY DEF Init, Unpublished, PublishedPlays, PublishedOnce
<1>4. NoticeOfPublished
  BY DEF Init, NoticeOfPublished, ReadyNotice, Probe
<1> QED
  BY <1>1, <1>2, <1>3, <1>4
  DEF Init, IInv, Ladder, AnnouncedBefore, AcceptedOnce, Accepting

(* Every step preserves the invariant.                                     *)
LEMMA StepPreserves == IInv /\ [Next]_vars => IInv'
<1> SUFFICES ASSUME IInv, [Next]_vars PROVE IInv'
  OBVIOUS
<1>1. CASE UNCHANGED vars
  BY <1>1
  DEF vars, IInv, TypeOK, Ladder, AnnouncedBefore, PublishedPlays, NoticeOfPublished, AcceptedOnce,
      PublishedOnce, Accepting, Unpublished, Playable, JobOf, GenOf
<1>2. CASE Next
  BY <1>2, ProbePreserves, PackagePreserves, WorkerPreserves, EncodesPreserve, AroundPreserves
  DEF Next, Stages
<1> QED
  BY <1>1, <1>2

-----------------------------------------------------------------------------
(* The inductive invariant holds in every reachable state of the pipeline. *)
THEOREM Inductive == Spec => []IInv
  BY InitEstablishes, StepPreserves, PTL DEF Spec

(* Type correctness of the pipeline.                                       *)
THEOREM TypeCorrect == Spec => []TypeOK
<1>1. IInv => TypeOK
  BY DEF IInv
<1> QED
  BY <1>1, Inductive, PTL

(* No generation turns READY twice (package.ts, the flip), whoever stalls, *)
(* dies, retries or asks for a reprocess.                                  *)
THEOREM GenerationsPublishOnce == Spec => []PublishedOnce
<1>1. IInv => PublishedOnce
  BY DEF IInv
<1> QED
  BY <1>1, Inductive, PTL

(* The owner's notice is of a READY that happened and of a ladder that     *)
(* plays.                                                                  *)
THEOREM NoticeIsTrue == Spec => []NoticeFollowsReady
<1>1. IInv => NoticeFollowsReady
  BY DEF IInv, NoticeOfPublished, PublishedPlays, NoticeFollowsReady
<1> QED
  BY <1>1, Inductive, PTL

-----------------------------------------------------------------------------
(* The refinement of VideoLifecycle.  Each step either leaves the status   *)
(* and the notice alone, moves the status by an edge that asks nothing of  *)
(* the ladder, or publishes.                                               *)
Announced == ReadyNotice \in outbox \cup notices
Plays == \E g \in Gens : Playable(g)

Stands ==
  /\ video'.status = video.status /\ (Announced' <=> Announced)
  /\ playlists \subseteq playlists' /\ masters \subseteq masters'

Edge(from, to) == video.status \in from /\ video'.status = to

Moves ==
  /\ UNCHANGED store /\ (Announced' <=> Announced)
  /\ \/ Edge({"UPLOADED"}, "PROBING")
     \/ Edge({"PROBING"}, "PROCESSING")
     \/ Edge({"PROBING", "PROCESSING"}, "FAILED")
     \/ Edge({"READY", "FAILED", "PROCESSING"}, "PROBING")
     \/ Edge(Statuses \ {"DELETED"}, "DELETED")

Publishes == UNCHANGED store /\ Plays /\ Edge({"PROCESSING"}, "READY") /\ Announced'

(* A compare-and-set that applied is an edge.                              *)
LEMMA TransitionIsEdge ==
  ASSUME TypeOK, NEW from, NEW to, Transition(from, to)
  PROVE  Edge(from, to)
  BY DEF TypeOK, Transition, Edge

(* What a step of the probe stage is to the viewer.                        *)
LEMMA ProbeStageMaps ==
  ASSUME IInv, NEW t \in Tokens, ProbeStage(t)
  PROVE  Stands \/ Moves
<1>1. TypeOK /\ ReadyNotice # FailedNotice
  BY DEF IInv, ReadyNotice, FailedNotice
<1>2. UNCHANGED store /\ outbox' = outbox /\ (Announced' <=> Announced)
  BY <1>1 DEF ProbeStage, ProbeStart, ProbeClaim, Claims, ProbeReject, ProbeRejected, ProbeRows,
    ProbeComplete, Completes, ProbeCommit, ProbeDispatch, messages, Announced
<1>3. \/ UNCHANGED video
      \/ Transition({"UPLOADED"}, "PROBING") \/ Transition({"PROBING"}, "FAILED")
      \/ Transition({"PROBING"}, "PROCESSING")
  BY DEF ProbeStage, ProbeStart, ProbeClaim, Claims, ProbeReject, ProbeRejected, ProbeRows,
    ProbeComplete, Completes, ProbeCommit, ProbeDispatch, database
<1>4. CASE UNCHANGED video
  BY <1>2, <1>4 DEF Stands, store
<1>5. CASE ~UNCHANGED video
  <2>1. \/ Edge({"UPLOADED"}, "PROBING") \/ Edge({"PROBING"}, "FAILED")
        \/ Edge({"PROBING"}, "PROCESSING")
    BY <1>1, <1>3, <1>5, TransitionIsEdge
  <2> QED
    BY <1>2, <2>1 DEF Moves, Edge
<1> QED
  BY <1>4, <1>5

(* What a step of the package stage is to the viewer.                      *)
LEMMA PackageStageMaps ==
  ASSUME IInv, NEW t \in Tokens, PackageStage(t)
  PROVE  Stands \/ Publishes
<1>1. TypeOK
  BY DEF IInv
<1>2. CASE PackageFlip(t)
  <2>1. CASE UNCHANGED <<video, outbox, published>>
    BY <1>2, <2>1 DEF PackageFlip, Stands, Announced, store
  <2>2. CASE Transition({"PROCESSING"}, "READY") /\ outbox' = outbox \cup {ReadyNotice}
    <3>1. At(t, "package", "flip") /\ UNCHANGED store
      BY <1>2 DEF PackageFlip
    <3>2. GenOf(t) \in Gens /\ Playable(GenOf(t))
      BY <1>1, <3>1, PlacedHasJob DEF IInv, Ladder, At
    <3>3. Edge({"PROCESSING"}, "READY")
      BY <1>1, <2>2, TransitionIsEdge
    <3> QED
      BY <2>2, <3>1, <3>2, <3>3 DEF Publishes, Plays, Announced
  <2> QED
    BY <1>2, <2>1, <2>2 DEF PackageFlip
<1>3. CASE PackageAnnounce(t)
  <2>1. Announced /\ Announced'
    BY <1>3 DEF PackageAnnounce, At, IInv, AnnouncedBefore, Announced
  <2> QED
    BY <1>3, <2>1 DEF PackageAnnounce, Stands, database, store
<1>4. CASE PackageClaim(t) \/ PackageVerify(t) \/ PackageUpload(t) \/ PackageComplete(t)
  BY <1>4 DEF PackageClaim, Claims, PackageVerify, PackageUpload, PackageComplete, Completes,
    Stands, Announced, database, store, messages
<1> QED
  BY <1>2, <1>3, <1>4 DEF PackageStage

(* What workers, transcodes, listeners, the relay, the reconcilers and the *)
(* owner are to the viewer.                                                *)
LEMMA AroundMaps ==
  ASSUME IInv,
         \/ \E j \in Jobs : StartJob(j)
         \/ \E t \in Tokens : StageErrs(t) \/ Stall(t) \/ Crash(t)
         \/ \E g \in Gens : Encodes(g)
         \/ Listeners \/ \E m \in Jobs \cup Notices : RelayPublish(m)
         \/ Housekeeping \/ SweepUploaded \/ Owner
  PROVE  Stands \/ Moves
<1>1. /\ TypeOK /\ ReadyNotice # FailedNotice /\ ReadyNotice \in Notices
  BY DEF IInv, ReadyNotice, FailedNotice, Notices
<1> USE DEF database, store, messages, listeners, others
<1>2. CASE \/ \E j \in Jobs : StartJob(j)
           \/ \E t \in Tokens : StageErrs(t) \/ Stall(t) \/ Crash(t)
           \/ \E g \in Gens : Encodes(g)
           \/ SweepUploaded
  BY <1>2 DEF StartJob, StageErrs, Stall, Crash, Encodes, EncodesDone, EncodesFenced, EncodesLate,
    EncodesFail, SweepUploaded, Stands, Announced
<1>3. ASSUME NEW j \in Jobs, ListenerMarks(j) PROVE Stands
  BY <1>3 DEF ListenerMarks, Stands, Announced
<1>4. ASSUME NEW g \in Gens, ListenerFlips(g) PROVE Stands \/ Moves
  <2>1. UNCHANGED store /\ (Announced' <=> Announced)
    BY <1>1, <1>4 DEF ListenerFlips, Announced
  <2>2. UNCHANGED video \/ Transition({"PROCESSING", "PROBING"}, "FAILED")
    BY <1>4 DEF ListenerFlips
  <2>3. UNCHANGED video \/ Edge({"PROCESSING", "PROBING"}, "FAILED")
    BY <1>1, <2>2, TransitionIsEdge
  <2> QED
    BY <2>1, <2>3 DEF Stands, Moves, Edge
<1>5. ASSUME NEW m \in Jobs \cup Notices, RelayPublish(m) PROVE Stands
  <2>1. Announced' <=> Announced
    BY <1>1, <1>5 DEF RelayPublish, Announced
  <2> QED
    BY <1>5, <2>1 DEF RelayPublish, Stands
<1>6. CASE Housekeeping
  <2>1. UNCHANGED store /\ (Announced' <=> Announced)
    BY <1>6 DEF Housekeeping, SweepScan, SweepLook, SweepFlip, Announced
  <2>2. UNCHANGED video \/ Transition({"PROCESSING"}, "FAILED")
    BY <1>6 DEF Housekeeping, SweepScan, SweepLook, SweepFlip
  <2>3. UNCHANGED video \/ Edge({"PROCESSING"}, "FAILED")
    BY <1>1, <2>2, TransitionIsEdge
  <2> QED
    BY <2>1, <2>3 DEF Stands, Moves, Edge
<1>7. CASE SoftDelete
  <2>1. Edge(Statuses \ {"DELETED"}, "DELETED")
    BY <1>1, <1>7, TransitionIsEdge DEF SoftDelete
  <2> QED
    BY <1>7, <2>1 DEF SoftDelete, Moves, Announced
<1>8. ASSUME NEW u \in Users, AskReprocess(u) PROVE Stands
  BY <1>8 DEF AskReprocess, Stands, Announced
<1>9. ASSUME NEW u \in Users, CommitReprocess(u) PROVE Stands \/ Moves
  <2>1. Probe(asked[u]) # ReadyNotice
    BY DEF Probe, ReadyNotice
  <2>2. UNCHANGED store /\ (Announced' <=> Announced)
    BY <1>9, <2>1 DEF CommitReprocess, Announced
  <2>3. UNCHANGED video \/ Edge({"READY", "FAILED", "PROCESSING"}, "PROBING")
    BY <1>9 DEF CommitReprocess, Reprocessable, Edge
  <2> QED
    BY <2>2, <2>3 DEF Stands, Moves
<1> QED
  BY <1>2, <1>3, <1>4, <1>5, <1>6, <1>7, <1>8, <1>9 DEF Listeners, Owner

(* Each of the three is a step of the lifecycle or a stutter of it.        *)
LEMMA StandsMaps == Stands => [Promise!Next]_(Promise!lifecycle)
<1> SUFFICES ASSUME Stands PROVE [Promise!Next]_(Promise!lifecycle)
  OBVIOUS
<1>1. Plays => Plays'
  BY DEF Stands, Plays, Playable
<1>2. video.status' = video.status /\ Announced' = Announced
  BY DEF Stands, Announced
<1>3. CASE Plays' = Plays
  BY <1>2, <1>3 DEF Promise!lifecycle, Announced, Plays
<1>4. CASE Plays' /\ ~Plays
  <2>1. Promise!Encode
    BY <1>2, <1>4 DEF Promise!Encode, Announced, Plays
  <2> QED
    BY <2>1 DEF Promise!Next
<1> QED
  BY <1>1, <1>3, <1>4 DEF Plays

(* A change of the status along an edge is a step of the promise.          *)
LEMMA MovesMaps == Moves => Promise!Next
<1> SUFFICES ASSUME Moves PROVE Promise!Next
  OBVIOUS
<1>1. Announced' = Announced /\ Plays' = Plays
  BY DEF Moves, Announced, Plays, Playable, store
<1>2. CASE Edge({"UPLOADED"}, "PROBING")
  BY <1>1, <1>2 DEF Promise!Next, Promise!Probe, Promise!Move, Edge, Announced, Plays
<1>3. CASE Edge({"PROBING"}, "PROCESSING")
  BY <1>1, <1>3 DEF Promise!Next, Promise!Accept, Promise!Move, Edge, Announced, Plays
<1>4. CASE Edge({"PROBING", "PROCESSING"}, "FAILED")
  BY <1>1, <1>4 DEF Promise!Next, Promise!Fail, Promise!Move, Edge, Announced, Plays
<1>5. CASE Edge({"READY", "FAILED", "PROCESSING"}, "PROBING")
  BY <1>1, <1>5
  DEF Promise!Next, Promise!Reprocess, Promise!Reprocessable, Promise!Move, Edge, Announced, Plays
<1>6. CASE Edge(Statuses \ {"DELETED"}, "DELETED")
  BY <1>1, <1>6
  DEF Promise!Next, Promise!Delete, Promise!Deletable, Promise!Statuses, Promise!Move, Statuses, Edge,
      Announced, Plays
<1> QED
  BY <1>2, <1>3, <1>4, <1>5, <1>6 DEF Moves

(* A publication over a playing ladder is a step of the promise.           *)
LEMMA PublishesMaps == Publishes => Promise!Next
<1> SUFFICES ASSUME Publishes PROVE Promise!Next
  OBVIOUS
<1>1. Plays /\ Plays' = Plays /\ Announced' = TRUE
  BY DEF Publishes, Announced, Plays, Playable, store
<1>2. Promise!Publish
  BY <1>1 DEF Publishes, Promise!Publish, Promise!Move, Edge, Announced, Plays
<1> QED
  BY <1>2 DEF Promise!Next

(* The pipeline implements VideoLifecycle: READY only over a ladder that   *)
(* plays and with the owner's notice committed, and no edge between        *)
(* statuses but those the domain rules name.                               *)
THEOREM PipelineKeepsPromise == Spec => KeepsPromise
<1>1. Init => Promise!Init
  <2> SUFFICES ASSUME Init PROVE Promise!Init
    OBVIOUS
  <2>1. video.status = "UPLOADED" /\ (\E g \in Gens : Playable(g)) = FALSE
    BY DEF Init, Playable
  <2>2. (ReadyNotice \in outbox \cup notices) = FALSE
    BY DEF Init, ReadyNotice, Probe
  <2> QED
    BY <2>1, <2>2 DEF Promise!Init
<1>2. IInv /\ [Next]_vars => [Promise!Next]_(Promise!lifecycle)
  <2> SUFFICES ASSUME IInv, [Next]_vars PROVE [Promise!Next]_(Promise!lifecycle)
    OBVIOUS
  <2>1. CASE UNCHANGED vars
    BY <2>1 DEF vars, Promise!lifecycle, Playable
  <2>2. CASE Next
    BY <2>2, ProbeStageMaps, PackageStageMaps, AroundMaps, StandsMaps, MovesMaps, PublishesMaps
    DEF Next, Stages
  <2> QED
    BY <2>1, <2>2
<1> QED
  BY <1>1, <1>2, Inductive, PTL DEF Spec, KeepsPromise, Promise!Spec

(* So a video shown READY plays, and its owner is told (VideoLifecycle).   *)
THEOREM ReadyVideoPlays == Spec => [](video.status = "READY" => Plays /\ Announced)
<1>1. Init => (video.status = "READY" => Plays /\ Announced)
  BY DEF Init
<1>2. IInv /\ (video.status = "READY" => Plays /\ Announced) /\ [Next]_vars
        => (video.status = "READY" => Plays /\ Announced)'
  <2> SUFFICES ASSUME IInv, video.status = "READY" => Plays /\ Announced, [Next]_vars,
                      video.status' = "READY"
               PROVE  Plays' /\ Announced'
    OBVIOUS
  <2>1. CASE UNCHANGED vars
    BY <2>1 DEF vars, Plays, Announced, Playable
  <2>2. CASE Next
    <3>1. Stands \/ Moves \/ Publishes
      BY <2>2, ProbeStageMaps, PackageStageMaps, AroundMaps DEF Next, Stages
    <3> QED
      BY <3>1 DEF Stands, Moves, Publishes, Edge, Plays, Playable, store
  <2> QED
    BY <2>1, <2>2
<1> QED
  BY <1>1, <1>2, Inductive, PTL DEF Spec
=============================================================================
