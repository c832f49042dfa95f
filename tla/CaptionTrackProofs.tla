-------------------------- MODULE CaptionTrackProofs --------------------------
(***************************************************************************)
(* The caption tracks of one video, proved for any number of calls, of     *)
(* workers, of windows and of troubles: the variables keep their types,    *)
(* for which no track takes more than two versions per call, and what the  *)
(* creator wrote onto a ready track stays until she replaces it.           *)
(***************************************************************************)
EXTENDS CaptionTrack, FiniteSetTheorems, TLAPS

-----------------------------------------------------------------------------
(* Calls that may have taken their one version of a track.                 *)
Spent == {k \in Calls : call[k].at \notin {"idle", "start", "edit"}}
Due(row) == IF row.status = "pending" THEN 1 ELSE 0

(* A call takes a version, and the run it asked for one more.              *)
VersionsSuffice ==
  \A t \in Tracks : track[t].status # "unborn" =>
    track[t].version + Due(track[t]) <= 2 * Cardinality(Spent)

(* The track a run was asked for is pending at its version, or is past it. *)
RunOf(t, v) ==
  /\ t \in Tracks
  /\ \/ track[t].version > v
     \/ track[t].version = v /\ track[t].status \in {"pending", "deleted"}

RunsAreAsked ==
  /\ \A v \in Versions : asked[v].track # 0 => RunOf(asked[v].track, v)
  /\ \A v \in Versions, p \in Plans : job[v][p].state # "absent" => asked[v].track # 0
  /\ \A e \in Workers : ~On(e, "idle") => asked[exec[e].v].track # 0
  /\ \A f \in failing : asked[f[1]].track # 0

(* Where a call is tells what it is about.                                 *)
CallsAgree ==
  \A k \in Calls :
    /\ At(k, "start") => call[k].op \in {"generate", "probe"}
    /\ At(k, "start") /\ call[k].track # 0 => call[k].op = "generate"
    /\ call[k].at \in {"edit", "read"} => call[k].op = "edit"
    /\ call[k].at \in {"unpublish", "delete"} => call[k].op = "remove"
    /\ call[k].at \in {"edit", "read"} => call[k].track # 0

(* A track nobody created is as new, and no call is about it.              *)
UnbornsAreNew ==
  /\ \A t \in Tracks : track[t].status = "unborn" => track[t].version = 1
  /\ \A k \in Calls : call[k].track # 0 => track[call[k].track].status # "unborn"

(* A generate call that did not ask has found nothing of the creator's on  *)
(* the version it would replace.                                           *)
ConsentHolds ==
  \A k \in Calls : At(k, "start") /\ call[k].track # 0 =>
    LET row == track[call[k].track] IN
    /\ call[k].version <= row.version
    /\ ~call[k].overwrite /\ call[k].version = row.version =>
         row.status # "ready" \/ row.kind = "auto"

(* A text of the creator's on a ready track is not taken for a run's.      *)
KindsAgree ==
  \A t \in Tracks : track[t].status = "ready" /\ track[t].cues \in Calls => track[t].kind # "auto"

IInv ==
  /\ TypeOK
  /\ VersionsSuffice
  /\ RunsAreAsked
  /\ CallsAgree
  /\ UnbornsAreNew
  /\ ConsentHolds
  /\ KindsAgree

-----------------------------------------------------------------------------
(* The records the variables are made of.                                  *)
TrackRows == [status : TrackStatus, kind : Kinds, language : Languages \cup {None},
              version : Versions, cues : Texts]
CallRows == [at : CallPlace, op : {"generate", "probe", "upload", "edit", "remove", None},
             track : Tracks \cup {0}, version : Versions,
             language : Languages \cup {None}, overwrite : BOOLEAN, text : Texts]
ExecRows == [at : ExecPlace, v : Versions, plan : Plans, outcome : Outcomes]
Asking == [track : Tracks \cup {0}, language : Languages \cup {None}]
Flows == [Plans -> Queue!StageJobs(Workers)]
Failures == Versions \X Plans \X BOOLEAN

(* What any step does to a row.                                            *)
Advances(t) ==
  \/ track'[t] = track[t]
  \/ /\ track[t].status = "unborn" /\ track'[t].status # "unborn"
     /\ track'[t].version = 1
  \/ /\ track[t].status # "unborn" /\ track'[t].status # "unborn"
     /\ track'[t].version = track[t].version + 1
  \/ track'[t].status = "deleted" /\ track'[t].version = track[t].version

(* What the queue may do over a job of version v.                          *)
QueueMoves(v) ==
  /\ job' \in [Versions -> Flows]
  /\ \A u \in Versions, p \in Plans : job'[u][p].state # "absent" => job[u][p].state # "absent"
  /\ failing' \subseteq Failures
  /\ \A f \in failing' : f \in failing \/ f[1] = v

(* What the workers may do: no execution begins but of version v.          *)
WorkersMove(v) ==
  /\ exec' \in [Workers -> ExecRows]
  /\ \A e \in Workers : exec'[e].at # "idle" => exec'[e].v = v \/ (exec[e].at # "idle" /\ exec'[e].v = exec[e].v)

(* What the creator wrote is kept, or a call of hers is at it.             *)
TextKept ==
  \A t \in Tracks :
    track[t].status = "ready" /\ track[t].cues \in Calls =>
      track'[t] = track[t] \/ \E k \in Calls : MayReplace(k)

-----------------------------------------------------------------------------
(* Numbers: the constants, and how many calls have taken their version.    *)
LEMMA Numbers ==
  /\ MaxCalls \in Nat /\ MaxCalls >= 1
  /\ Versions = 1..(2 * MaxCalls) /\ 1 \in Versions
  /\ Versions \subseteq Nat
  /\ Tracks \subseteq Nat \ {0} /\ Calls \subseteq Nat \ {0}
  /\ Speech \notin Calls /\ NoCues \notin Calls
  /\ Speech \in Texts /\ NoCues \in Texts /\ Calls \subseteq Texts
  /\ Run \in Plans /\ Windows \subseteq Plans
BY CaptionAssumption DEF CaptionAssumption, Versions, Tracks, Calls, Speech, NoCues, Texts, Plans

(* Spent is finite, and no more than the calls.                            *)
LEMMA SpentBound == /\ IsFiniteSet(Spent) /\ Cardinality(Spent) \in Nat
                    /\ Cardinality(Spent) <= MaxCalls
<1>1. IsFiniteSet(Calls) /\ Cardinality(Calls) = MaxCalls
  BY Numbers, FS_Interval DEF Calls
<1>2. Spent \in SUBSET Calls
  BY DEF Spent
<1>3. IsFiniteSet(Spent) /\ Cardinality(Spent) <= Cardinality(Calls)
  BY <1>1, <1>2, FS_Subset
<1> QED
  BY <1>1, <1>3, FS_CardinalityType

(* The same in the next state.                                             *)
LEMMA SpentBoundNext == /\ IsFiniteSet(Spent') /\ Cardinality(Spent') \in Nat
                        /\ Cardinality(Spent') <= MaxCalls
<1>1. IsFiniteSet(Calls) /\ Cardinality(Calls) = MaxCalls
  BY Numbers, FS_Interval DEF Calls
<1>2. Spent' \in SUBSET Calls
  BY DEF Spent
<1>3. IsFiniteSet(Spent') /\ Cardinality(Spent') <= Cardinality(Calls)
  BY <1>1, <1>2, FS_Subset
<1> QED
  BY <1>1, <1>3, FS_CardinalityType

(* A call that leaves its first places is one more.                        *)
LEMMA SpentGrows ==
  ASSUME NEW k \in Calls, k \notin Spent,
         call'[k].at \notin {"idle", "start", "edit"},
         \A j \in Calls \ {k} : call'[j] = call[j]
  PROVE  Cardinality(Spent') = Cardinality(Spent) + 1
<1>1. Spent' = Spent \cup {k}
  BY DEF Spent
<1> QED
  BY <1>1, SpentBound, FS_AddElement

(* No call comes back to them.                                             *)
LEMMA SpentStays ==
  ASSUME \A j \in Calls : j \in Spent => call'[j].at \notin {"idle", "start", "edit"}
  PROVE  Cardinality(Spent) <= Cardinality(Spent')
<1>1. Spent \in SUBSET Spent'
  BY DEF Spent
<1> QED
  BY <1>1, SpentBoundNext, FS_Subset

-----------------------------------------------------------------------------
(* The queue.                                                              *)

(* What the queue makes of a job is one.                                   *)
LEMMA JobTypes ==
  ASSUME NEW j \in Queue!StageJobs(Workers)
  PROVE  /\ Queue!Added(j, "waiting") \in Queue!StageJobs(Workers)
         /\ Queue!Added(j, "waitingChildren") \in Queue!StageJobs(Workers)
         /\ Queue!Ready(j) \in Queue!StageJobs(Workers)
         /\ \A e \in Workers : Queue!Taken(j, e) \in Queue!StageJobs(Workers)
         /\ Queue!Answered(j, "ok") \in Queue!StageJobs(Workers)
         /\ Queue!Answered(j, "transient") \in Queue!StageJobs(Workers)
         /\ Queue!Stalled(j) \in Queue!StageJobs(Workers)
         /\ [j EXCEPT !.state = "failed"] \in Queue!StageJobs(Workers)
<1> USE DEF Queue!StageJobs, Queue!JobStates, Queue!NoToken
<1>1. Queue!Added(j, "waiting") \in Queue!StageJobs(Workers) /\ Queue!Added(j, "waitingChildren") \in Queue!StageJobs(Workers)
  BY DEF Queue!Added
<1>2. Queue!Ready(j) \in Queue!StageJobs(Workers) /\ [j EXCEPT !.state = "failed"] \in Queue!StageJobs(Workers)
  BY DEF Queue!Ready
<1>3. ASSUME NEW e \in Workers PROVE Queue!Taken(j, e) \in Queue!StageJobs(Workers)
  BY DEF Queue!Taken
<1>4. Queue!Answered(j, "ok") \in Queue!StageJobs(Workers)
  BY DEF Queue!Answered
<1>5. Queue!Answered(j, "transient") \in Queue!StageJobs(Workers)
  <2>1. \E s \in {"waiting", "failed"} :
          Queue!Answered(j, "transient") = [j EXCEPT !.attempts = j.attempts + 1, !.owner = 0, !.state = s]
    BY DEF Queue!Answered
  <2>2. ASSUME NEW s \in {"waiting", "failed"}
        PROVE  [j EXCEPT !.attempts = j.attempts + 1, !.owner = 0, !.state = s] \in Queue!StageJobs(Workers)
    <3>1. j.attempts \in Nat /\ j.stalls \in Nat
      OBVIOUS
    <3>2. j.attempts + 1 \in Nat
      BY <3>1
    <3> DEFINE n == j.attempts + 1
    <3> HIDE DEF n
    <3>3. [j EXCEPT !.attempts = n, !.owner = 0, !.state = s] \in Queue!StageJobs(Workers)
      BY <3>1, <3>2 DEF n
    <3> QED
      BY <3>3 DEF n
  <2> QED
    BY <2>1, <2>2
<1>6. Queue!Stalled(j) \in Queue!StageJobs(Workers)
  <2>1. \E s \in {"waiting", "failed"} :
          Queue!Stalled(j) = [j EXCEPT !.stalls = j.stalls + 1, !.owner = 0, !.state = s]
    BY DEF Queue!Stalled
  <2>2. ASSUME NEW s \in {"waiting", "failed"}
        PROVE  [j EXCEPT !.stalls = j.stalls + 1, !.owner = 0, !.state = s] \in Queue!StageJobs(Workers)
    <3>1. j.attempts \in Nat /\ j.stalls \in Nat
      OBVIOUS
    <3>2. j.stalls + 1 \in Nat
      BY <3>1
    <3> DEFINE n == j.stalls + 1
    <3> HIDE DEF n
    <3>3. [j EXCEPT !.stalls = n, !.owner = 0, !.state = s] \in Queue!StageJobs(Workers)
      BY <3>1, <3>2 DEF n
    <3> QED
      BY <3>3 DEF n
  <2> QED
    BY <2>1, <2>2
<1> QED
  BY <1>1, <1>2, <1>3, <1>4, <1>5, <1>6

(* A job the queue settles was known, and so was its parent.               *)
LEMMA SettledMoves ==
  ASSUME TypeOK, NEW v \in Versions, NEW p \in Plans, NEW new \in Queue!StageJobs(Workers),
         job[v][p].state # "absent", Settled(v, p, new)
  PROVE  QueueMoves(v)
<1> DEFINE flow == [job[v] EXCEPT ![p] = new]
           final == IF p = Run THEN flow
                    ELSE [flow EXCEPT ![Run] =
                      IF @.state # "waitingChildren" THEN @
                      ELSE IF new.state = "failed" THEN [@ EXCEPT !.state = "failed"]
                      ELSE IF \A w \in Windows : flow[w].state = "completed" THEN Queue!Ready(@)
                      ELSE @]
<1>1. job \in [Versions -> Flows]
  BY DEF TypeOK, Flows
<1>2. flow \in Flows /\ \A q \in Plans : flow[q].state # "absent" => job[v][q].state # "absent"
  BY <1>1 DEF Flows
<1>3. job' = [job EXCEPT ![v] = final]
  BY DEF Settled
<1>4. ASSUME NEW j \in Queue!StageJobs(Workers), j.state = "waitingChildren",
             NEW i, i = j \/ i = [j EXCEPT !.state = "failed"] \/ i = Queue!Ready(j)
      PROVE  i \in Queue!StageJobs(Workers)
  BY <1>4, JobTypes
<1>5. final \in Flows /\ \A q \in Plans : final[q].state # "absent" => job[v][q].state # "absent"
  <2>1. CASE p = Run
    BY <1>2, <2>1
  <2>2. CASE p # Run
    <3> HIDE DEF flow
    <3>1. flow[Run] \in Queue!StageJobs(Workers)
      BY <1>2, Numbers DEF Flows
    <3>2. PICK i \in Queue!StageJobs(Workers) :
            final = [flow EXCEPT ![Run] = i] /\ (flow[Run].state # "waitingChildren" => i = flow[Run])
      <4>1. CASE flow[Run].state # "waitingChildren"
        BY <2>2, <3>1, <4>1
      <4>2. CASE flow[Run].state = "waitingChildren"
        <5>1. \E i : /\ final = [flow EXCEPT ![Run] = i]
                     /\ i = flow[Run] \/ i = [flow[Run] EXCEPT !.state = "failed"] \/ i = Queue!Ready(flow[Run])
          BY <2>2, <4>2
        <5> QED
          BY <5>1, <1>4, <4>2, <3>1
      <4> QED
        BY <4>1, <4>2
    <3> HIDE DEF final
    <3>3. final \in Flows
      BY <1>2, <3>2 DEF Flows
    <3>4. ASSUME NEW q \in Plans, final[q].state # "absent" PROVE flow[q].state # "absent"
      BY <1>2, <3>2, <3>4 DEF Flows
    <3> QED
      BY <1>2, <3>3, <3>4
  <2> QED
    BY <2>1, <2>2
<1> HIDE DEF final, flow
<1>6. job' \in [Versions -> Flows]
  BY <1>1, <1>3, <1>5
<1>7. \A u \in Versions, q \in Plans : job'[u][q].state # "absent" => job[u][q].state # "absent"
  BY <1>1, <1>3, <1>5
<1>8. failing' = failing \/ failing' = failing \cup {<<v, p, new.state = "failed">>}
  BY DEF Settled
<1>9. (new.state = "failed") \in BOOLEAN /\ failing \subseteq Failures
  BY DEF TypeOK, Failures
<1>10. <<v, p, new.state = "failed">> \in Failures
  BY <1>9 DEF Failures
<1>11. failing' \subseteq Failures /\ \A f \in failing' : f \in failing \/ f[1] = v
  BY <1>8, <1>9, <1>10
<1> QED
  BY <1>6, <1>7, <1>11 DEF QueueMoves

(* The queue hears the answer of a worker that owns its job.               *)
LEMMA AnswersMove ==
  ASSUME TypeOK, NEW e \in Workers, NEW o \in {"ok", "transient"}, Answers(e, o)
  PROVE  QueueMoves(exec[e].v) /\ WorkersMove(exec[e].v)
<1>1. exec[e].v \in Versions /\ exec[e].plan \in Plans /\ exec \in [Workers -> ExecRows]
  BY DEF TypeOK, ExecRows
<1>2. NoExec \in ExecRows /\ NoExec.at = "idle"
  BY Numbers DEF NoExec, ExecRows, ExecPlace, Outcomes
<1>3. exec' = [exec EXCEPT ![e] = NoExec]
  BY DEF Answers
<1>4. WorkersMove(exec[e].v)
  BY <1>1, <1>2, <1>3 DEF WorkersMove
<1>5. QueueMoves(exec[e].v)
  <2>1. CASE Queue!OwnedBy(JobOf(e), e)
    <3>1. JobOf(e) \in Queue!StageJobs(Workers)
      BY <1>1 DEF TypeOK, JobOf
    <3>2. Queue!Answered(JobOf(e), o) \in Queue!StageJobs(Workers)
      BY <3>1, JobTypes
    <3>3. job[exec[e].v][exec[e].plan].state # "absent"
      BY <2>1 DEF Queue!OwnedBy, JobOf
    <3>4. Settled(exec[e].v, exec[e].plan, Queue!Answered(JobOf(e), o))
      BY <2>1 DEF Answers
    <3> QED
      BY <1>1, <3>2, <3>3, <3>4, SettledMoves
  <2>2. CASE ~Queue!OwnedBy(JobOf(e), e)
    BY <2>2 DEF Answers, QueueMoves, TypeOK, Flows, Failures
  <2> QED
    BY <2>1, <2>2
<1> QED
  BY <1>4, <1>5

(* A worker that goes on with its execution, in another place.             *)
LEMMA GoesMove ==
  ASSUME TypeOK, NEW e \in Workers, exec[e].at # "idle", NEW x \in ExecRows, x.v = exec[e].v,
         exec' = [exec EXCEPT ![e] = x]
  PROVE  WorkersMove(exec[e].v)
BY DEF TypeOK, ExecRows, WorkersMove

(* Asking for a run: of a track the caller has found.                      *)
LEMMA AddAsks ==
  ASSUME TypeOK, RunsAreAsked, NEW t \in Tracks, NEW v \in Versions,
         NEW l \in Languages \cup {None}, Add(t, v, l)
  PROVE  /\ job' \in [Versions -> Flows]
         /\ asked' \in [Versions -> Asking]
         /\ asked'[v].track # 0
         /\ \A u \in Versions, p \in Plans :
              job'[u][p].state # "absent" => u = v \/ job[u][p].state # "absent"
         /\ \A u \in Versions : asked'[u] = asked[u] \/ (u = v /\ asked'[u].track = t)
<1>1. job \in [Versions -> Flows] /\ asked \in [Versions -> Asking]
  BY DEF TypeOK, Flows, Asking
<1>2. job' = [job EXCEPT ![v] = NewFlow(job[v])]
  BY DEF Add
<1>3. NewFlow(job[v]) \in Flows
  <2>1. ASSUME NEW p \in Plans PROVE NewFlow(job[v])[p] \in Queue!StageJobs(Workers)
    <3>1. job[v][p] \in Queue!StageJobs(Workers)
      BY <1>1 DEF Flows
    <3>2. \/ NewFlow(job[v])[p] = job[v][p]
          \/ NewFlow(job[v])[p] = Queue!Added(job[v][p], "waiting")
          \/ NewFlow(job[v])[p] = Queue!Added(job[v][p], "waitingChildren")
      BY DEF NewFlow
    <3> QED
      BY <3>1, <3>2, JobTypes
  <2>2. NewFlow(job[v]) = [p \in Plans |-> NewFlow(job[v])[p]]
    BY DEF NewFlow
  <2> QED
    BY <2>1, <2>2 DEF Flows
<1>4. job' \in [Versions -> Flows]
  BY <1>1, <1>2, <1>3
<1>5. \A u \in Versions : u # v => job'[u] = job[u]
  BY <1>1, <1>2
<1>6. asked' \in [Versions -> Asking] /\ \A u \in Versions : asked'[u] = asked[u] \/ (u = v /\ asked'[u].track = t)
  <2>1. [track |-> t, language |-> l] \in Asking
    BY DEF Asking
  <2> QED
    BY <1>1, <2>1 DEF Add
<1>7. asked'[v].track # 0
  <2>1. CASE job[v][Run].state = "absent"
    BY <1>1, <2>1, Numbers DEF Add
  <2>2. CASE job[v][Run].state # "absent"
    BY <1>1, <2>2, Numbers DEF Add, RunsAreAsked
  <2> QED
    BY <2>1, <2>2
<1> QED
  BY <1>4, <1>5, <1>6, <1>7

-----------------------------------------------------------------------------
(* Rows.                                                                   *)

(* A row whose version is not yet known to be in bounds.                   *)
LooseRows == [status : TrackStatus, kind : Kinds, language : Languages \cup {None},
              version : Nat, cues : Texts]

(* A run's track, in the next state.                                       *)
RunOfNext(t, v) ==
  /\ t \in Tracks
  /\ \/ track'[t].version > v
     \/ track'[t].version = v /\ track'[t].status \in {"pending", "deleted"}

(* A run's track goes on being pending at its version or past it.          *)
LEMMA RunOfStands ==
  ASSUME TypeOK, UnbornsAreNew, NEW t \in Tracks, Advances(t), NEW v \in Versions, RunOf(t, v)
  PROVE  RunOfNext(t, v)
<1>1. track[t].version \in Nat /\ v \in Nat /\ v >= 1
  BY Numbers DEF TypeOK
<1>2. track[t].status # "unborn"
  BY <1>1 DEF RunOf, UnbornsAreNew
<1> QED
  BY <1>1, <1>2 DEF RunOf, RunOfNext, Advances

(* What the workers and the queue do over a run that was asked for.        *)
LEMMA RunsStandAtWork ==
  ASSUME TypeOK, UnbornsAreNew, RunsAreAsked, \A t \in Tracks : Advances(t),
         NEW v \in Versions, asked[v].track # 0, asked' = asked, QueueMoves(v), WorkersMove(v)
  PROVE  RunsAreAsked'
<1>1. \A u \in Versions : asked'[u].track # 0 => RunOfNext(asked'[u].track, u)
  <2> SUFFICES ASSUME NEW u \in Versions, asked[u].track # 0
               PROVE  RunOfNext(asked[u].track, u)
    OBVIOUS
  <2>1. RunOf(asked[u].track, u) /\ asked[u].track \in Tracks
    BY DEF RunsAreAsked, RunOf
  <2> QED
    BY <2>1, RunOfStands
<1>2. \A u \in Versions, p \in Plans : job'[u][p].state # "absent" => asked'[u].track # 0
  BY DEF RunsAreAsked, QueueMoves
<1>3. \A e \in Workers : exec'[e].at # "idle" => asked'[exec'[e].v].track # 0
  BY DEF RunsAreAsked, WorkersMove, On
<1>4. \A f \in failing' : asked'[f[1]].track # 0
  BY DEF RunsAreAsked, QueueMoves
<1> QED
  BY <1>1, <1>2, <1>3, <1>4 DEF RunsAreAsked, RunOf, RunOfNext, On

(* What the callers and the reconciler do.                                 *)
LEMMA RunsStandAtCalls ==
  ASSUME TypeOK, UnbornsAreNew, RunsAreAsked, \A t \in Tracks : Advances(t),
         UNCHANGED <<exec, failing>>,
         \/ UNCHANGED runs
         \/ \E t \in Tracks, v \in Versions, l \in Languages \cup {None} :
              Add(t, v, l) /\ RunOfNext(t, v)
  PROVE  RunsAreAsked' /\ job' \in [Versions -> Flows] /\ asked' \in [Versions -> Asking]
<1>0. \A u \in Versions : asked[u].track # 0 => RunOfNext(asked[u].track, u)
  <2> SUFFICES ASSUME NEW u \in Versions, asked[u].track # 0
               PROVE  RunOfNext(asked[u].track, u)
    OBVIOUS
  <2>1. RunOf(asked[u].track, u) /\ asked[u].track \in Tracks
    BY DEF RunsAreAsked, RunOf
  <2> QED
    BY <2>1, RunOfStands
<1>1. CASE UNCHANGED runs
  <2>1. job' = job /\ asked' = asked /\ exec' = exec /\ failing' = failing
    BY <1>1 DEF runs
  <2>2. job' \in [Versions -> Flows] /\ asked' \in [Versions -> Asking]
    BY <2>1 DEF TypeOK, Flows, Asking
  <2>3. \A u \in Versions : asked'[u].track # 0 => RunOfNext(asked'[u].track, u)
    BY <1>0, <2>1
  <2> QED
    BY <2>1, <2>2, <2>3 DEF RunsAreAsked, RunOf, RunOfNext, On
<1>2. ASSUME NEW t \in Tracks, NEW v \in Versions, NEW l \in Languages \cup {None},
             Add(t, v, l), RunOfNext(t, v)
      PROVE  RunsAreAsked' /\ job' \in [Versions -> Flows] /\ asked' \in [Versions -> Asking]
  <2>1. /\ job' \in [Versions -> Flows] /\ asked' \in [Versions -> Asking]
        /\ asked'[v].track # 0
        /\ \A u \in Versions, p \in Plans :
             job'[u][p].state # "absent" => u = v \/ job[u][p].state # "absent"
        /\ \A u \in Versions : asked'[u] = asked[u] \/ (u = v /\ asked'[u].track = t)
    BY <1>2, AddAsks
  <2>2. \A u \in Versions : asked'[u].track # 0 => RunOfNext(asked'[u].track, u)
    BY <1>0, <1>2, <2>1
  <2>3. \A u \in Versions : asked[u].track # 0 => asked'[u].track # 0
    BY <2>1
  <2>4. \A u \in Versions, p \in Plans : job'[u][p].state # "absent" => asked'[u].track # 0
    BY <2>1, <2>3 DEF RunsAreAsked
  <2>5. \A e \in Workers : exec'[e].at # "idle" => asked'[exec'[e].v].track # 0
    BY <2>3 DEF RunsAreAsked, On, TypeOK
  <2>6. \A f \in failing : f[1] \in Versions
    BY DEF TypeOK
  <2>7. \A f \in failing' : asked'[f[1]].track # 0
    BY <2>3, <2>6 DEF RunsAreAsked
  <2> QED
    BY <2>1, <2>2, <2>4, <2>5, <2>7 DEF RunsAreAsked, RunOf, RunOfNext, On
<1> QED
  BY <1>1, <1>2

(* A call that waits to start keeps what it found, whatever becomes of the *)
(* row.                                                                    *)
LEMMA ConsentStands ==
  ASSUME TypeOK, UnbornsAreNew, ConsentHolds, \A t \in Tracks : Advances(t),
         \A k \in Calls : call'[k].at = "start" => call'[k] = call[k]
  PROVE  ConsentHolds'
<1> SUFFICES ASSUME NEW k \in Calls, call'[k].at = "start", call'[k].track # 0
             PROVE  /\ call'[k].version <= track'[call'[k].track].version
                    /\ ~call'[k].overwrite /\ call'[k].version = track'[call'[k].track].version =>
                         track'[call'[k].track].status # "ready" \/ track'[call'[k].track].kind = "auto"
  BY DEF ConsentHolds, At
<1> DEFINE t == call[k].track
<1>1. call'[k] = call[k] /\ At(k, "start") /\ t \in Tracks
  BY DEF At, TypeOK
<1>2. /\ call[k].version <= track[t].version
      /\ ~call[k].overwrite /\ call[k].version = track[t].version =>
           track[t].status # "ready" \/ track[t].kind = "auto"
  BY <1>1 DEF ConsentHolds
<1>3. track[t].status # "unborn" /\ Advances(t)
  BY <1>1 DEF UnbornsAreNew
<1>4. call[k].version \in Nat /\ track[t].version \in Nat
  BY <1>1, Numbers DEF TypeOK
<1> HIDE DEF t
<1>5. CASE track'[t] = track[t]
  BY <1>1, <1>2, <1>5 DEF t
<1>6. CASE track'[t].version = track[t].version + 1
  <2>1. call[k].version < track'[t].version
    BY <1>2, <1>4, <1>6
  <2> QED
    BY <1>1, <1>4, <1>6, <2>1 DEF t
<1>7. CASE track'[t].status = "deleted" /\ track'[t].version = track[t].version
  BY <1>1, <1>2, <1>7 DEF t
<1> QED
  BY <1>3, <1>5, <1>6, <1>7 DEF Advances

(* One row changes: it is born, takes a version or is deleted.             *)
LEMMA RowChanges ==
  ASSUME IInv, NEW t \in Tracks, NEW r \in LooseRows,
         track' = [track EXCEPT ![t] = r],
         \/ r = track[t]
         \/ track[t].status = "unborn" /\ r.status # "unborn" /\ r.version = 1
         \/ track[t].status # "unborn" /\ r.status # "unborn" /\ r.version = track[t].version + 1
         \/ track[t].status # "unborn" /\ r.status = "deleted" /\ r.version = track[t].version,
         r.status # "unborn",
         r.version + Due(r) <= 2 * Cardinality(Spent'),
         \A k \in Calls : k \in Spent => call'[k].at \notin {"idle", "start", "edit"},
         \A k \in Calls : call'[k].at = "start" => call'[k] = call[k],
         \A k \in Calls : call'[k].track \in {0, t, call[k].track},
         r.status = "ready" /\ r.cues \in Calls => r.kind # "auto"
  PROVE  /\ track' \in [Tracks -> TrackRows] /\ \A s \in Tracks : Advances(s)
         /\ VersionsSuffice' /\ UnbornsAreNew' /\ ConsentHolds' /\ KindsAgree'
<1>1. track \in [Tracks -> TrackRows]
  BY DEF IInv, TypeOK, TrackRows
<1>2. r.version \in Nat /\ track[t].version \in Nat \ {0}
  BY <1>1, Numbers DEF LooseRows, TrackRows, Versions
<1>3. Due(r) \in {0, 1} /\ Cardinality(Spent') \in Nat /\ Cardinality(Spent') <= MaxCalls
  BY SpentBoundNext DEF Due
<1>4. r.version \in Versions
  BY <1>2, <1>3, Numbers
<1>5. r \in TrackRows
  BY <1>4 DEF LooseRows, TrackRows
<1>6. track' \in [Tracks -> TrackRows]
  BY <1>1, <1>5
<1>7. \A s \in Tracks : s # t => track'[s] = track[s]
  BY <1>1
<1>8. track'[t] = r
  BY <1>1
<1>9. \A s \in Tracks : Advances(s)
  BY <1>7, <1>8 DEF Advances
<1>10. VersionsSuffice'
  <2>1. Cardinality(Spent) \in Nat /\ Cardinality(Spent) <= Cardinality(Spent')
    BY SpentBound, SpentStays
  <2> SUFFICES ASSUME NEW s \in Tracks, track'[s].status # "unborn"
               PROVE  track'[s].version + Due(track'[s]) <= 2 * Cardinality(Spent')
    BY DEF VersionsSuffice, Due
  <2>2. CASE s = t
    BY <1>8, <2>2
  <2>3. CASE s # t
    <3>1. track[s].version + Due(track[s]) <= 2 * Cardinality(Spent)
      BY <1>7, <2>3 DEF IInv, VersionsSuffice
    <3>2. track[s].version \in Nat /\ Due(track[s]) \in {0, 1}
      BY <1>1, Numbers DEF TrackRows, Due
    <3> QED
      BY <1>3, <1>7, <2>1, <2>3, <3>1, <3>2
  <2> QED
    BY <2>2, <2>3
<1>11. UnbornsAreNew'
  <2>1. ASSUME NEW s \in Tracks, track'[s].status = "unborn" PROVE track'[s].version = 1
    BY <1>7, <1>8, <2>1 DEF IInv, UnbornsAreNew
  <2>2. ASSUME NEW k \in Calls, call'[k].track # 0 PROVE track'[call'[k].track].status # "unborn"
    <3>1. call[k].track \in Tracks \cup {0}
      BY DEF IInv, TypeOK
    <3> QED
      BY <1>7, <1>8, <2>2, <3>1 DEF IInv, UnbornsAreNew
  <2> QED
    BY <2>1, <2>2 DEF UnbornsAreNew
<1>12. ConsentHolds'
  BY <1>9, ConsentStands DEF IInv
<1>13. KindsAgree'
  BY <1>7, <1>8 DEF IInv, KindsAgree
<1> QED
  BY <1>6, <1>9, <1>10, <1>11, <1>12, <1>13

-----------------------------------------------------------------------------
(* The calls that leave the rows alone.                                    *)

(* A step of one call, when its new place agrees with what it is about.    *)
LEMMA CallMoves ==
  ASSUME IInv, NEW k \in Calls, NEW c \in CallRows, call' = [call EXCEPT ![k] = c],
         UNCHANGED <<source, track, runs, workers>>,
         file' \in [Languages -> Texts \cup {None}], troubles' \in 0..MaxTroubles,
         k \in Spent => c.at \notin {"idle", "start", "edit"},
         c.at = "start" => c.op \in {"generate", "probe"},
         c.at = "start" /\ c.track # 0 => c.op = "generate",
         c.at \in {"edit", "read"} => c.op = "edit" /\ c.track # 0,
         c.at \in {"unpublish", "delete"} => c.op = "remove",
         c.track # 0 => track[c.track].status # "unborn",
         c.at = "start" /\ c.track # 0 =>
           /\ c.version <= track[c.track].version
           /\ ~c.overwrite /\ c.version = track[c.track].version =>
                track[c.track].status # "ready" \/ track[c.track].kind = "auto"
  PROVE  IInv'
<1>1. call \in [Calls -> CallRows]
  BY DEF IInv, TypeOK, CallRows
<1>2. call' \in [Calls -> CallRows] /\ call'[k] = c /\ \A j \in Calls : j # k => call'[j] = call[j]
  BY <1>1
<1>3. track' = track /\ exec' = exec /\ failing' = failing /\ job' = job /\ asked' = asked
      /\ source' = source /\ step' = step /\ written' = written /\ unheard' = unheard
  BY DEF runs, workers
<1>4. TypeOK'
  BY <1>2, <1>3 DEF IInv, TypeOK, CallRows
<1>5. VersionsSuffice'
  <2>1. Cardinality(Spent) \in Nat /\ Cardinality(Spent') \in Nat
    BY SpentBound, SpentBoundNext
  <2>2. Cardinality(Spent) <= Cardinality(Spent')
    <3>1. \A j \in Calls : j \in Spent => call'[j].at \notin {"idle", "start", "edit"}
      BY <1>2 DEF Spent
    <3> QED
      BY <3>1, SpentStays
  <2> SUFFICES ASSUME NEW s \in Tracks, track[s].status # "unborn"
               PROVE  track[s].version + Due(track[s]) <= 2 * Cardinality(Spent')
    BY <1>3 DEF VersionsSuffice, Due
  <2>3. track[s].version + Due(track[s]) <= 2 * Cardinality(Spent)
    BY DEF IInv, VersionsSuffice
  <2>4. track[s].version \in Nat /\ Due(track[s]) \in {0, 1}
    BY Numbers DEF IInv, TypeOK, Due
  <2> QED
    BY <2>1, <2>2, <2>3, <2>4
<1>6. RunsAreAsked'
  BY <1>3 DEF IInv, RunsAreAsked, RunOf, On
<1>7. CallsAgree'
  BY <1>2 DEF IInv, CallsAgree, At
<1>8. UnbornsAreNew'
  BY <1>2, <1>3 DEF IInv, UnbornsAreNew
<1>9. ConsentHolds'
  BY <1>2, <1>3 DEF IInv, ConsentHolds, At
<1>10. KindsAgree'
  BY <1>3 DEF IInv, KindsAgree
<1> QED
  BY <1>4, <1>5, <1>6, <1>7, <1>8, <1>9, <1>10 DEF IInv

(* A call begins with what it found.                                       *)
LEMMA BeginsMove ==
  ASSUME IInv, NEW k \in Calls, NEW place \in {"start", "edit", "unpublish"},
         NEW op \in {"generate", "probe", "edit", "remove"}, NEW t \in Tracks \cup {0},
         NEW l \in Languages \cup {None}, NEW over \in BOOLEAN,
         Begins(k, place, op, t, l, over),
         t # 0 => track[t].status # "unborn",
         place = "start" => op \in {"generate", "probe"},
         place = "start" /\ t # 0 =>
           op = "generate" /\ (~over => track[t].status # "ready" \/ track[t].kind = "auto"),
         place = "edit" => op = "edit" /\ t # 0,
         place = "unpublish" => op = "remove"
  PROVE  IInv'
<1> DEFINE n == IF t = 0 THEN 1 ELSE track[t].version
           c == [call[k] EXCEPT !.at = place, !.op = op, !.track = t, !.language = l,
                                !.version = n, !.overwrite = over]
<1>1. call[k] \in CallRows /\ At(k, "idle")
  BY DEF IInv, TypeOK, CallRows, Begins, IsNext
<1>2. n \in Versions /\ n \in Nat
  BY Numbers DEF IInv, TypeOK
<1>3. t # 0 => n = track[t].version
  OBVIOUS
<1>4. call' = [call EXCEPT ![k] = c]
  BY DEF Begins
<1>5. UNCHANGED <<source, track, file, runs, workers, troubles>>
  BY DEF Begins
<1> HIDE DEF n
<1>6. c \in CallRows
  BY <1>1, <1>2 DEF CallRows, CallPlace
<1>7. c.at = place /\ c.op = op /\ c.track = t /\ c.version = n /\ c.overwrite = over
  BY <1>1 DEF CallRows
<1>8. k \notin Spent
  BY <1>1 DEF Spent, At
<1>9. file' \in [Languages -> Texts \cup {None}] /\ troubles' \in 0..MaxTroubles
  BY <1>5 DEF IInv, TypeOK
<1> HIDE DEF c
<1>10. UNCHANGED <<source, track, runs, workers>>
  BY <1>5
<1>11. c.at = "start" => c.op \in {"generate", "probe"}
  BY <1>7
<1>12. c.at = "start" /\ c.track # 0 => c.op = "generate"
  BY <1>7
<1>13. /\ c.at \in {"edit", "read"} => c.op = "edit" /\ c.track # 0
       /\ c.at \in {"unpublish", "delete"} => c.op = "remove"
  BY <1>7
<1>14. c.track # 0 => track[c.track].status # "unborn"
  BY <1>7
<1>15. c.at = "start" /\ c.track # 0 =>
         /\ c.version <= track[c.track].version
         /\ ~c.overwrite /\ c.version = track[c.track].version =>
              track[c.track].status # "ready" \/ track[c.track].kind = "auto"
  BY <1>2, <1>3, <1>7
<1> QED
  BY <1>4, <1>6, <1>8, <1>9, <1>10, <1>11, <1>12, <1>13, <1>14, <1>15, CallMoves

(* The creator asks, or the probe does.                                    *)
LEMMA AskPreserves ==
  ASSUME IInv, NEW k \in Calls,
         \/ \E l \in Languages \cup {None} : AskGenerate(k, l)
         \/ AskSwitch(k) \/ AskProbe(k)
         \/ \E l \in Languages : AskEdit(k, l) \/ AskRemove(k, l)
  PROVE  IInv' /\ track' = track
<1>0. track' = track
  BY DEF AskGenerate, AskSwitch, AskProbe, AskEdit, AskRemove, Begins
<1>1. ASSUME NEW l \in Languages \cup {None}, AskGenerate(k, l) PROVE IInv'
  <2>1. GeneratedOrNone \in Tracks \cup {0} /\ (GeneratedOrNone # 0 => GeneratedOrNone \in Generated)
    BY DEF GeneratedOrNone, Generated
  <2>2. NeedsConsent \in BOOLEAN
    BY DEF NeedsConsent
  <2>3. GeneratedOrNone # 0 => track[GeneratedOrNone].status # "unborn"
    BY <2>1 DEF Generated, Exists
  <2>4. GeneratedOrNone # 0 /\ ~NeedsConsent => track[GeneratedOrNone].kind = "auto"
    BY <2>1 DEF NeedsConsent, Generated, IInv, TypeOK, Kinds
  <2>5. Begins(k, "start", "generate", GeneratedOrNone, l, NeedsConsent)
    BY <1>1 DEF AskGenerate
  <2> QED
    BY <2>1, <2>2, <2>3, <2>4, <2>5, BeginsMove
<1>2. CASE AskSwitch(k)
  <2>1. CASE Begins(k, "start", "generate", 0, None, FALSE)
    <3>1. ASSUME NEW z, z = 0, Begins(k, "start", "generate", z, None, FALSE) PROVE IInv'
      BY <3>1, BeginsMove
    <3> QED
      BY <1>0, <2>1, <3>1
  <2>2. ASSUME NEW t \in Generated, track[t].status = "failed",
               Begins(k, "start", "generate", t, track[t].language, FALSE)
        PROVE  IInv'
    <3>1. t \in Tracks /\ track[t].language \in Languages \cup {None}
      BY DEF Generated, IInv, TypeOK
    <3> QED
      BY <2>2, <3>1, BeginsMove
  <2> QED
    BY <1>0, <1>2, <2>1, <2>2 DEF AskSwitch
<1>3. CASE AskProbe(k)
  <2>1. ASSUME NEW z, z = 0, Begins(k, "start", "probe", z, None, FALSE) PROVE IInv'
    BY <2>1, BeginsMove
  <2> QED
    BY <1>0, <1>3, <2>1 DEF AskProbe
<1>4. ASSUME NEW l \in Languages, AskEdit(k, l) PROVE IInv'
  <2>1. PICK t \in InLanguage(l) : Begins(k, "edit", "edit", t, l, FALSE)
    BY <1>4 DEF AskEdit
  <2>2. t \in Tracks /\ t # 0 /\ track[t].status # "unborn"
    BY Numbers DEF InLanguage, Exists
  <2> QED
    BY <2>1, <2>2, BeginsMove
<1>5. ASSUME NEW l \in Languages, AskRemove(k, l) PROVE IInv'
  <2>1. PICK t \in InLanguage(l) : Begins(k, "unpublish", "remove", t, l, FALSE)
    BY <1>5 DEF AskRemove
  <2>2. t \in Tracks /\ t # 0 /\ track[t].status # "unborn"
    BY Numbers DEF InLanguage, Exists
  <2> QED
    BY <2>1, <2>2, BeginsMove
<1> QED
  BY <1>0, <1>1, <1>2, <1>3, <1>4, <1>5

(* A call that ends is about nothing any more.                             *)
LEMMA EndsMove ==
  ASSUME IInv, NEW k \in Calls, Ends(k), UNCHANGED <<source, track, runs, workers>>,
         file' \in [Languages -> Texts \cup {None}], troubles' \in 0..MaxTroubles
  PROVE  IInv'
<1> DEFINE c == [NoCall EXCEPT !.at = "ended"]
<1>1. c \in CallRows /\ c.at = "ended" /\ c.track = 0
  BY Numbers DEF CallRows, CallPlace, NoCall
<1>2. call' = [call EXCEPT ![k] = c]
  BY DEF Ends
<1> HIDE DEF c
<1> QED
  BY <1>1, <1>2, CallMoves

(* Troubles are counted.                                                   *)
LEMMA TroubleCounts ==
  ASSUME IInv, Trouble \/ UNCHANGED troubles
  PROVE  troubles' \in 0..MaxTroubles
BY CaptionAssumption DEF CaptionAssumption, Trouble, IInv, TypeOK

(* Reading the cues, and the public file.                                  *)
LEMMA FilePreserves ==
  ASSUME IInv, NEW k \in Calls, ReadCues(k) \/ Publish(k) \/ Unpublish(k) \/ CallBreaks(k)
  PROVE  IInv' /\ track' = track
<1>0. track' = track
  BY DEF ReadCues, Publish, Unpublish, CallBreaks
<1>1. call[k] \in CallRows /\ file \in [Languages -> Texts \cup {None}] /\ troubles \in 0..MaxTroubles
  BY DEF IInv, TypeOK, CallRows
<1>2. CASE ReadCues(k)
  <2> DEFINE c == [call[k] EXCEPT !.at = "publish", !.text = track[call[k].track].cues]
  <2>1. At(k, "read") /\ call[k].track \in Tracks /\ call[k].track # 0
    BY <1>1, <1>2 DEF ReadCues, IInv, CallsAgree, At, CallRows
  <2>2. track[call[k].track].cues \in Texts /\ track[call[k].track].status # "unborn"
    BY <2>1 DEF IInv, TypeOK, UnbornsAreNew
  <2>3. c \in CallRows /\ c.at = "publish" /\ c.track = call[k].track
    BY <1>1, <2>2 DEF CallRows, CallPlace
  <2>4. call' = [call EXCEPT ![k] = c] /\ UNCHANGED <<source, track, file, runs, workers, troubles>>
    BY <1>2 DEF ReadCues
  <2> HIDE DEF c
  <2> QED
    BY <1>0, <1>1, <2>2, <2>3, <2>4, CallMoves
<1>3. CASE Publish(k)
  <2>1. file' \in [Languages -> Texts \cup {None}]
    BY <1>1, <1>3 DEF Publish, CallRows
  <2> QED
    BY <1>0, <1>1, <1>3, <2>1, EndsMove DEF Publish
<1>4. CASE Unpublish(k)
  <2> DEFINE c == [call[k] EXCEPT !.at = "delete"]
  <2>1. At(k, "unpublish") /\ call[k].op = "remove"
    BY <1>4 DEF Unpublish, IInv, CallsAgree, At
  <2>2. file' \in [Languages -> Texts \cup {None}]
    BY <1>1, <1>4 DEF Unpublish
  <2>3. c \in CallRows /\ c.at = "delete" /\ c.track = call[k].track /\ c.op = "remove"
    BY <1>1, <2>1 DEF CallRows, CallPlace
  <2>4. call' = [call EXCEPT ![k] = c] /\ UNCHANGED <<source, track, runs, workers, troubles>>
    BY <1>4 DEF Unpublish
  <2>5. c.track # 0 => track[c.track].status # "unborn"
    BY <2>3 DEF IInv, UnbornsAreNew
  <2> HIDE DEF c
  <2> QED
    BY <1>0, <1>1, <2>2, <2>3, <2>4, <2>5, CallMoves
<1>5. CASE CallBreaks(k)
  <2>1. troubles' \in 0..MaxTroubles
    BY <1>5, TroubleCounts DEF CallBreaks
  <2> QED
    BY <1>0, <1>1, <1>5, <2>1, EndsMove DEF CallBreaks
<1> QED
  BY <1>2, <1>3, <1>4, <1>5

-----------------------------------------------------------------------------
(* The calls that change a row.                                            *)

(* A call that takes its version, or changes the row without one.          *)
LEMMA RowCallMoves ==
  ASSUME IInv, NEW k \in Calls, NEW c \in CallRows, call' = [call EXCEPT ![k] = c],
         NEW t \in Tracks, NEW r \in LooseRows, track' = [track EXCEPT ![t] = r],
         c.at \in {"ended", "publish", "read"},
         c.at = "read" => c.op = "edit" /\ c.track # 0,
         c.track \in {0, t, call[k].track},
         \/ r = track[t]
         \/ track[t].status = "unborn" /\ r.status # "unborn" /\ r.version = 1
         \/ track[t].status # "unborn" /\ r.status # "unborn" /\ r.version = track[t].version + 1
         \/ track[t].status # "unborn" /\ r.status = "deleted" /\ r.version = track[t].version,
         r.status # "unborn",
         \/ r.version + Due(r) <= 2 * Cardinality(Spent)
         \/ k \notin Spent /\ r.version + Due(r) <= 2 * Cardinality(Spent) + 2,
         r.status = "ready" /\ r.cues \in Calls => r.kind # "auto",
         UNCHANGED <<source, file, workers>>, troubles' \in 0..MaxTroubles,
         \/ UNCHANGED runs
         \/ \E v \in Versions, l \in Languages \cup {None} : Add(t, v, l) /\ RunOfNext(t, v)
  PROVE  IInv'
<1>1. call \in [Calls -> CallRows]
  BY DEF IInv, TypeOK, CallRows
<1>2. call' \in [Calls -> CallRows] /\ call'[k] = c /\ \A j \in Calls : j # k => call'[j] = call[j]
  BY <1>1
<1>3. Cardinality(Spent) \in Nat /\ Cardinality(Spent') \in Nat
  BY SpentBound, SpentBoundNext
<1>4. \A j \in Calls : j \in Spent => call'[j].at \notin {"idle", "start", "edit"}
  BY <1>2 DEF Spent
<1>5. r.version + Due(r) <= 2 * Cardinality(Spent')
  <2>1. r.version + Due(r) \in Nat
    BY DEF LooseRows, Due
  <2>2. Cardinality(Spent) <= Cardinality(Spent')
    BY <1>4, SpentStays
  <2>3. k \notin Spent => Cardinality(Spent') = Cardinality(Spent) + 1
    BY <1>2, SpentGrows
  <2> QED
    BY <1>3, <2>1, <2>2, <2>3
<1>6. \A j \in Calls : call'[j].at = "start" => call'[j] = call[j]
  BY <1>2
<1>7. \A j \in Calls : call'[j].track \in {0, t, call[j].track}
  BY <1>2
<1>8. /\ track' \in [Tracks -> TrackRows] /\ \A s \in Tracks : Advances(s)
      /\ VersionsSuffice' /\ UnbornsAreNew' /\ ConsentHolds' /\ KindsAgree'
  BY <1>4, <1>5, <1>6, <1>7, RowChanges
<1>9. exec' = exec /\ failing' = failing /\ source' = source /\ file' = file /\ step' = step
      /\ written' = written /\ unheard' = unheard
  BY DEF workers
<1>10. RunsAreAsked' /\ job' \in [Versions -> Flows] /\ asked' \in [Versions -> Asking]
  BY <1>8, <1>9, RunsStandAtCalls DEF IInv
<1>11. TypeOK'
  BY <1>2, <1>8, <1>9, <1>10 DEF IInv, TypeOK, CallRows, TrackRows, Flows, Asking
<1>12. CallsAgree'
  BY <1>2 DEF IInv, CallsAgree, At
<1> QED
  BY <1>8, <1>10, <1>11, <1>12 DEF IInv

(* A row's versions and kinds, as numbers and as members.                  *)
LEMMA RowTypes ==
  ASSUME IInv, NEW t \in Tracks
  PROVE  /\ track[t] \in TrackRows /\ track[t] \in LooseRows
         /\ track[t].version \in Nat /\ track[t].version >= 1
         /\ Due(track[t]) \in {0, 1}
         /\ track[t].status # "unborn" => track[t].version + Due(track[t]) <= 2 * Cardinality(Spent)
         /\ track[t].status = "unborn" => track[t].version = 1
         /\ Cardinality(Spent) \in Nat
<1>1. track[t] \in TrackRows
  BY DEF IInv, TypeOK, TrackRows
<1>2. track[t].version \in Nat /\ track[t].version >= 1
  BY <1>1, Numbers DEF TrackRows
<1> QED
  BY <1>1, <1>2, SpentBound DEF IInv, VersionsSuffice, UnbornsAreNew, Due, TrackRows, LooseRows

(* A bumped row is a row of the next version.                              *)
LEMMA BumpedRow ==
  ASSUME NEW r \in LooseRows
  PROVE  /\ Bumped(r) \in LooseRows /\ Bumped(r).version = r.version + 1
         /\ Bumped(r).status = r.status /\ Bumped(r).kind = r.kind
         /\ Bumped(r).language = r.language /\ Bumped(r).cues = r.cues
<1> DEFINE n == r.version + 1
<1>1. n \in Nat
  BY DEF LooseRows
<1>2. Bumped(r) = [r EXCEPT !.version = n]
  BY DEF Bumped
<1> HIDE DEF n
<1>3. [r EXCEPT !.version = n] \in LooseRows
  BY <1>1 DEF LooseRows
<1>4. Bumped(r).version = n /\ Bumped(r).status = r.status /\ Bumped(r).kind = r.kind
      /\ Bumped(r).language = r.language /\ Bumped(r).cues = r.cues
  BY <1>2 DEF LooseRows
<1> QED
  BY <1>2, <1>3, <1>4 DEF n

(* An ended call is a call.                                                *)
LEMMA EndedCall ==
  /\ [NoCall EXCEPT !.at = "ended"] \in CallRows
  /\ [NoCall EXCEPT !.at = "ended"].at = "ended"
  /\ [NoCall EXCEPT !.at = "ended"].track = 0
BY Numbers DEF CallRows, CallPlace, NoCall

(* A generated track is created, or found.                                 *)
LEMMA CreatePreserves ==
  ASSUME IInv, NEW k \in Calls, Create(k)
  PROVE  IInv' /\ TextKept
<1> DEFINE status == IF call[k].op = "probe" /\ source.silent THEN "disabled" ELSE "pending"
           new == [Unborn EXCEPT !.language = call[k].language, !.status = status]
           row(t) == IF Exists(t) THEN track[t] ELSE new
<1>1. call[k] \in CallRows /\ k \notin Spent /\ Ends(k) /\ UNCHANGED <<source, file, workers>>
  BY DEF IInv, TypeOK, CallRows, Create, Spent, At
<1>2. PICK t \in IF Generated = {} THEN Fresh ELSE Generated :
        IF LanguageFree(t, row(t).language)
        THEN /\ track' = [track EXCEPT ![t] = row(t)]
             /\ IF row(t).status = "pending" THEN Enqueued(t, row(t).version, row(t).language)
                ELSE UNCHANGED <<runs, troubles>>
        ELSE UNCHANGED <<track, runs, troubles>>
  BY DEF Create
<1>3. t \in Tracks /\ (~Exists(t) => track[t].status = "unborn")
  BY DEF Fresh, Generated
<1>4. CASE ~LanguageFree(t, row(t).language)
  <2>1. UNCHANGED <<track, runs, troubles>>
    BY <1>2, <1>4
  <2>2. file' \in [Languages -> Texts \cup {None}] /\ troubles' \in 0..MaxTroubles
    BY <1>1, <2>1 DEF IInv, TypeOK
  <2>3. IInv'
    BY <1>1, <2>1, <2>2, EndsMove
  <2> QED
    BY <2>1, <2>3 DEF TextKept
<1>5. CASE LanguageFree(t, row(t).language)
  <2> DEFINE r == row(t)
  <2>1. /\ track[t] \in LooseRows /\ track[t].version \in Nat /\ track[t].version >= 1
        /\ Due(track[t]) \in {0, 1} /\ Cardinality(Spent) \in Nat
        /\ track[t].status # "unborn" => track[t].version + Due(track[t]) <= 2 * Cardinality(Spent)
    BY <1>3, RowTypes
  <2>2. new \in LooseRows /\ new.version = 1 /\ new.status \in {"disabled", "pending"}
        /\ new.kind = "auto"
    BY <1>1, Numbers DEF Unborn, LooseRows, TrackStatus, Kinds, CallRows
  <2>3. track[t].status = "unborn" => ~Exists(t)
    BY DEF Exists
  <2>4. track[t].status # "unborn" => r = track[t]
    BY <1>3
  <2>5. track[t].status = "unborn" => r = new
    BY <2>3
  <2> HIDE DEF new, status
  <2>6. r \in LooseRows /\ r.status # "unborn" /\ r.version \in Nat
    BY <2>1, <2>2, <2>4, <2>5 DEF LooseRows
  <2>7. r = track[t] \/ (track[t].status = "unborn" /\ r.status # "unborn" /\ r.version = 1)
    BY <2>2, <2>4, <2>5
  <2>8. r.version + Due(r) <= 2 * Cardinality(Spent) + 2
    BY <2>1, <2>2, <2>4, <2>5 DEF Due
  <2>9. track' = [track EXCEPT ![t] = r]
    BY <1>2, <1>5
  <2>10. r.status = "ready" /\ r.cues \in Calls => r.kind # "auto"
    BY <1>3, <2>2, <2>4, <2>5 DEF IInv, KindsAgree
  <2>11. track'[t] = r
    BY <1>3, <2>9 DEF IInv, TypeOK
  <2>12. /\ troubles' \in 0..MaxTroubles
         /\ \/ UNCHANGED runs
            \/ \E v \in Versions, l \in Languages \cup {None} : Add(t, v, l) /\ RunOfNext(t, v)
    <3>1. CASE r.status # "pending"
      <4>1. UNCHANGED <<runs, troubles>>
        BY <1>2, <1>5, <3>1
      <4> QED
        BY <4>1, TroubleCounts
    <3>2. CASE r.status = "pending"
      <4>1. Enqueued(t, r.version, r.language)
        BY <1>2, <1>5, <3>2
      <4>2. RunOfNext(t, r.version)
        BY <1>3, <2>11, <3>2 DEF RunOfNext
      <4>3. r.version \in Versions /\ r.language \in Languages \cup {None}
        <5>1. track[t].version \in Versions
          BY <1>3, RowTypes DEF TrackRows
        <5> QED
          BY <2>2, <2>4, <2>5, <2>6, <5>1, Numbers DEF LooseRows
      <4> QED
        BY <4>1, <4>2, <4>3, TroubleCounts DEF Enqueued
    <3> QED
      BY <3>1, <3>2
  <2> HIDE DEF r
  <2>13. IInv'
    BY <1>1, <1>3, <2>6, <2>7, <2>8, <2>9, <2>10, <2>12, EndedCall, RowCallMoves DEF Ends
  <2>14. TextKept
    <3> SUFFICES ASSUME NEW s \in Tracks, track[s].status = "ready"
                 PROVE  track'[s] = track[s]
      BY DEF TextKept
    <3> QED
      BY <2>4, <2>9 DEF IInv, TypeOK
  <2> QED
    BY <2>13, <2>14
<1> QED
  BY <1>4, <1>5

(* A generated track starts over, at the version the call found.           *)
LEMMA RestartPreserves ==
  ASSUME IInv, NEW k \in Calls, Restart(k)
  PROVE  IInv' /\ TextKept
<1> DEFINE t == call[k].track
           l == call[k].language
<1>1. call[k] \in CallRows /\ k \notin Spent /\ Ends(k) /\ UNCHANGED <<source, file, workers>>
      /\ At(k, "start") /\ t # 0
  BY DEF IInv, TypeOK, CallRows, Restart, Spent, At
<1>2. t \in Tracks /\ l \in Languages \cup {None} /\ call[k].op = "generate"
      /\ track[t].status # "unborn"
  BY <1>1 DEF CallRows, IInv, CallsAgree, UnbornsAreNew
<1>3. CASE ~(Locks(t, call[k].version) /\ LanguageFree(t, l))
  <2>1. UNCHANGED <<track, runs, troubles>>
    BY <1>3 DEF Restart
  <2>2. file' \in [Languages -> Texts \cup {None}] /\ troubles' \in 0..MaxTroubles
    BY <1>1, <2>1 DEF IInv, TypeOK
  <2>3. IInv'
    BY <1>1, <2>1, <2>2, EndsMove
  <2> QED
    BY <2>1, <2>3 DEF TextKept
<1>4. CASE Locks(t, call[k].version) /\ LanguageFree(t, l)
  <2> DEFINE r == Regenerate(track[t], l)
  <2>1. /\ track[t] \in LooseRows /\ track[t].version \in Nat /\ track[t].version >= 1
        /\ Due(track[t]) \in {0, 1} /\ Cardinality(Spent) \in Nat
        /\ track[t].version + Due(track[t]) <= 2 * Cardinality(Spent)
    BY <1>2, RowTypes
  <2>2. /\ track' = [track EXCEPT ![t] = r]
        /\ Enqueued(t, call[k].version + 1, l)
        /\ call[k].version = track[t].version
    BY <1>4 DEF Restart, Locks
  <2>3. /\ r \in LooseRows /\ r.version = track[t].version + 1 /\ r.status = "pending"
        /\ Due(r) = 1
    <3> DEFINE b == [track[t] EXCEPT !.kind = "auto", !.status = "pending", !.language = l]
    <3>1. b \in LooseRows /\ b.status = "pending" /\ b.version = track[t].version
      BY <1>2, <2>1 DEF LooseRows, TrackStatus, Kinds
    <3>2. r = Bumped(b)
      BY DEF Regenerate
    <3> HIDE DEF b
    <3> QED
      BY <3>1, <3>2, BumpedRow DEF Due
  <2> HIDE DEF r
  <2>4. r.version + Due(r) <= 2 * Cardinality(Spent) + 2
    BY <2>1, <2>3
  <2>5. r.version \in Versions
    <3>1. Cardinality(Spent') = Cardinality(Spent) + 1
      <4>1. call'[k].at = "ended" /\ \A j \in Calls \ {k} : call'[j] = call[j]
        BY <1>1, EndedCall DEF Ends, IInv, TypeOK
      <4> QED
        BY <1>1, <4>1, SpentGrows
    <3>2. Cardinality(Spent') <= MaxCalls /\ MaxCalls \in Nat
      BY SpentBoundNext, Numbers
    <3>3. r.version + 1 <= 2 * MaxCalls /\ r.version \in Nat /\ r.version >= 1
      BY <2>1, <2>3, <2>4, <3>1, <3>2
    <3> QED
      BY <3>2, <3>3, Numbers
  <2>6. track'[t] = r
    BY <1>2, <2>2 DEF IInv, TypeOK
  <2>7. RunOfNext(t, r.version)
    BY <1>2, <2>3, <2>6 DEF RunOfNext
  <2>8. Enqueued(t, r.version, l)
    BY <2>2, <2>3
  <2>9. /\ troubles' \in 0..MaxTroubles
        /\ \/ UNCHANGED runs
           \/ \E v \in Versions, i \in Languages \cup {None} : Add(t, v, i) /\ RunOfNext(t, v)
    BY <1>2, <2>5, <2>7, <2>8, TroubleCounts DEF Enqueued
  <2>10. IInv'
    BY <1>1, <1>2, <2>2, <2>3, <2>4, <2>9, EndedCall, RowCallMoves DEF Ends
  <2>11. TextKept
    <3> SUFFICES ASSUME NEW s \in Tracks, track[s].status = "ready", track[s].cues \in Calls
                 PROVE  track'[s] = track[s] \/ \E j \in Calls : MayReplace(j)
      BY DEF TextKept
    <3>1. CASE s # t
      BY <2>2, <3>1 DEF IInv, TypeOK
    <3>2. CASE s = t
      <4>1. track[t].kind # "auto"
        BY <3>2 DEF IInv, KindsAgree
      <4>2. call[k].overwrite
        BY <1>1, <2>2, <3>2, <4>1 DEF IInv, ConsentHolds, CallRows
      <4>3. call'[k] # call[k]
        <5>1. call'[k].at = "ended"
          BY <1>1, EndedCall DEF Ends, IInv, TypeOK
        <5> QED
          BY <1>1, <5>1 DEF At
      <4> QED
        BY <1>2, <4>2, <4>3 DEF MayReplace
    <3> QED
      BY <3>1, <3>2
  <2> QED
    BY <2>10, <2>11
<1> QED
  BY <1>3, <1>4

(* The creator uploads a text of her own.                                  *)
LEMMA UploadPreserves ==
  ASSUME IInv, NEW k \in Calls, NEW l \in Languages, Upload(k, l)
  PROVE  IInv' /\ TextKept
<1> DEFINE born(t) == [track[t] EXCEPT !.kind = "uploaded", !.status = "ready", !.language = l, !.cues = k]
           c(t) == [call[k] EXCEPT !.at = "publish", !.op = "upload", !.track = t, !.language = l, !.text = k]
           row(t) == IF Exists(t) THEN Replace(track[t], k) ELSE born(t)
<1>1. PICK t \in IF InLanguage(l) = {} THEN Fresh ELSE InLanguage(l) :
        /\ track' = [track EXCEPT ![t] = row(t)]
        /\ call' = [call EXCEPT ![k] = c(t)]
  BY DEF Upload
<1>2. t \in Tracks /\ (Exists(t) \/ track[t].status = "unborn")
  BY DEF Fresh, InLanguage
<1>3. call[k] \in CallRows /\ k \notin Spent /\ UNCHANGED <<source, file, runs, workers, troubles>>
      /\ At(k, "idle") /\ k \in Texts
  BY Numbers DEF IInv, TypeOK, CallRows, Upload, Spent, At, IsNext
<1> DEFINE r == row(t)
           d == c(t)
<1>4. /\ track[t] \in LooseRows /\ track[t].version \in Nat /\ track[t].version >= 1
      /\ Due(track[t]) \in {0, 1} /\ Cardinality(Spent) \in Nat
      /\ track[t].status # "unborn" => track[t].version + Due(track[t]) <= 2 * Cardinality(Spent)
      /\ track[t].status = "unborn" => track[t].version = 1
  BY <1>2, RowTypes
<1>5. d \in CallRows /\ d.at = "publish" /\ d.track = t /\ d.op = "upload"
  BY <1>2, <1>3 DEF CallRows, CallPlace
<1>6. Replace(track[t], k) \in LooseRows /\ Replace(track[t], k).version = track[t].version + 1
      /\ Replace(track[t], k).status = "ready" /\ Replace(track[t], k).kind = "uploaded"
  <2> DEFINE b == [track[t] EXCEPT !.kind = "uploaded", !.status = "ready", !.cues = k]
  <2>1. /\ b \in LooseRows /\ b.status = "ready" /\ b.kind = "uploaded"
        /\ b.version = track[t].version
    BY <1>3, <1>4 DEF LooseRows, TrackStatus, Kinds
  <2>2. Replace(track[t], k) = Bumped(b)
    BY DEF Replace
  <2> HIDE DEF b
  <2> QED
    BY <2>1, <2>2, BumpedRow
<1>7. born(t) \in LooseRows /\ born(t).version = track[t].version
      /\ born(t).status = "ready" /\ born(t).kind = "uploaded"
  BY <1>3, <1>4 DEF LooseRows, TrackStatus, Kinds
<1>8. Exists(t) => track[t].status # "unborn"
  BY DEF Exists
<1>9. \/ r = Replace(track[t], k) /\ track[t].status # "unborn"
      \/ r = born(t) /\ track[t].status = "unborn"
  BY <1>2, <1>8
<1>10. track' = [track EXCEPT ![t] = r] /\ call' = [call EXCEPT ![k] = d]
  BY <1>1
<1> HIDE DEF c, born, row, r, d
<1>11. r \in LooseRows /\ r.status = "ready" /\ r.kind = "uploaded" /\ Due(r) = 0
  BY <1>6, <1>7, <1>9 DEF Due
<1>12. \/ track[t].status = "unborn" /\ r.status # "unborn" /\ r.version = 1
       \/ track[t].status # "unborn" /\ r.status # "unborn" /\ r.version = track[t].version + 1
  BY <1>4, <1>6, <1>7, <1>9
<1>13. r.version + Due(r) <= 2 * Cardinality(Spent) + 2
  BY <1>4, <1>11, <1>12
<1>14. troubles' \in 0..MaxTroubles
  BY <1>3, TroubleCounts
<1>15. UNCHANGED runs
  BY <1>3
<1>16. IInv'
  BY <1>2, <1>3, <1>5, <1>10, <1>11, <1>12, <1>13, <1>14, <1>15, RowCallMoves
<1>17. MayReplace(k)
  <2>1. call'[k] = d
    BY <1>10 DEF IInv, TypeOK
  <2> QED
    BY <1>3, <1>5, <2>1 DEF MayReplace, At
<1> QED
  BY <1>16, <1>17 DEF TextKept

(* The creator edits the cues of the version her editor shows.             *)
LEMMA EditPreserves ==
  ASSUME IInv, NEW k \in Calls, Edit(k)
  PROVE  IInv' /\ TextKept
<1> DEFINE t == call[k].track
<1>1. call[k] \in CallRows /\ k \notin Spent /\ UNCHANGED <<source, file, runs, workers, troubles>>
      /\ At(k, "edit") /\ k \in Texts
  BY Numbers DEF IInv, TypeOK, CallRows, Edit, Spent, At
<1>2. t \in Tracks /\ t # 0 /\ call[k].op = "edit" /\ track[t].status # "unborn"
  BY <1>1 DEF CallRows, IInv, CallsAgree, UnbornsAreNew, At
<1>3. troubles' \in 0..MaxTroubles
  BY <1>1, TroubleCounts
<1>4. CASE ~Locks(t, call[k].version)
  <2>1. Ends(k) /\ UNCHANGED track
    BY <1>4 DEF Edit
  <2>2. file' \in [Languages -> Texts \cup {None}]
    BY <1>1 DEF IInv, TypeOK
  <2>3. IInv'
    BY <1>1, <1>3, <2>1, <2>2, EndsMove
  <2> QED
    BY <2>1, <2>3 DEF TextKept
<1>5. CASE Locks(t, call[k].version)
  <2> DEFINE r == EditCues(track[t], k)
             d == [call[k] EXCEPT !.at = IF track[t].status = "ready" THEN "read" ELSE "ended"]
  <2>1. /\ track[t] \in LooseRows /\ track[t].version \in Nat /\ track[t].version >= 1
        /\ Due(track[t]) \in {0, 1} /\ Cardinality(Spent) \in Nat
        /\ track[t].version + Due(track[t]) <= 2 * Cardinality(Spent)
    BY <1>2, RowTypes
  <2>2. track' = [track EXCEPT ![t] = r] /\ call' = [call EXCEPT ![k] = d]
    BY <1>5 DEF Edit
  <2>3. /\ r \in LooseRows /\ r.version = track[t].version + 1 /\ r.status = track[t].status
        /\ r.kind # "auto" /\ Due(r) = Due(track[t])
    <3> DEFINE i == IF track[t].kind = "auto" THEN "edited" ELSE track[t].kind
               b == [track[t] EXCEPT !.kind = i, !.cues = k]
    <3>1. i \in Kinds /\ i # "auto"
      BY <2>1 DEF LooseRows, Kinds
    <3>2. r = Bumped(b)
      BY DEF EditCues
    <3> HIDE DEF i
    <3>3. /\ b \in LooseRows /\ b.status = track[t].status /\ b.kind = i
          /\ b.version = track[t].version
      BY <1>1, <2>1, <3>1 DEF LooseRows
    <3> HIDE DEF b
    <3> QED
      BY <3>1, <3>2, <3>3, BumpedRow DEF Due
  <2>4. d \in CallRows /\ d.at \in {"read", "ended"} /\ d.track = t /\ d.op = "edit"
    BY <1>1, <1>2 DEF CallRows, CallPlace
  <2> HIDE DEF r, d
  <2>5. r.version + Due(r) <= 2 * Cardinality(Spent) + 2
    BY <2>1, <2>3
  <2>6. UNCHANGED runs /\ UNCHANGED <<source, file, workers>>
    BY <1>1
  <2>7. IInv'
    BY <1>1, <1>2, <1>3, <2>2, <2>3, <2>4, <2>5, <2>6, RowCallMoves
  <2>8. MayReplace(k)
    <3>1. call'[k] = d
      BY <2>2 DEF IInv, TypeOK
    <3> QED
      BY <1>1, <1>2, <2>4, <3>1 DEF MayReplace, At
  <2> QED
    BY <2>7, <2>8 DEF TextKept
<1> QED
  BY <1>4, <1>5

(* The creator removes a track, once its file is gone.                     *)
LEMMA DeletePreserves ==
  ASSUME IInv, NEW k \in Calls, Delete(k)
  PROVE  IInv' /\ TextKept
<1> DEFINE t == call[k].track
           r == [track[t] EXCEPT !.status = "deleted", !.cues = NoCues]
<1>1. call[k] \in CallRows /\ k \in Spent /\ UNCHANGED <<source, file, runs, workers, troubles>>
      /\ At(k, "delete") /\ Ends(k) /\ call[k].op = "remove"
  BY DEF IInv, TypeOK, CallRows, Delete, Spent, At, CallsAgree
<1>2. track' = [track EXCEPT ![t].status = "deleted", ![t].cues = NoCues]
  BY DEF Delete
<1>3. troubles' \in 0..MaxTroubles
  BY <1>1, TroubleCounts
<1>4. MayReplace(k)
  <2>1. call'[k].at = "ended"
    BY <1>1, EndedCall DEF Ends, IInv, TypeOK
  <2> QED
    BY <1>1, <2>1 DEF MayReplace, At
<1>5. CASE t = 0
  <2>1. track' = track
    BY <1>2, <1>5, Numbers DEF IInv, TypeOK
  <2>2. file' \in [Languages -> Texts \cup {None}]
    BY <1>1 DEF IInv, TypeOK
  <2>3. IInv'
    BY <1>1, <1>3, <2>1, <2>2, EndsMove
  <2> QED
    BY <1>4, <2>3 DEF TextKept
<1>6. CASE t # 0
  <2>1. t \in Tracks /\ track[t].status # "unborn"
    BY <1>1, <1>6 DEF CallRows, IInv, UnbornsAreNew
  <2>2. /\ track[t] \in LooseRows /\ track[t].version \in Nat /\ track[t].version >= 1
        /\ Due(track[t]) \in {0, 1} /\ Cardinality(Spent) \in Nat
        /\ track[t].version + Due(track[t]) <= 2 * Cardinality(Spent)
    BY <2>1, RowTypes
  <2>3. track' = [track EXCEPT ![t] = r]
    BY <1>2
  <2>4. r \in LooseRows /\ r.version = track[t].version /\ r.status = "deleted" /\ Due(r) = 0
    BY <2>2, Numbers DEF LooseRows, TrackStatus, Due
  <2> HIDE DEF r
  <2>5. r.version + Due(r) <= 2 * Cardinality(Spent)
    BY <2>2, <2>4
  <2>6. UNCHANGED runs /\ UNCHANGED <<source, file, workers>>
    BY <1>1
  <2>7. IInv'
    BY <1>1, <1>3, <2>1, <2>3, <2>4, <2>5, <2>6, EndedCall, RowCallMoves DEF Ends
  <2> QED
    BY <1>4, <2>7 DEF TextKept
<1> QED
  BY <1>5, <1>6

-----------------------------------------------------------------------------
(* The workers, the queue and the reconciler.                              *)

(* What they may do to the rows, under calls that stay where they are.     *)
RowsStand ==
  /\ call' = call
  /\ track' \in [Tracks -> TrackRows]
  /\ \A t \in Tracks : Advances(t)
  /\ VersionsSuffice' /\ UnbornsAreNew' /\ ConsentHolds' /\ KindsAgree' /\ CallsAgree'
  /\ TextKept

(* They leave them alone.                                                  *)
LEMMA RowsRest ==
  ASSUME IInv, call' = call, track' = track
  PROVE  RowsStand
<1>1. Spent' = Spent
  BY DEF Spent
<1>2. VersionsSuffice'
  BY <1>1 DEF IInv, VersionsSuffice, Due
<1>3. track' \in [Tracks -> TrackRows] /\ (\A t \in Tracks : Advances(t)) /\ TextKept
  BY DEF IInv, TypeOK, TrackRows, Advances, TextKept
<1>4. UnbornsAreNew' /\ ConsentHolds' /\ KindsAgree' /\ CallsAgree'
  BY DEF IInv, UnbornsAreNew, ConsentHolds, KindsAgree, CallsAgree, At
<1> QED
  BY <1>2, <1>3, <1>4 DEF RowsStand

(* The outcome of a run that was asked for: its row is pending, so it      *)
(* holds no text of the creator's to be seen.                              *)
LEMMA RunSettles ==
  ASSUME IInv, call' = call, NEW v \in Versions, asked[v].track # 0, Locks(asked[v].track, v),
         NEW r \in LooseRows, track' = [track EXCEPT ![asked[v].track] = r],
         r.version = track[asked[v].track].version + 1,
         r.status \in {"ready", "failed", "disabled"},
         r.status = "ready" => r.cues = Speech
  PROVE  RowsStand
<1> DEFINE t == asked[v].track
<1>1. RunOf(t, v) /\ t \in Tracks
  BY DEF IInv, RunsAreAsked, RunOf
<1>2. track[t].version \in Nat /\ v \in Nat /\ track[t].version = v /\ track[t].status # "deleted"
  BY <1>1, RowTypes, Numbers DEF Locks, Exists
<1>3. track[t].status = "pending"
  BY <1>1, <1>2 DEF RunOf
<1>4. Due(track[t]) = 1 /\ Due(r) = 0
  BY <1>3 DEF Due
<1>5. track[t].version + Due(track[t]) <= 2 * Cardinality(Spent) /\ Cardinality(Spent) \in Nat
  BY <1>1, <1>3, RowTypes
<1>6. Spent' = Spent
  BY DEF Spent
<1> HIDE DEF t
<1>7. r.version + Due(r) <= 2 * Cardinality(Spent')
  BY <1>2, <1>4, <1>5, <1>6 DEF t
<1>8. \A k \in Calls : k \in Spent => call'[k].at \notin {"idle", "start", "edit"}
  BY DEF Spent
<1>9. track' = [track EXCEPT ![t] = r] /\ track[t].status # "unborn" /\ r.version = track[t].version + 1
  BY <1>3 DEF t
<1>10. r.status = "ready" /\ r.cues \in Calls => r.kind # "auto"
  BY Numbers
<1>11. /\ track' \in [Tracks -> TrackRows] /\ \A s \in Tracks : Advances(s)
       /\ VersionsSuffice' /\ UnbornsAreNew' /\ ConsentHolds' /\ KindsAgree'
  BY <1>1, <1>7, <1>8, <1>9, <1>10, RowChanges
<1>12. CallsAgree'
  BY DEF IInv, CallsAgree, At
<1>13. TextKept
  BY <1>3, <1>9 DEF TextKept, IInv, TypeOK
<1> QED
  BY <1>11, <1>12, <1>13 DEF RowsStand

(* A run fails its track, if that is still at its version.                 *)
LEMMA RunFails ==
  ASSUME IInv, call' = call, NEW v \in Versions, asked[v].track # 0,
         NEW s \in {"failed", "disabled"}, FailTrack(asked[v].track, v, s)
  PROVE  RowsStand
<1> DEFINE t == asked[v].track
<1>1. CASE ~Locks(t, v)
  BY <1>1, RowsRest DEF FailTrack
<1>2. CASE Locks(t, v)
  <2>1. t \in Tracks
    BY DEF IInv, RunsAreAsked, RunOf
  <2>2. track[t] \in LooseRows
    BY <2>1, RowTypes
  <2> DEFINE b == [track[t] EXCEPT !.status = s]
             r == Bumped(b)
  <2>3. b \in LooseRows /\ b.status = s /\ b.version = track[t].version
    BY <2>2 DEF LooseRows, TrackStatus
  <2>4. track' = [track EXCEPT ![t] = r]
    BY <1>2 DEF FailTrack, Fail
  <2> HIDE DEF b
  <2>5. r \in LooseRows /\ r.status = s /\ r.version = track[t].version + 1
    BY <2>3, BumpedRow
  <2> HIDE DEF r
  <2> QED
    BY <1>2, <2>4, <2>5, RunSettles
<1> QED
  BY <1>1, <1>2

(* A run completes its track.                                              *)
LEMMA RunCompletes ==
  ASSUME IInv, call' = call, NEW v \in Versions, asked[v].track # 0, NEW l \in Languages,
         Locks(asked[v].track, v),
         track' = [track EXCEPT ![asked[v].track] = Complete(track[asked[v].track], l)]
  PROVE  RowsStand
<1> DEFINE t == asked[v].track
<1>1. t \in Tracks
  BY DEF IInv, RunsAreAsked, RunOf
<1>2. track[t] \in LooseRows
  BY <1>1, RowTypes
<1> DEFINE b == [track[t] EXCEPT !.status = "ready", !.language = l, !.cues = Speech]
           r == Bumped(b)
<1>3. b \in LooseRows /\ b.status = "ready" /\ b.cues = Speech /\ b.version = track[t].version
  BY <1>2, Numbers DEF LooseRows, TrackStatus
<1>4. track' = [track EXCEPT ![t] = r]
  BY DEF Complete
<1> HIDE DEF b
<1>5. r \in LooseRows /\ r.status = "ready" /\ r.cues = Speech /\ r.version = track[t].version + 1
  BY <1>3, BumpedRow
<1> HIDE DEF r
<1> QED
  BY <1>4, <1>5, RunSettles

(* The queue and the workers, when they do nothing.                        *)
LEMMA QueueRests ==
  ASSUME IInv, job' = job, failing' \subseteq failing, NEW v \in Versions
  PROVE  QueueMoves(v)
<1>1. job' \in [Versions -> Flows] /\ failing' \subseteq Failures
  BY DEF IInv, TypeOK, Flows, Failures
<1> QED
  BY <1>1 DEF QueueMoves

(* No execution moves.                                                     *)
LEMMA WorkersRest ==
  ASSUME IInv, exec' = exec, NEW v \in Versions
  PROVE  WorkersMove(v)
BY DEF IInv, TypeOK, ExecRows, WorkersMove

(* Rows of processing_steps.                                               *)
LEMMA StepTypes ==
  ASSUME NEW row \in StepRows(Workers \cup {None})
  PROVE  /\ Completed(row) \in StepRows(Workers \cup {None})
         /\ Failed(row) \in StepRows(Workers \cup {None})
         /\ MarkedDead(row) \in StepRows(Workers \cup {None})
         /\ \A e \in Workers : Claimed(e) \in StepRows(Workers \cup {None})
BY DEF StepRows, StepStatus, Completed, Failed, MarkedDead, Claimed, Ended

(* A row of processing_steps that changes.                                 *)
LEMMA StepChanges ==
  ASSUME IInv, NEW v \in Versions, NEW p \in Plans, NEW row \in StepRows(Workers \cup {None})
  PROVE  [step EXCEPT ![v][p] = row] \in [Versions -> [Plans -> StepRows(Workers \cup {None})]]
<1>1. step \in [Versions -> [Plans -> StepRows(Workers \cup {None})]]
  BY DEF IInv, TypeOK
<1>2. [step[v] EXCEPT ![p] = row] \in [Plans -> StepRows(Workers \cup {None})]
  BY <1>1
<1> QED
  BY <1>1, <1>2

(* A step of a worker or of the queue over a run that was asked for.       *)
LEMMA WorkPreserves ==
  ASSUME IInv, RowsStand, UNCHANGED <<source, asked>>, NEW v \in Versions, asked[v].track # 0,
         QueueMoves(v), WorkersMove(v),
         file' \in [Languages -> Texts \cup {None}],
         step' \in [Versions -> [Plans -> StepRows(Workers \cup {None})]],
         written' \subseteq Versions \X Windows, unheard' \subseteq Versions,
         troubles' \in 0..MaxTroubles
  PROVE  IInv'
<1>1. RunsAreAsked'
  BY RunsStandAtWork DEF IInv, RowsStand
<1>2. TypeOK'
  BY DEF IInv, TypeOK, RowsStand, TrackRows, QueueMoves, Flows, Failures, WorkersMove, ExecRows
<1> QED
  BY <1>1, <1>2 DEF IInv, RowsStand

(* What a busy worker works on.                                            *)
LEMMA BusyWorker ==
  ASSUME IInv, NEW e \in Workers, ~On(e, "idle")
  PROVE  /\ exec[e] \in ExecRows /\ exec[e].v \in Versions /\ exec[e].plan \in Plans
         /\ exec[e].at # "idle" /\ asked[exec[e].v].track # 0
         /\ StepOf(e) \in StepRows(Workers \cup {None})
<1>1. exec[e] \in ExecRows /\ exec[e].v \in Versions /\ exec[e].plan \in Plans
  BY DEF IInv, TypeOK, ExecRows
<1>2. exec[e].at # "idle" /\ asked[exec[e].v].track # 0
  BY DEF IInv, RunsAreAsked, On
<1>3. StepOf(e) \in StepRows(Workers \cup {None})
  <2>1. step \in [Versions -> [Plans -> StepRows(Workers \cup {None})]]
    BY DEF IInv, TypeOK
  <2> QED
    BY <1>1, <2>1 DEF StepOf
<1> QED
  BY <1>1, <1>2, <1>3

(* The variables that most steps leave alone.                              *)
LEMMA RestTypes ==
  ASSUME IInv
  PROVE  /\ file' = file => file' \in [Languages -> Texts \cup {None}]
         /\ step' = step => step' \in [Versions -> [Plans -> StepRows(Workers \cup {None})]]
         /\ written' = written => written' \subseteq Versions \X Windows
         /\ unheard' = unheard => unheard' \subseteq Versions
         /\ troubles' = troubles => troubles' \in 0..MaxTroubles
BY DEF IInv, TypeOK

(* A worker takes a job, or answers at once.                               *)
LEMMA DeliverPreserves ==
  ASSUME IInv, NEW e \in Workers, NEW v \in Versions, NEW p \in Plans, Deliver(e, v, p)
  PROVE  IInv' /\ TextKept
<1> DEFINE claims == IsCurrent(v) /\ Claimable(step[v][p])
           taken == Queue!Taken(job[v][p], e)
           place == IF claims THEN "work" ELSE "purge"
           x == [NoExec EXCEPT !.v = v, !.plan = p, !.at = place]
<1>1. job[v][p].state = "waiting" /\ asked[v].track # 0
      /\ UNCHANGED <<source, track, file, call, asked, written, unheard, troubles>>
  BY DEF Deliver, IInv, RunsAreAsked
<1>2. job \in [Versions -> Flows] /\ job[v] \in Flows /\ job[v][p] \in Queue!StageJobs(Workers)
  BY DEF IInv, TypeOK, Flows
<1>3. taken \in Queue!StageJobs(Workers) /\ Queue!Answered(taken, "ok") \in Queue!StageJobs(Workers)
  BY <1>2, JobTypes
<1>4. RowsStand
  BY <1>1, RowsRest
<1>5. CASE claims \/ (p = Run /\ HasWindows)
  <2>1. /\ job' = [job EXCEPT ![v][p] = taken]
        /\ exec' = [exec EXCEPT ![e] = x]
        /\ step' = IF claims THEN [step EXCEPT ![v][p] = Claimed(e)] ELSE step
        /\ failing' = failing
    BY <1>5 DEF Deliver
  <2>2. place \in ExecPlace
    BY DEF ExecPlace
  <2> HIDE DEF place, claims, taken
  <2>3. x \in ExecRows /\ x.v = v
    BY <2>2, Numbers DEF ExecRows, NoExec, Outcomes
  <2> HIDE DEF x
  <2>4. WorkersMove(v)
    BY <2>1, <2>3 DEF WorkersMove, IInv, TypeOK, ExecRows
  <2>5. QueueMoves(v)
    <3>1. job' \in [Versions -> Flows]
      BY <1>2, <1>3, <2>1 DEF Flows
    <3>2. ASSUME NEW u \in Versions, NEW q \in Plans, job'[u][q].state # "absent"
          PROVE  job[u][q].state # "absent"
      BY <1>1, <1>2, <2>1, <3>2 DEF Flows
    <3>3. failing' \subseteq Failures /\ \A f \in failing' : f \in failing
      BY <2>1 DEF IInv, TypeOK, Failures
    <3> QED
      BY <3>1, <3>2, <3>3 DEF QueueMoves
  <2>6. step' \in [Versions -> [Plans -> StepRows(Workers \cup {None})]]
    <3>1. Claimed(e) \in StepRows(Workers \cup {None})
      BY DEF Claimed, StepRows, StepStatus
    <3> QED
      BY <2>1, <3>1, StepChanges, RestTypes
  <2>7. IInv'
    BY <1>1, <1>4, <2>4, <2>5, <2>6, RestTypes, WorkPreserves
  <2> QED
    BY <1>4, <2>7 DEF RowsStand
<1>6. CASE ~(claims \/ (p = Run /\ HasWindows))
  <2>1. Settled(v, p, Queue!Answered(taken, "ok")) /\ exec' = exec /\ step' = step
    BY <1>6 DEF Deliver
  <2> HIDE DEF taken
  <2>2. QueueMoves(v)
    BY <1>1, <1>3, <2>1, SettledMoves DEF IInv
  <2>3. WorkersMove(v)
    BY <2>1, WorkersRest
  <2>4. IInv'
    BY <1>1, <1>4, <2>1, <2>2, <2>3, RestTypes, WorkPreserves
  <2> QED
    BY <1>4, <2>4 DEF RowsStand
<1> QED
  BY <1>5, <1>6

(* The work of an execution, before its step is settled.                   *)
LEMMA StagePreserves ==
  ASSUME IInv, NEW e \in Workers,
         WriteWindow(e) \/ UploadTrack(e) \/ CommitTrack(e) \/ FailTaken(e)
  PROVE  IInv' /\ TextKept
<1> DEFINE v == exec[e].v
<1>1. ~On(e, "idle")
  BY DEF WriteWindow, UploadTrack, CommitTrack, FailTaken, On
<1>2. /\ exec[e] \in ExecRows /\ v \in Versions /\ exec[e].plan \in Plans
      /\ exec[e].at # "idle" /\ asked[v].track # 0
  BY <1>1, BusyWorker
<1>3. /\ call' = call /\ UNCHANGED <<source, asked>> /\ step' = step /\ unheard' = unheard
      /\ troubles' = troubles /\ job' = job /\ failing' = failing
  BY DEF WriteWindow, UploadTrack, CommitTrack, FailTaken, runs
<1>4. QueueMoves(v)
  BY <1>2, <1>3, QueueRests
<1>5. ASSUME NEW place \in ExecPlace, NEW o \in Outcomes,
             exec' = [exec EXCEPT ![e].at = place, ![e].outcome = o]
      PROVE  WorkersMove(v)
  <2> DEFINE x == [exec[e] EXCEPT !.at = place, !.outcome = o]
  <2>1. x \in ExecRows /\ x.v = exec[e].v
    BY <1>2 DEF ExecRows
  <2>2. exec' = [exec EXCEPT ![e] = x]
    BY <1>5
  <2> HIDE DEF x
  <2> QED
    BY <1>2, <2>1, <2>2, GoesMove DEF IInv
<1>6. ASSUME NEW place \in ExecPlace, Goes(e, place)
      PROVE  WorkersMove(v)
  <2> DEFINE x == [exec[e] EXCEPT !.at = place]
  <2>1. x \in ExecRows /\ x.v = exec[e].v
    BY <1>2 DEF ExecRows
  <2>2. exec' = [exec EXCEPT ![e] = x]
    BY <1>6 DEF Goes
  <2> HIDE DEF x
  <2> QED
    BY <1>2, <2>1, <2>2, GoesMove DEF IInv
<1>7. CASE WriteWindow(e)
  <2>1. WorkersMove(v)
    <3>1. CASE source.silent
      <4>1. exec' = [exec EXCEPT ![e].at = "settle", ![e].outcome = "silent"]
        BY <1>7, <3>1 DEF WriteWindow
      <4> QED
        BY <1>5, <4>1 DEF ExecPlace, Outcomes
    <3>2. CASE ~source.silent
      BY <1>6, <1>7, <3>2 DEF WriteWindow, ExecPlace
    <3> QED
      BY <3>1, <3>2
  <2>2. written' \subseteq Versions \X Windows
    <3>1. exec[e].plan \in Windows
      BY <1>2, <1>7 DEF WriteWindow, Plans
    <3>2. written' = written \/ written' = written \cup {<<v, exec[e].plan>>}
      BY <1>7 DEF WriteWindow
    <3> QED
      BY <1>2, <3>1, <3>2 DEF IInv, TypeOK
  <2>3. RowsStand /\ file' = file
    BY <1>3, <1>7, RowsRest DEF WriteWindow
  <2>4. IInv'
    BY <1>2, <1>3, <1>4, <2>1, <2>2, <2>3, RestTypes, WorkPreserves
  <2> QED
    BY <2>3, <2>4 DEF RowsStand
<1>8. CASE UploadTrack(e)
  <2> DEFINE outcome == IF HasWindows
                        THEN IF {v} \X Windows \subseteq written THEN "ok" ELSE "transient"
                        ELSE IF source.silent THEN "silent" ELSE "ok"
             place == IF outcome = "ok" THEN "commit" ELSE "settle"
  <2>1. outcome \in Outcomes /\ place \in ExecPlace
    BY DEF Outcomes, ExecPlace
  <2>2. exec' = [exec EXCEPT ![e].at = place, ![e].outcome = outcome]
    BY <1>8 DEF UploadTrack
  <2>3. file' = IF outcome = "ok" THEN [file EXCEPT ![LanguageOf(v)] = Speech] ELSE file
    BY <1>8 DEF UploadTrack
  <2> HIDE DEF outcome, place
  <2>4. WorkersMove(v)
    BY <1>5, <2>1, <2>2
  <2>5. file' \in [Languages -> Texts \cup {None}]
    BY <2>3, Numbers DEF IInv, TypeOK
  <2>6. RowsStand /\ written' = written
    BY <1>3, <1>8, RowsRest DEF UploadTrack
  <2>7. IInv'
    BY <1>2, <1>3, <1>4, <2>4, <2>5, <2>6, RestTypes, WorkPreserves
  <2> QED
    BY <2>6, <2>7 DEF RowsStand
<1>9. CASE CommitTrack(e)
  <2>1. WorkersMove(v) /\ file' = file /\ written' = written
    BY <1>6, <1>9 DEF CommitTrack, ExecPlace
  <2>2. RowsStand
    <3>1. CASE track' = track
      BY <1>3, <3>1, RowsRest
    <3>2. CASE track' # track
      <4>1. LanguageOf(v) \in Languages
        BY <1>2, CaptionAssumption DEF CaptionAssumption, LanguageOf, IInv, TypeOK
      <4>2. /\ Locks(asked[v].track, v)
            /\ track' = [track EXCEPT ![asked[v].track] = Complete(track[asked[v].track], LanguageOf(v))]
        BY <1>9, <3>2 DEF CommitTrack
      <4> QED
        BY <1>2, <1>3, <4>1, <4>2, RunCompletes
    <3> QED
      BY <3>1, <3>2
  <2>3. IInv'
    BY <1>2, <1>3, <1>4, <2>1, <2>2, RestTypes, WorkPreserves
  <2> QED
    BY <2>2, <2>3 DEF RowsStand
<1>10. CASE FailTaken(e)
  <2>1. WorkersMove(v) /\ file' = file /\ written' = written
    BY <1>6, <1>10 DEF FailTaken, ExecPlace
  <2>2. FailTrack(asked[v].track, v, "failed")
    BY <1>10 DEF FailTaken
  <2>3. RowsStand
    BY <1>2, <1>3, <2>2, RunFails
  <2>4. IInv'
    BY <1>2, <1>3, <1>4, <2>1, <2>3, RestTypes, WorkPreserves
  <2> QED
    BY <2>3, <2>4 DEF RowsStand
<1> QED
  BY <1>7, <1>8, <1>9, <1>10

(* A worker settles its step, disables a silent track or purges.           *)
LEMMA SettlePreserves ==
  ASSUME IInv, NEW e \in Workers, Settle(e) \/ DisableSilentTrack(e) \/ Purge(e)
  PROVE  IInv' /\ TextKept
<1> DEFINE v == exec[e].v
<1>1. ~On(e, "idle")
  BY DEF Settle, DisableSilentTrack, Purge, On
<1>2. /\ exec[e] \in ExecRows /\ v \in Versions /\ exec[e].plan \in Plans
      /\ exec[e].at # "idle" /\ asked[v].track # 0
      /\ StepOf(e) \in StepRows(Workers \cup {None})
  BY <1>1, BusyWorker
<1>3. /\ call' = call /\ UNCHANGED <<source, asked>> /\ file' = file /\ unheard' = unheard
  BY DEF Settle, DisableSilentTrack, Purge
<1>4. ASSUME NEW o \in {"ok", "transient"}, Answers(e, o)
      PROVE  QueueMoves(v) /\ WorkersMove(v)
  BY <1>4, AnswersMove DEF IInv
<1>5. ASSUME NEW place \in ExecPlace, Goes(e, place), UNCHANGED <<job, failing>>
      PROVE  QueueMoves(v) /\ WorkersMove(v)
  <2> DEFINE x == [exec[e] EXCEPT !.at = place]
  <2>1. x \in ExecRows /\ x.v = exec[e].v
    BY <1>2 DEF ExecRows
  <2>2. exec' = [exec EXCEPT ![e] = x]
    BY <1>5 DEF Goes
  <2> HIDE DEF x
  <2>3. WorkersMove(v)
    BY <1>2, <2>1, <2>2, GoesMove DEF IInv
  <2>4. QueueMoves(v)
    BY <1>2, <1>5, QueueRests
  <2> QED
    BY <2>3, <2>4
<1>6. CASE Settle(e)
  <2>1. QueueMoves(v) /\ WorkersMove(v)
    <3>1. \/ Goes(e, "purge") /\ UNCHANGED <<job, failing>>
          \/ Goes(e, "disable") /\ UNCHANGED <<job, failing>>
          \/ Answers(e, "ok") \/ Answers(e, "transient")
      BY <1>6 DEF Settle
    <3> QED
      BY <1>4, <1>5, <3>1 DEF ExecPlace
  <2>2. step' \in [Versions -> [Plans -> StepRows(Workers \cup {None})]]
    <3>1. \E row \in StepRows(Workers \cup {None}) :
            step' = step \/ step' = [step EXCEPT ![v][exec[e].plan] = row]
      <4>1. \/ step' = step
            \/ step' = [step EXCEPT ![v][exec[e].plan] = Completed(StepOf(e))]
            \/ step' = [step EXCEPT ![v][exec[e].plan] = Failed(StepOf(e))]
        BY <1>6 DEF Settle, StepOf
      <4> QED
        BY <1>2, <4>1, StepTypes
    <3> QED
      BY <1>2, <3>1, StepChanges, RestTypes
  <2>3. RowsStand /\ written' = written /\ troubles' = troubles
    BY <1>3, <1>6, RowsRest DEF Settle
  <2>4. IInv'
    BY <1>2, <1>3, <2>1, <2>2, <2>3, RestTypes, WorkPreserves
  <2> QED
    BY <2>3, <2>4 DEF RowsStand
<1>7. CASE DisableSilentTrack(e)
  <2>1. /\ FailTrack(asked[v].track, v, "disabled") /\ Answers(e, "ok")
        /\ step' = step /\ written' = written /\ troubles' = troubles
    BY <1>7 DEF DisableSilentTrack
  <2>2. RowsStand
    BY <1>2, <1>3, <2>1, RunFails
  <2>3. QueueMoves(v) /\ WorkersMove(v)
    BY <1>4, <2>1
  <2>4. IInv'
    BY <1>2, <1>3, <2>1, <2>2, <2>3, RestTypes, WorkPreserves
  <2> QED
    BY <2>2, <2>4 DEF RowsStand
<1>8. CASE Purge(e)
  <2>1. Answers(e, "ok") /\ step' = step /\ track' = track
    BY <1>8 DEF Purge
  <2>2. RowsStand
    BY <1>3, <2>1, RowsRest
  <2>3. QueueMoves(v) /\ WorkersMove(v)
    BY <1>4, <2>1
  <2>4. written' \subseteq Versions \X Windows
    BY <1>8 DEF Purge, IInv, TypeOK
  <2>5. troubles' \in 0..MaxTroubles
    BY <1>8, TroubleCounts DEF Purge
  <2>6. IInv'
    BY <1>2, <1>3, <2>1, <2>2, <2>3, <2>4, <2>5, RestTypes, WorkPreserves
  <2> QED
    BY <2>2, <2>6 DEF RowsStand
<1> QED
  BY <1>6, <1>7, <1>8

(* A worker's call breaks, or the worker does.                             *)
LEMMA BreakPreserves ==
  ASSUME IInv, NEW e \in Workers, ExecBreaks(e) \/ Crash(e)
  PROVE  IInv' /\ TextKept
<1> DEFINE v == exec[e].v
<1>1. ~On(e, "idle")
  BY DEF ExecBreaks, Crash, On
<1>2. /\ exec[e] \in ExecRows /\ v \in Versions /\ exec[e].at # "idle" /\ asked[v].track # 0
  BY <1>1, BusyWorker
<1>3. /\ call' = call /\ track' = track /\ UNCHANGED <<source, asked>> /\ file' = file
      /\ unheard' = unheard /\ step' = step /\ written' = written
  BY DEF ExecBreaks, Crash, runs
<1>4. troubles' \in 0..MaxTroubles
  BY TroubleCounts DEF ExecBreaks, Crash
<1>5. QueueMoves(v) /\ WorkersMove(v)
  <2>1. CASE Answers(e, "transient")
    BY <2>1, AnswersMove DEF IInv
  <2>2. CASE exec' = [exec EXCEPT ![e].at = "settle", ![e].outcome = "transient"]
             /\ UNCHANGED <<job, failing>>
    <3> DEFINE x == [exec[e] EXCEPT !.at = "settle", !.outcome = "transient"]
    <3>1. x \in ExecRows /\ x.v = exec[e].v
      BY <1>2 DEF ExecRows, ExecPlace, Outcomes
    <3>2. exec' = [exec EXCEPT ![e] = x]
      BY <2>2
    <3> HIDE DEF x
    <3>3. WorkersMove(v)
      BY <1>2, <3>1, <3>2, GoesMove DEF IInv
    <3>4. QueueMoves(v)
      BY <1>2, <2>2, QueueRests
    <3> QED
      BY <3>3, <3>4
  <2>3. CASE exec' = [exec EXCEPT ![e] = NoExec] /\ UNCHANGED <<job, failing>>
    <3>1. NoExec \in ExecRows /\ NoExec.at = "idle"
      BY Numbers DEF NoExec, ExecRows, ExecPlace, Outcomes
    <3>2. WorkersMove(v)
      BY <2>3, <3>1 DEF WorkersMove, IInv, TypeOK, ExecRows
    <3>3. QueueMoves(v)
      BY <1>2, <2>3, QueueRests
    <3> QED
      BY <3>2, <3>3
  <2> QED
    BY <2>1, <2>2, <2>3 DEF ExecBreaks, Crash, runs
<1>6. RowsStand
  BY <1>3, RowsRest
<1>7. IInv'
  BY <1>2, <1>3, <1>4, <1>5, <1>6, RestTypes, WorkPreserves
<1> QED
  BY <1>6, <1>7 DEF RowsStand

(* A lock expires.                                                         *)
LEMMA ExpirePreserves ==
  ASSUME IInv, NEW v \in Versions, NEW p \in Plans, Stall(v, p) \/ Recover(v, p)
  PROVE  IInv' /\ TextKept
<1>1. /\ Expires(v, p) /\ job[v][p].state = "active" /\ (Trouble \/ UNCHANGED troubles)
  BY DEF Stall, Recover, Active
<1>2. /\ Settled(v, p, Queue!Stalled(job[v][p])) /\ call' = call /\ track' = track
      /\ UNCHANGED <<source, asked>> /\ file' = file /\ unheard' = unheard /\ step' = step
      /\ written' = written /\ exec' = exec
  BY <1>1 DEF Expires
<1>3. asked[v].track # 0
  BY <1>1 DEF IInv, RunsAreAsked
<1>4. job[v][p] \in Queue!StageJobs(Workers)
  BY DEF IInv, TypeOK
<1>5. Queue!Stalled(job[v][p]) \in Queue!StageJobs(Workers)
  BY <1>4, JobTypes
<1>6. QueueMoves(v)
  BY <1>1, <1>2, <1>5, SettledMoves DEF IInv
<1>7. WorkersMove(v)
  BY <1>2, WorkersRest
<1>8. RowsStand
  BY <1>2, RowsRest
<1>9. IInv'
  BY <1>1, <1>2, <1>3, <1>6, <1>7, <1>8, TroubleCounts, RestTypes, WorkPreserves
<1> QED
  BY <1>8, <1>9 DEF RowsStand

(* The failed listener runs, or is lost.                                   *)
LEMMA ListenerPreserves ==
  ASSUME IInv, NEW v \in Versions, NEW p \in Plans, NEW last \in BOOLEAN, Listener(v, p, last)
  PROVE  IInv' /\ TextKept
<1> DEFINE marked == [step EXCEPT ![v][p] = MarkedDead(step[v][p])]
<1>1. /\ <<v, p, last>> \in failing /\ failing' \subseteq failing
      /\ UNCHANGED <<source, file, call, runs, written, exec>>
  BY DEF Listener
<1>2. asked[v].track # 0
  BY <1>1 DEF IInv, RunsAreAsked
<1>3. job' = job /\ UNCHANGED <<source, asked>> /\ call' = call /\ exec' = exec
      /\ file' = file /\ written' = written
  BY <1>1 DEF runs
<1>4. QueueMoves(v) /\ WorkersMove(v)
  BY <1>1, <1>3, QueueRests, WorkersRest
<1>5. RowsStand
  <2>1. track' = track \/ FailTrack(asked[v].track, v, "failed")
    BY DEF Listener
  <2> QED
    BY <1>2, <1>3, <2>1, RowsRest, RunFails
<1>6. step' \in [Versions -> [Plans -> StepRows(Workers \cup {None})]]
  <2>1. step \in [Versions -> [Plans -> StepRows(Workers \cup {None})]]
    BY DEF IInv, TypeOK
  <2>2. step[v] \in [Plans -> StepRows(Workers \cup {None})]
    BY <2>1
  <2>3. step[v][p] \in StepRows(Workers \cup {None})
    BY <2>2
  <2>4. MarkedDead(step[v][p]) \in StepRows(Workers \cup {None})
    BY <2>3, StepTypes
  <2>5. step' = step \/ step' = marked
    BY DEF Listener
  <2>6. marked \in [Versions -> [Plans -> StepRows(Workers \cup {None})]]
    BY <2>4, StepChanges
  <2> QED
    BY <2>1, <2>5, <2>6
<1>7. unheard' \subseteq Versions
  <2>1. unheard' = unheard \/ unheard' = unheard \cup {v}
    BY DEF Listener
  <2> QED
    BY <2>1 DEF IInv, TypeOK
<1>8. troubles' \in 0..MaxTroubles
  BY TroubleCounts DEF Listener
<1>9. IInv'
  BY <1>2, <1>3, <1>4, <1>5, <1>6, <1>7, <1>8, RestTypes, WorkPreserves
<1> QED
  BY <1>5, <1>9 DEF RowsStand

(* The reconciler enqueues a pending track again.                          *)
LEMMA ReconcilePreserves ==
  ASSUME IInv, NEW t \in Tracks, Reconcile(t)
  PROVE  IInv' /\ TextKept
<1>1. /\ track[t].status = "pending"
      /\ Add(t, track[t].version, track[t].language)
      /\ UNCHANGED <<source, track, file, call, workers, troubles>>
  BY DEF Reconcile
<1>2. track[t].version \in Versions /\ track[t].language \in Languages \cup {None}
  BY DEF IInv, TypeOK
<1>3. call' = call /\ track' = track /\ exec' = exec /\ failing' = failing /\ source' = source
      /\ file' = file /\ step' = step /\ written' = written /\ unheard' = unheard
      /\ troubles' = troubles
  BY <1>1 DEF workers
<1>4. RowsStand
  BY <1>3, RowsRest
<1>5. RunOfNext(t, track[t].version)
  BY <1>1, <1>3 DEF RunOfNext
<1>6. RunsAreAsked' /\ job' \in [Versions -> Flows] /\ asked' \in [Versions -> Asking]
  BY <1>1, <1>2, <1>3, <1>4, <1>5, RunsStandAtCalls DEF IInv, RowsStand
<1>7. TypeOK'
  BY <1>3, <1>6 DEF IInv, TypeOK, Flows, Asking
<1>8. IInv'
  BY <1>4, <1>6, <1>7 DEF IInv, RowsStand
<1> QED
  BY <1>4, <1>8 DEF RowsStand

-----------------------------------------------------------------------------
(* The invariant holds of a video without tracks.                          *)
LEMMA InitEstablishes == Init => IInv
<1> SUFFICES ASSUME Init PROVE IInv
  OBVIOUS
<1>1. /\ Unborn \in TrackRows /\ Unborn.status = "unborn" /\ Unborn.version = 1
      /\ NoCall \in CallRows /\ NoCall.at = "idle" /\ NoCall.track = 0
      /\ NoExec \in ExecRows /\ NoExec.at = "idle"
  BY Numbers DEF Unborn, TrackRows, TrackStatus, Kinds, NoCall, CallRows, CallPlace, NoExec,
     ExecRows, ExecPlace, Outcomes
<1>2. Queue!NewJob \in Queue!StageJobs(Workers) /\ Queue!NewJob.state = "absent"
  BY DEF Queue!NewJob, Queue!StageJobs, Queue!JobStates, Queue!NoToken
<1>3. NoStep(None) \in StepRows(Workers \cup {None})
  BY DEF NoStep, StepRows, StepStatus
<1>4. troubles \in 0..MaxTroubles
  BY CaptionAssumption DEF CaptionAssumption, Init
<1>5. TypeOK
  <2>1. track \in [Tracks -> TrackRows] /\ call \in [Calls -> CallRows] /\ exec \in [Workers -> ExecRows]
    BY <1>1 DEF Init
  <2>2. job \in [Versions -> [Plans -> Queue!StageJobs(Workers)]]
        /\ step \in [Versions -> [Plans -> StepRows(Workers \cup {None})]]
    BY <1>2, <1>3 DEF Init
  <2>3. /\ source \in [long : BOOLEAN, silent : BOOLEAN]
        /\ file \in [Languages -> Texts \cup {None}]
        /\ asked \in [Versions -> [track : Tracks \cup {0}, language : Languages \cup {None}]]
        /\ written = {} /\ failing = {} /\ unheard = {}
    BY DEF Init
  <2> QED
    BY <1>4, <2>1, <2>2, <2>3 DEF TypeOK, TrackRows, CallRows, ExecRows
<1>6. VersionsSuffice /\ KindsAgree
  BY <1>1 DEF Init, VersionsSuffice, KindsAgree
<1>7. RunsAreAsked
  BY <1>1, <1>2 DEF Init, RunsAreAsked, On
<1>8. CallsAgree /\ UnbornsAreNew /\ ConsentHolds
  BY <1>1 DEF Init, CallsAgree, UnbornsAreNew, ConsentHolds, At
<1> QED
  BY <1>5, <1>6, <1>7, <1>8 DEF IInv

(* Every step keeps the invariant, and the creator's texts.                *)
LEMMA StepPreserves ==
  ASSUME IInv, [Next]_vars
  PROVE  IInv' /\ (UNCHANGED vars \/ TextKept)
<1>1. ASSUME NEW k \in Calls, CallStep(k) PROVE IInv' /\ TextKept
  <2>1. ASSUME track' = track PROVE TextKept
    BY <2>1 DEF TextKept
  <2>2. CASE \/ \E l \in Languages \cup {None} : AskGenerate(k, l)
             \/ AskSwitch(k) \/ AskProbe(k)
             \/ \E l \in Languages : AskEdit(k, l) \/ AskRemove(k, l)
    BY <2>1, <2>2, AskPreserves
  <2>3. CASE ReadCues(k) \/ Publish(k) \/ Unpublish(k) \/ CallBreaks(k)
    BY <2>1, <2>3, FilePreserves
  <2>4. CASE Create(k)
    BY <2>4, CreatePreserves
  <2>5. CASE Restart(k)
    BY <2>5, RestartPreserves
  <2>6. ASSUME NEW l \in Languages, Upload(k, l) PROVE IInv' /\ TextKept
    BY <2>6, UploadPreserves
  <2>7. CASE Edit(k)
    BY <2>7, EditPreserves
  <2>8. CASE Delete(k)
    BY <2>8, DeletePreserves
  <2> QED
    BY <1>1, <2>2, <2>3, <2>4, <2>5, <2>6, <2>7, <2>8 DEF CallStep
<1>2. ASSUME Platform PROVE IInv' /\ TextKept
  <2>1. ASSUME NEW e \in Workers, Work(e) PROVE IInv' /\ TextKept
    BY <2>1, StagePreserves, SettlePreserves DEF Work
  <2>2. ASSUME NEW v \in Versions, NEW p \in Plans, NEW e \in Workers, Deliver(e, v, p)
        PROVE  IInv' /\ TextKept
    BY <2>2, DeliverPreserves
  <2>3. ASSUME NEW v \in Versions, NEW p \in Plans, Recover(v, p) PROVE IInv' /\ TextKept
    BY <2>3, ExpirePreserves
  <2>4. ASSUME NEW v \in Versions, NEW p \in Plans, NEW last \in BOOLEAN, Listener(v, p, last)
        PROVE  IInv' /\ TextKept
    BY <2>4, ListenerPreserves
  <2>5. ASSUME NEW t \in Tracks, Reconcile(t) PROVE IInv' /\ TextKept
    BY <2>5, ReconcilePreserves
  <2> QED
    BY <1>2, <2>1, <2>2, <2>3, <2>4, <2>5 DEF Platform
<1>3. ASSUME NEW e \in Workers, ExecBreaks(e) \/ Crash(e) PROVE IInv' /\ TextKept
  BY <1>3, BreakPreserves
<1>4. ASSUME NEW v \in Versions, NEW p \in Plans, Stall(v, p) PROVE IInv' /\ TextKept
  BY <1>4, ExpirePreserves
<1>5. CASE UNCHANGED vars
  <2>1. call' = call /\ track' = track /\ job' = job /\ failing' = failing /\ exec' = exec
        /\ asked' = asked /\ source' = source /\ file' = file /\ step' = step
        /\ written' = written /\ unheard' = unheard /\ troubles' = troubles
    BY <1>5 DEF vars
  <2>2. RowsStand
    BY <2>1, RowsRest
  <2>3. RunsAreAsked'
    BY <2>1 DEF IInv, RunsAreAsked, RunOf, On
  <2>4. TypeOK'
    BY <2>1 DEF IInv, TypeOK
  <2> QED
    BY <1>5, <2>2, <2>3, <2>4 DEF IInv, RowsStand
<1> QED
  BY <1>1, <1>2, <1>3, <1>4, <1>5 DEF Next

(* The invariant is inductive.                                             *)
THEOREM Inductive == Spec => []IInv
<1>1. IInv /\ [Next]_vars => IInv'
  BY StepPreserves
<1> QED
  BY InitEstablishes, <1>1, PTL DEF Spec

(* The variables keep their types: no row ever comes to more than two      *)
(* versions for each call of the creator's or attempt of the probe.        *)
THEOREM TypeCorrect == Spec => []TypeOK
BY Inductive, PTL DEF IInv

(* What the creator wrote onto a ready track stays until a later call of   *)
(* hers is about to replace or remove it, whatever runs are late and       *)
(* whatever they do.                                                       *)
THEOREM CreatorsTextIsKept == Spec => CreatorsTextStands
<1>1. IInv /\ [Next]_vars =>
        [\A t \in Tracks :
           track[t].status = "ready" /\ track[t].cues \in Calls =>
             track'[t] = track[t] \/ \E k \in Calls : MayReplace(k)]_vars
  BY StepPreserves DEF TextKept
<1> QED
  BY Inductive, <1>1, PTL DEF Spec, CreatorsTextStands
=============================================================================
