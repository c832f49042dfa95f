---------------------------- MODULE CaptionTrack ----------------------------
(***************************************************************************)
(* The caption tracks of one video: their rows and the public .vtt beside  *)
(* them, the creator's calls that write both, and the speech-to-text runs  *)
(* that the API, the probe and the reconciler ask for.                     *)
(*                                                                         *)
(* A transaction of the repository is one action, a call to storage        *)
(* another.  The outbox entry of a run and the jobs it becomes are one: an *)
(* entry that is late is a job that waits.  Cues are told apart by who     *)
(* wrote them, the creator in one of her calls or whisper.                 *)
(***************************************************************************)
EXTENDS StepRow, FiniteSets, Naturals

CONSTANTS MaxCalls,      \* bound: calls of the creator and attempts of the probe
          Workers,       \* bound: executions under way at a time, 1 to some number
          Languages,     \* languages of tracks
          Spoken,        \* the language whisper detects
          Windows,       \* windows of a source long enough to be cut
          MaxAttempts,   \* `attempts' of the captions policy
          MaxStalled,    \* maxStalledCount of the stage
          MaxTroubles,   \* bound: failed calls, stalls and crashes
          MaxEvents,     \* bound: calls and troubles together
          None           \* no language, no file, no worker, no run

ASSUME CaptionAssumption ==
  /\ Spoken \in Languages
  /\ Windows # {}
  /\ MaxCalls \in Nat \ {0}
  /\ MaxTroubles \in Nat /\ MaxEvents \in Nat
  /\ None \notin Languages \cup Workers \cup Windows

(* A worker's token is its name: it serves one job at a time, and a token  *)
(* that no execution holds any more is compared by none.  The worker of    *)
(* the lowest name takes the next job.                                     *)
Queue == INSTANCE StageJob

Calls == 1..MaxCalls

VARIABLES
  source,    \* the video: longer than one window?  without audio?
  track,     \* track[t]: the row of the t-th track ever created
  file,      \* file[l]: the cues in the public .vtt of language l
  call,      \* call[k]: where the creator's k-th call is
  asked,     \* asked[v]: the track and language the jobs of version v carry
  job,       \* job[v][p]: the job of version v's run, or of one of its windows
  step,      \* step[v][p]: its row of processing_steps
  written,   \* windows in the raw bucket, under their version
  exec,      \* exec[e]: the job worker e runs, and where it is
  failing,   \* failed attempts, last or not, whose listener is still to run
  unheard,   \* versions for which a failed listener was lost
  troubles   \* failed calls, stalls and crashes so far

vars == <<source, track, file, call, asked, job, step, written, exec, failing,
          unheard, troubles>>

Speech == 0                                       \* what whisper wrote
NoCues == MaxCalls + 1
Texts == Calls \cup {Speech, NoCues}
Tracks == 1..MaxCalls                             \* a call creates one at most
Versions == 1..(2 * MaxCalls)                     \* a call, or a run's outcome
Run == "run"                                      \* the plan of a run's own job
Plans == {Run} \cup Windows

Kinds == {"auto", "edited", "uploaded"}
TrackStatus == {"unborn", "pending", "ready", "failed", "disabled", "deleted"}
CallPlace == {"idle", "start", "edit", "read", "publish", "unpublish",
              "delete", "ended"}
ExecPlace == {"idle", "work", "commit", "taken", "settle", "disable", "purge"}
Outcomes == {"ok", "transient", "silent"}

Unborn == [status |-> "unborn", kind |-> "auto", language |-> None, version |-> 1,
           cues |-> NoCues]
NoCall == [at |-> "idle", op |-> None, track |-> 0, version |-> 1, language |-> None,
           overwrite |-> FALSE, text |-> NoCues]
NoExec == [at |-> "idle", v |-> 1, plan |-> Run, outcome |-> "ok"]

TypeOK ==
  /\ source \in [long : BOOLEAN, silent : BOOLEAN]
  /\ track \in [Tracks -> [status : TrackStatus, kind : Kinds,
                           language : Languages \cup {None}, version : Versions,
                           cues : Texts]]
  /\ file \in [Languages -> Texts \cup {None}]
  /\ call \in [Calls -> [at : CallPlace, op : {"generate", "probe", "upload",
                         "edit", "remove", None}, track : Tracks \cup {0},
                         version : Versions, language : Languages \cup {None},
                         overwrite : BOOLEAN, text : Texts]]
  /\ asked \in [Versions -> [track : Tracks \cup {0}, language : Languages \cup {None}]]
  /\ job \in [Versions -> [Plans -> Queue!StageJobs(Workers)]]
  /\ step \in [Versions -> [Plans -> StepRows(Workers \cup {None})]]
  /\ written \subseteq Versions \X Windows
  /\ exec \in [Workers -> [at : ExecPlace, v : Versions, plan : Plans,
                           outcome : Outcomes]]
  /\ failing \subseteq Versions \X Plans \X BOOLEAN
  /\ unheard \subseteq Versions
  /\ troubles \in 0..MaxTroubles

Init ==
  /\ source \in [long : BOOLEAN, silent : BOOLEAN]
  /\ track = [t \in Tracks |-> Unborn]
  /\ file = [l \in Languages |-> None]
  /\ call = [k \in Calls |-> NoCall]
  /\ asked = [v \in Versions |-> [track |-> 0, language |-> None]]
  /\ job = [v \in Versions |-> [p \in Plans |-> Queue!NewJob]]
  /\ step = [v \in Versions |-> [p \in Plans |-> NoStep(None)]]
  /\ written = {}
  /\ exec = [e \in Workers |-> NoExec]
  /\ failing = {}
  /\ unheard = {}
  /\ troubles = 0

Begun == {k \in Calls : call[k].at # "idle"}
Trouble ==
  /\ troubles < MaxTroubles
  /\ troubles' = troubles + 1
  /\ Cardinality(Begun) + troubles' <= MaxEvents

runs == <<asked, job>>
workers == <<step, written, exec, failing, unheard>>

-----------------------------------------------------------------------------
(* Rows.                                                                   *)

Exists(t) == track[t].status \notin {"unborn", "deleted"}
Generated == {t \in Tracks : Exists(t) /\ track[t].kind # "uploaded"}
InLanguage(l) == {t \in Tracks : Exists(t) /\ track[t].language = l}
Fresh == {t \in Tracks : track[t].status = "unborn" /\ \A s \in 1..(t - 1) : track[s].status # "unborn"}

(* A transaction that locks the row by its id alone.                       *)
LocksAnyVersion(t, version) == Exists(t)

(* lockTrack: the row of this id, if it is at this version.                *)
Locks(t, version) == Exists(t) /\ track[t].version = version

Bumped(row) == [row EXCEPT !.version = @ + 1]

(* complete, fail, regenerate, upload and editCues of the repository.      *)
Complete(row, language) ==
  Bumped([row EXCEPT !.status = "ready", !.language = language, !.cues = Speech])
Fail(row, status) == Bumped([row EXCEPT !.status = status])
Regenerate(row, language) ==
  Bumped([row EXCEPT !.kind = "auto", !.status = "pending", !.language = language])
Replace(row, k) ==
  Bumped([row EXCEPT !.kind = "uploaded", !.status = "ready", !.cues = k])
EditCues(row, k) ==
  Bumped([row EXCEPT !.kind = IF @ = "auto" THEN "edited" ELSE @, !.cues = k])

FailTrack(t, version, status) ==
  track' = IF Locks(t, version) THEN [track EXCEPT ![t] = Fail(@, status)] ELSE track

(* The unique index on (video, language).                                  *)
LanguageFree(t, l) == l = None \/ InLanguage(l) \ {t} = {}

-----------------------------------------------------------------------------
(* Asking for a run.                                                       *)

HasWindows == source.long

(* captionsFlow: one job, or a parent over one child per window.           *)
NewFlow(flow) ==
  [p \in Plans |->
     CASE p = Run /\ HasWindows -> Queue!Added(flow[p], "waitingChildren")
       [] p = Run /\ ~HasWindows -> Queue!Added(flow[p], "waiting")
       [] p # Run /\ HasWindows -> Queue!Added(flow[p], "waiting")
       [] OTHER -> flow[p]]

(* Job ids carry the version and not the track, so the queue takes the run *)
(* of another track at the same version for one it knows.                  *)
Add(t, version, language) ==
  /\ job' = [job EXCEPT ![version] = NewFlow(@)]
  /\ asked' = IF job[version][Run].state = "absent"
              THEN [asked EXCEPT ![version] = [track |-> t, language |-> language]]
              ELSE asked

-----------------------------------------------------------------------------
(* The creator's calls, and the probe, which asks for the first run.       *)

At(k, place) == call[k].at = place
IsNext(k) ==
  /\ At(k, "idle") /\ \A j \in 1..(k - 1) : ~At(j, "idle")
  /\ Cardinality(Begun) + troubles < MaxEvents
Begins(k, place, op, t, language, overwrite) ==
  /\ IsNext(k)
  /\ call' = [call EXCEPT ![k] =
       [@ EXCEPT !.at = place, !.op = op, !.track = t, !.language = language,
                 !.version = IF t = 0 THEN 1 ELSE track[t].version,
                 !.overwrite = overwrite]]
  /\ UNCHANGED <<source, track, file, runs, workers, troubles>>
Ends(k) == call' = [call EXCEPT ![k] = [NoCall EXCEPT !.at = "ended"]]

GeneratedOrNone == IF Generated = {} THEN 0 ELSE CHOOSE t \in Generated : TRUE

(* An edited track is replaced only when the creator said so, and nothing  *)
(* else asks what she said.                                                *)
NeedsConsent == \E t \in Generated : track[t].kind = "edited"
DecideGenerate(language) ==
  \A t \in Tracks \ Generated : language # None => t \notin InLanguage(language)

AskGenerate(k, language) ==
  /\ DecideGenerate(language)
  /\ Begins(k, "start", "generate", GeneratedOrNone, language, NeedsConsent)

(* The switch starts a run that is missing or failed, as generate would.   *)
AskSwitch(k) ==
  \/ Generated = {} /\ Begins(k, "start", "generate", 0, None, FALSE)
  \/ \E t \in Generated : /\ track[t].status = "failed"
                          /\ Begins(k, "start", "generate", t, track[t].language, FALSE)

AskProbe(k) == Begins(k, "start", "probe", 0, None, FALSE)

(* The entry of the run follows the row in a write of its own.  Between    *)
(* the two nobody tells a run that waits from one not yet asked for; an    *)
(* entry that is not written is left to the reconciler.                    *)
Enqueued(t, version, language) ==
  \/ Add(t, version, language) /\ UNCHANGED troubles
  \/ Trouble /\ UNCHANGED runs

(* createGenerated: a generated track that exists already is the answer.   *)
Create(k) ==
  LET new == [Unborn EXCEPT !.language = call[k].language, !.status =
                IF call[k].op = "probe" /\ source.silent THEN "disabled" ELSE "pending"]
  IN
  /\ At(k, "start") /\ call[k].track = 0
  /\ Ends(k)
  /\ \E t \in IF Generated = {} THEN Fresh ELSE Generated :
       LET row == IF Exists(t) THEN track[t] ELSE new IN
       IF LanguageFree(t, row.language)
       THEN /\ track' = [track EXCEPT ![t] = row]
            /\ IF row.status = "pending" THEN Enqueued(t, row.version, row.language)
               ELSE UNCHANGED <<runs, troubles>>
       ELSE UNCHANGED <<track, runs, troubles>>
  /\ UNCHANGED <<source, file, workers>>

(* A track that moved on, or a language another one holds: the call fails. *)
Restart(k) ==
  LET t == call[k].track
      l == call[k].language
  IN
  /\ At(k, "start") /\ t # 0
  /\ Ends(k)
  /\ IF Locks(t, call[k].version) /\ LanguageFree(t, l)
     THEN /\ track' = [track EXCEPT ![t] = Regenerate(@, l)]
          /\ Enqueued(t, call[k].version + 1, l)
     ELSE UNCHANGED <<track, runs, troubles>>
  /\ UNCHANGED <<source, file, workers>>

(* upload: the row of the language becomes the creator's, or a new one.    *)
Upload(k, l) ==
  /\ IsNext(k)
  /\ \E t \in IF InLanguage(l) = {} THEN Fresh ELSE InLanguage(l) :
       /\ track' = [track EXCEPT ![t] =
            IF Exists(t) THEN Replace(@, k)
            ELSE [@ EXCEPT !.kind = "uploaded", !.status = "ready", !.language = l, !.cues = k]]
       /\ call' = [call EXCEPT ![k] = [@ EXCEPT !.at = "publish", !.op = "upload",
                     !.track = t, !.language = l, !.text = k]]
  /\ UNCHANGED <<source, file, runs, workers, troubles>>

AskEdit(k, l) == \E t \in InLanguage(l) : Begins(k, "edit", "edit", t, l, FALSE)

Edit(k) ==
  LET t == call[k].track IN
  /\ At(k, "edit")
  /\ IF Locks(t, call[k].version)
     THEN /\ track' = [track EXCEPT ![t] = EditCues(@, k)]
          /\ call' = [call EXCEPT ![k].at = IF track[t].status = "ready" THEN "read" ELSE "ended"]
     ELSE Ends(k) /\ UNCHANGED track
  /\ UNCHANGED <<source, file, runs, workers, troubles>>

ReadCues(k) ==
  /\ At(k, "read")
  /\ call' = [call EXCEPT ![k].at = "publish", ![k].text = track[call[k].track].cues]
  /\ UNCHANGED <<source, track, file, runs, workers, troubles>>

Publish(k) ==
  /\ At(k, "publish")
  /\ file' = [file EXCEPT ![call[k].language] = call[k].text]
  /\ Ends(k)
  /\ UNCHANGED <<source, track, runs, workers, troubles>>

AskRemove(k, l) == \E t \in InLanguage(l) : Begins(k, "unpublish", "remove", t, l, FALSE)

(* The file goes first.                                                    *)
Unpublish(k) ==
  /\ At(k, "unpublish")
  /\ file' = [file EXCEPT ![call[k].language] = None]
  /\ call' = [call EXCEPT ![k].at = "delete"]
  /\ UNCHANGED <<source, track, runs, workers, troubles>>

(* delete does not ask for the version; the cues go with the row.          *)
Delete(k) ==
  /\ At(k, "delete")
  /\ track' = [track EXCEPT ![call[k].track].status = "deleted", ![call[k].track].cues = NoCues]
  /\ Ends(k)
  /\ UNCHANGED <<source, file, runs, workers, troubles>>

(* A call to storage or to the database fails, or the process dies.        *)
CallBreaks(k) ==
  /\ call[k].at \in {"read", "publish", "unpublish", "delete"}
  /\ Trouble
  /\ Ends(k)
  /\ UNCHANGED <<source, track, file, runs, workers>>

CallStep(k) ==
  \/ \E l \in Languages \cup {None} : AskGenerate(k, l)
  \/ AskSwitch(k) \/ AskProbe(k) \/ Create(k) \/ Restart(k)
  \/ \E l \in Languages : Upload(k, l) \/ AskEdit(k, l) \/ AskRemove(k, l)
  \/ Edit(k) \/ ReadCues(k) \/ Publish(k) \/ Unpublish(k) \/ Delete(k) \/ CallBreaks(k)

-----------------------------------------------------------------------------
(* A worker's execution of a job.                                          *)

On(e, place) == exec[e].at = place
Goes(e, place) == exec' = [exec EXCEPT ![e].at = place]
JobOf(e) == job[exec[e].v][exec[e].plan]
StepOf(e) == step[exec[e].v][exec[e].plan]
Merges(e) == exec[e].plan = Run /\ HasWindows

(* A run works only on the track version it was asked for.                 *)
IsCurrent(v) ==
  /\ Locks(asked[v].track, v)
  /\ track[asked[v].track].status = "pending"

(* What the queue does with the job p of v, and with its parent: that one  *)
(* runs when all windows are done, and fails when one does.                *)
Settled(v, p, new) ==
  LET flow == [job[v] EXCEPT ![p] = new] IN
  /\ job' = [job EXCEPT ![v] =
       IF p = Run THEN flow
       ELSE [flow EXCEPT ![Run] =
         IF @.state # "waitingChildren" THEN @
         ELSE IF new.state = "failed" THEN [@ EXCEPT !.state = "failed"]
         ELSE IF \A w \in Windows : flow[w].state = "completed" THEN Queue!Ready(@)
         ELSE @]]
  /\ failing' = IF new.state = "failed" \/ new.attempts > job[v][p].attempts
                THEN failing \cup {<<v, p, new.state = "failed">>} ELSE failing

(* The worker reports; a job it no longer owns does not hear it.           *)
Answers(e, outcome) ==
  /\ exec' = [exec EXCEPT ![e] = NoExec]
  /\ IF Queue!OwnedBy(JobOf(e), e)
     THEN Settled(exec[e].v, exec[e].plan, Queue!Answered(JobOf(e), outcome))
     ELSE UNCHANGED <<job, failing>>

(* A run that is stale or whose step is DONE is skipped; a merge purges    *)
(* all the same.                                                           *)
Deliver(e, v, p) ==
  /\ On(e, "idle") /\ \A d \in Workers : On(d, "idle") => e <= d
  /\ job[v][p].state = "waiting"
  /\ LET claims == IsCurrent(v) /\ Claimable(step[v][p])
         taken == Queue!Taken(job[v][p], e)
         place == IF claims THEN "work" ELSE "purge"
     IN  IF claims \/ (p = Run /\ HasWindows)
         THEN /\ job' = [job EXCEPT ![v][p] = taken]
              /\ exec' = [exec EXCEPT ![e] = [NoExec EXCEPT !.v = v, !.plan = p, !.at = place]]
              /\ step' = IF claims THEN [step EXCEPT ![v][p] = Claimed(e)] ELSE step
              /\ UNCHANGED failing
         ELSE Settled(v, p, Queue!Answered(taken, "ok")) /\ UNCHANGED <<exec, step>>
  /\ UNCHANGED <<source, track, file, call, asked, written, unheard, troubles>>

(* One window: its transcript goes to the raw bucket.                      *)
WriteWindow(e) ==
  /\ On(e, "work") /\ exec[e].plan # Run
  /\ IF source.silent
     THEN exec' = [exec EXCEPT ![e].at = "settle", ![e].outcome = "silent"] /\ UNCHANGED written
     ELSE /\ written' = written \cup {<<exec[e].v, exec[e].plan>>}
          /\ Goes(e, "settle")
  /\ UNCHANGED <<source, track, file, call, runs, step, failing, unheard, troubles>>

(* The whole source is transcribed, or the windows of this version are     *)
(* read, and the .vtt lands before the row.  What happens to the windows   *)
(* once they are read is nothing to this run.                              *)
LanguageOf(v) == IF asked[v].language = None THEN Spoken ELSE asked[v].language

UploadTrack(e) ==
  LET v == exec[e].v
      outcome == IF HasWindows
                 THEN IF {v} \X Windows \subseteq written THEN "ok" ELSE "transient"
                 ELSE IF source.silent THEN "silent" ELSE "ok"
  IN
  /\ On(e, "work") /\ exec[e].plan = Run
  /\ exec' = [exec EXCEPT ![e].outcome = outcome,
                          ![e].at = IF outcome = "ok" THEN "commit" ELSE "settle"]
  /\ file' = IF outcome = "ok" THEN [file EXCEPT ![LanguageOf(v)] = Speech] ELSE file
  /\ UNCHANGED <<source, track, call, runs, step, written, failing, unheard, troubles>>

(* complete: stale, taken or committed.  The step's lease is not asked.    *)
CommitTrack(e) ==
  LET v == exec[e].v
      t == asked[v].track
  IN
  /\ On(e, "commit")
  /\ IF ~Locks(t, v) THEN Goes(e, "settle") /\ UNCHANGED track
     ELSE IF ~LanguageFree(t, LanguageOf(v)) THEN Goes(e, "taken") /\ UNCHANGED track
     ELSE /\ track' = [track EXCEPT ![t] = Complete(@, LanguageOf(v))]
          /\ Goes(e, "settle")
  /\ UNCHANGED <<source, file, call, runs, step, written, failing, unheard, troubles>>

FailTaken(e) ==
  /\ On(e, "taken")
  /\ FailTrack(asked[exec[e].v].track, exec[e].v, "failed")
  /\ Goes(e, "settle")
  /\ UNCHANGED <<source, file, call, runs, step, written, failing, unheard, troubles>>

(* The fenced end of the step.  A worker whose lease was lost before it    *)
(* failed reports a skip; one that fails to write reports its failure.     *)
Settle(e) ==
  LET ok == exec[e].outcome = "ok"
      holds == Holds(StepOf(e), e)
  IN
  /\ On(e, "settle")
  /\ step' = IF ~holds THEN step
             ELSE [step EXCEPT ![exec[e].v][exec[e].plan] = IF ok THEN Completed(@) ELSE Failed(@)]
  /\ \/ /\ ok \/ ~holds
        /\ IF Merges(e) THEN Goes(e, "purge") /\ UNCHANGED <<job, failing>> ELSE Answers(e, "ok")
     \/ /\ exec[e].outcome = "silent"
        /\ Goes(e, "disable") /\ UNCHANGED <<job, failing>>
     \/ exec[e].outcome = "transient" /\ Answers(e, "transient")
  /\ UNCHANGED <<source, track, file, call, asked, written, unheard, troubles>>

DisableSilentTrack(e) ==
  /\ On(e, "disable")
  /\ FailTrack(asked[exec[e].v].track, exec[e].v, "disabled")
  /\ Answers(e, "ok")
  /\ UNCHANGED <<source, file, call, asked, step, written, unheard, troubles>>

(* purgePrefix: the windows of every version.  A failure is only logged.   *)
Purge(e) ==
  /\ On(e, "purge")
  /\ \/ written' = {} /\ UNCHANGED troubles
     \/ Trouble /\ UNCHANGED written
  /\ Answers(e, "ok")
  /\ UNCHANGED <<source, track, file, call, asked, step, unheard>>

(* A call fails: the work's is the outcome, the settling's the answer.     *)
ExecBreaks(e) ==
  /\ Trouble
  /\ \/ /\ exec[e].at \in {"work", "commit", "taken"}
        /\ exec' = [exec EXCEPT ![e].at = "settle", ![e].outcome = "transient"]
        /\ UNCHANGED <<job, failing>>
     \/ exec[e].at \in {"settle", "disable"} /\ Answers(e, "transient")
  /\ UNCHANGED <<source, track, file, call, asked, step, written, unheard>>

Crash(e) ==
  /\ ~On(e, "idle")
  /\ Trouble
  /\ exec' = [exec EXCEPT ![e] = NoExec]
  /\ UNCHANGED <<source, track, file, call, runs, step, written, failing, unheard>>

Runs(e, v, p) == e \in Workers /\ ~On(e, "idle") /\ exec[e].v = v /\ exec[e].plan = p

(* The lock expires: of a worker that goes on, or of one that died.        *)
Expires(v, p) ==
  /\ Settled(v, p, Queue!Stalled(job[v][p]))
  /\ UNCHANGED <<source, track, file, call, asked, step, written, exec, unheard>>

Active(v, p) == job[v][p].state = "active"
Stall(v, p) == Active(v, p) /\ Runs(job[v][p].owner, v, p) /\ Trouble /\ Expires(v, p)
Recover(v, p) ==
  Active(v, p) /\ ~Runs(job[v][p].owner, v, p) /\ Expires(v, p) /\ UNCHANGED troubles

-----------------------------------------------------------------------------
(* The failed listener, and the reconciler.                                *)

(* Every failed attempt, however late its listener, marks the step DEAD,   *)
(* and the last one fails the track.  An error of the database is logged.  *)
Listener(v, p, last) ==
  LET fails == IF last THEN FailTrack(asked[v].track, v, "failed") ELSE UNCHANGED track
      marked == [step EXCEPT ![v][p] = MarkedDead(@)]
  IN
  /\ <<v, p, last>> \in failing
  /\ failing' = failing \ {<<v, p, last>>}
  /\ \/ fails /\ step' = marked /\ UNCHANGED <<unheard, troubles>>
     \/ Trouble /\ fails /\ UNCHANGED <<step, unheard>>
     \/ /\ Trouble
        /\ step' \in {step, marked}
        /\ unheard' = IF last THEN unheard \cup {v} ELSE unheard
        /\ UNCHANGED track
  /\ UNCHANGED <<source, file, call, runs, written, exec>>

(* A scan of the tracks that are not generated.                            *)
ReconcileUploaded(t) ==
  /\ Exists(t) /\ t \notin Generated /\ track[t].status = "pending"
  /\ Add(t, track[t].version, track[t].language)
  /\ UNCHANGED <<source, track, file, call, workers, troubles>>

(* A pending track asked for an hour ago is enqueued again.                *)
Reconcile(t) ==
  /\ t \in Generated /\ track[t].status = "pending"
  /\ job[track[t].version][Run].state = "absent"
  /\ Add(t, track[t].version, track[t].language)
  /\ UNCHANGED <<source, track, file, call, workers, troubles>>

Work(e) ==
  \/ WriteWindow(e) \/ UploadTrack(e) \/ CommitTrack(e) \/ FailTaken(e)
  \/ Settle(e) \/ DisableSilentTrack(e) \/ Purge(e)

(* What the platform does by itself: workers take jobs and finish them,    *)
(* the queue looks for stalled ones and reports failed ones, and the       *)
(* reconciler's task is scheduled.                                         *)
Platform ==
  \/ \E e \in Workers : Work(e)
  \/ \E v \in Versions, p \in Plans :
       \/ \E e \in Workers : Deliver(e, v, p)
       \/ Recover(v, p)
       \/ \E last \in BOOLEAN : Listener(v, p, last)
  \/ \E t \in Tracks : Reconcile(t)

Next ==
  \/ \E k \in Calls : CallStep(k)
  \/ Platform
  \/ \E e \in Workers : ExecBreaks(e) \/ Crash(e)
  \/ \E v \in Versions, p \in Plans : Stall(v, p)

(* The platform does not rest while it has something to do; the creator    *)
(* owes nothing.  All it does comes to an end, so it does everything.      *)
Fairness == WF_vars(Platform)

Spec == Init /\ [][Next]_vars /\ Fairness

-----------------------------------------------------------------------------
(* What the creator wrote onto a ready track stays until a later call of   *)
(* hers is about to replace or remove it, a generate call only if it said  *)
(* so: no run and no other call, however late, takes it away               *)
(* (lockTrack, decideCaptionGenerate).                                     *)
MayReplace(k) ==
  \/ call[k].op \in {"edit", "remove"} /\ call'[k] # call[k]
  \/ call'[k].op = "upload" /\ call'[k] # call[k]
  \/ call[k].op = "generate" /\ call[k].overwrite /\ call'[k] # call[k]

CreatorsTextStands ==
  [][\A t \in Tracks :
       track[t].status = "ready" /\ track[t].cues \in Calls =>
         track'[t] = track[t] \/ \E k \in Calls : MayReplace(k)]_vars

(* No track waits for its run for good: it is settled, replaced or         *)
(* removed, unless the listener of its failed run was lost, or the queue   *)
(* took the run for that of a deleted track (reconcile-captions,           *)
(* failCaptionsRun).                                                       *)
Waits(t) == Exists(t) /\ track[t].status = "pending"
Excused(t) ==
  \/ track[t].version \in unheard
  \/ asked[track[t].version].track \notin {0, t}

PendingSettles == []<>(\A t \in Tracks : Waits(t) => Excused(t))

(* Nobody is at work.                                                      *)
Quiet ==
  /\ \A k \in Calls : call[k].at \in {"idle", "ended"}
  /\ \A e \in Workers : On(e, "idle")

(* A run that lost leaves a file the winner overwrites (captions.ts:73):   *)
(* when nobody is at work, no run's text lies over the creator's.          *)
WinnerOverwrites ==
  Quiet => \A t \in Tracks :
    track[t].status = "ready" /\ track[t].cues \in Calls =>
      file[track[t].language] # Speech
=============================================================================
