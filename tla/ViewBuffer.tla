----------------------------- MODULE ViewBuffer -----------------------------
(***************************************************************************)
(* The views of one video on one day, from the beacons that report them to *)
(* the counts in the database.  Redis keeps a sketch of who was counted    *)
(* and a buffer of what is not in the database yet; each of its scripts is *)
(* atomic.  A flush moves the buffer under a batch, applies the batch in   *)
(* one transaction that records its id, and only then releases it; it may  *)
(* die anywhere, and two flushes may run at once.  An API process holds    *)
(* the views it could not record.                                          *)
(*                                                                         *)
(* A view is the viewer it counts, and the sketch is taken to be exact.    *)
(* The views and the hours are two hashes that the same scripts write; the *)
(* retention hash is a third of the same kind and is left out.             *)
(***************************************************************************)
EXTENDS Naturals, FiniteSets

CONSTANTS Viewers,    \* who may watch
          Servers,    \* API processes
          Flushers,   \* housekeeping workers
          Batches,    \* batch ids in use at once
          NoBatch,    \* the pointer of no batch
          Capacity,   \* fallbackCapacity, per process
          MaxFaults,  \* bound: flushes that die and API processes that stop
          Outage      \* whether the flush may be down for batchRetentionMs

ASSUME ViewAssumption ==
  /\ NoBatch \notin Batches
  /\ Capacity \in Nat /\ MaxFaults \in Nat
  /\ Outage \in BOOLEAN

VARIABLES
  seen,     \* the dedup sketch
  buffer,   \* the buffer hashes
  pointer,  \* the batch a flush has under way
  staged,   \* staged[b]: the batch hashes
  ledger,   \* video_view_batches
  old,      \* the ids of the ledger past batchRetentionMs
  total,    \* total[v]: how often v was added to videos.views_count
  hourly,   \* hourly[v]: how often v was added to video_views_hourly
  run,      \* run[f]: the flush worker f executes
  held,     \* held[s]: the views process s holds
  replays,  \* replays[s]: the sets of views s is handing back
  faults    \* flushes that died and processes that stopped

vars == <<seen, buffer, pointer, staged, ledger, old, total, hourly, run,
          held, replays, faults>>

redis == <<seen, buffer, pointer, staged>>
database == <<ledger, old, total, hourly>>
processes == <<held, replays>>

Runs == [pc : {"idle", "views", "hours", "apply", "release", "forget"},
         batch : Batches \cup {NoBatch},
         views : SUBSET Viewers, hours : SUBSET Viewers, cutoff : SUBSET Batches]

TypeOK ==
  /\ seen \subseteq Viewers /\ buffer \subseteq Viewers
  /\ pointer \in Batches \cup {NoBatch}
  /\ staged \in [Batches -> SUBSET Viewers]
  /\ ledger \subseteq Batches /\ old \subseteq ledger
  /\ total \in [Viewers -> Nat] /\ hourly \in [Viewers -> Nat]
  /\ run \in [Flushers -> Runs]
  /\ held \in [Servers -> SUBSET Viewers]
  /\ replays \in [Servers -> SUBSET SUBSET Viewers]
  /\ faults \in 0..MaxFaults

Idle == [pc |-> "idle", batch |-> NoBatch, views |-> {}, hours |-> {}, cutoff |-> {}]

Init ==
  /\ seen = {} /\ buffer = {}
  /\ pointer = NoBatch
  /\ staged = [b \in Batches |-> {}]
  /\ ledger = {} /\ old = {}
  /\ total = [v \in Viewers |-> 0] /\ hourly = [v \in Viewers |-> 0]
  /\ run = [f \in Flushers |-> Idle]
  /\ held = [s \in Servers |-> {}]
  /\ replays = [s \in Servers |-> {}]
  /\ faults = 0

-----------------------------------------------------------------------------
(* The API (fallback-view-buffer.ts).                                      *)

(* The record script, for each viewer of a pipeline.                       *)
Recorded(views) ==
  /\ seen' = seen \cup views
  /\ buffer' = buffer \cup (views \ seen)

(* What s holds goes back to Redis, once a call has reached it.            *)
HandsBack(s) ==
  /\ held' = [held EXCEPT ![s] = {}]
  /\ replays' = [replays EXCEPT ![s] = IF held[s] = {} THEN @ ELSE @ \cup {held[s]}]

(* HeldViews.record, of each of the views in some order: as many as there  *)
(* is room for.                                                            *)
Holds(s, views) ==
  \E kept \in SUBSET (views \ held[s]) :
    /\ \/ kept = views \ held[s] /\ Cardinality(held[s] \cup kept) <= Capacity
       \/ kept # views \ held[s] /\ Cardinality(held[s] \cup kept) = Capacity
    /\ held' = [held EXCEPT ![s] = @ \cup kept]

(* A beacon reaches Redis; when its answer is lost the view is held too.   *)
Record(s, v) ==
  /\ Recorded({v})
  /\ HandsBack(s) \/ (Holds(s, {v}) /\ UNCHANGED replays)
  /\ UNCHANGED <<pointer, staged, database, run, faults>>

(* The circuit is open, or Redis was not reached: the view is held.        *)
Defer(s, v) ==
  /\ Holds(s, {v})
  /\ UNCHANGED <<redis, database, run, replays, faults>>

(* A hand-back that forgets to restore what it could not record.           *)
ForgetfulHandBack(s, views) ==
  /\ views \in replays[s]
  /\ replays' = [replays EXCEPT ![s] = @ \ {views}]
  /\ Recorded(views) \/ UNCHANGED <<seen, buffer>>
  /\ UNCHANGED <<pointer, staged, database, run, held, faults>>

(* The pipeline of a hand-back; when one of its scripts fails, everything  *)
(* is restored, what was recorded too.                                     *)
HandBack(s, views) ==
  /\ views \in replays[s]
  /\ replays' = [replays EXCEPT ![s] = @ \ {views}]
  /\ \/ Recorded(views) /\ UNCHANGED held
     \/ \E done \in SUBSET views : Recorded(done) /\ Holds(s, views)
  /\ UNCHANGED <<pointer, staged, database, run, faults>>

(* A process that stops loses what it holds.                               *)
Stop(s) ==
  /\ faults < MaxFaults
  /\ faults' = faults + 1
  /\ held' = [held EXCEPT ![s] = {}]
  /\ replays' = [replays EXCEPT ![s] = {}]
  /\ UNCHANGED <<redis, database, run>>

-----------------------------------------------------------------------------
(* The flush (flush-video-views.ts).                                       *)

At(f, pc) == run[f].pc = pc
Goto(f, pc) == run' = [run EXCEPT ![f].pc = pc]

Starts(f, pc, batch) ==
  run' = [run EXCEPT ![f] = [pc |-> pc, batch |-> batch, views |-> {}, hours |-> {},
                             cutoff |-> old]]

(* A UUIDv7 nothing remembers.                                             *)
FreshBatches ==
  {b \in Batches \ (ledger \cup {pointer}) :
     \A f \in Flushers : run[f].batch # b /\ b \notin run[f].cutoff}

(* The snapshot script: the batch under way, or else a new one, or none.   *)
Snapshot(f) ==
  /\ At(f, "idle")
  /\ \/ /\ pointer # NoBatch
        /\ Starts(f, "views", pointer)
        /\ UNCHANGED <<buffer, pointer, staged>>
     \/ /\ pointer = NoBatch /\ buffer # {}
        /\ \E b \in FreshBatches :
             /\ pointer' = b
             /\ staged' = [staged EXCEPT ![b] = buffer]
             /\ Starts(f, "views", b)
        /\ buffer' = {}
     \/ /\ pointer = NoBatch /\ buffer = {}
        /\ Starts(f, "forget", NoBatch)
        /\ UNCHANGED <<buffer, pointer, staged>>
  /\ UNCHANGED <<seen, database, processes, faults>>

(* The hashes are read after the script, one by one.                       *)
ReadViews(f) ==
  /\ At(f, "views")
  /\ run' = [run EXCEPT ![f].pc = "hours", ![f].views = staged[run[f].batch]]
  /\ UNCHANGED <<redis, database, processes, faults>>

ReadHours(f) ==
  /\ At(f, "hours")
  /\ run' = [run EXCEPT ![f].pc = "apply", ![f].hours = staged[run[f].batch]]
  /\ UNCHANGED <<redis, database, processes, faults>>

Plus(count, views) == [v \in Viewers |-> IF v \in views THEN count[v] + 1 ELSE count[v]]

(* applyBatch without its ledger.                                          *)
UncheckedApply(f) ==
  /\ At(f, "apply")
  /\ ledger' = ledger \cup {run[f].batch}
  /\ total' = Plus(total, run[f].views)
  /\ hourly' = Plus(hourly, run[f].hours)
  /\ Goto(f, "release")
  /\ UNCHANGED <<redis, old, processes, faults>>

(* applyBatch: one transaction, which a batch of the ledger leaves at once.*)
Apply(f) ==
  /\ At(f, "apply")
  /\ \/ /\ run[f].batch \notin ledger
        /\ ledger' = ledger \cup {run[f].batch}
        /\ total' = Plus(total, run[f].views)
        /\ hourly' = Plus(hourly, run[f].hours)
     \/ run[f].batch \in ledger /\ UNCHANGED <<ledger, total, hourly>>
  /\ Goto(f, "release")
  /\ UNCHANGED <<redis, old, processes, faults>>

(* A release that leaves the pointer.                                      *)
HalfRelease(f) ==
  /\ At(f, "release")
  /\ staged' = [staged EXCEPT ![run[f].batch] = {}]
  /\ Goto(f, "forget")
  /\ UNCHANGED <<seen, buffer, pointer, database, processes, faults>>

(* A release that blanks the pointer and does not delete it.               *)
BlankingRelease(f) ==
  /\ At(f, "release")
  /\ \/ /\ pointer = run[f].batch
        /\ pointer' = {}
        /\ staged' = [staged EXCEPT ![run[f].batch] = {}]
     \/ pointer # run[f].batch /\ UNCHANGED <<pointer, staged>>
  /\ Goto(f, "forget")
  /\ UNCHANGED <<seen, buffer, database, processes, faults>>

(* The release script: only the batch the pointer still names.             *)
Release(f) ==
  /\ At(f, "release")
  /\ \/ /\ pointer = run[f].batch
        /\ pointer' = NoBatch
        /\ staged' = [staged EXCEPT ![run[f].batch] = {}]
     \/ pointer # run[f].batch /\ UNCHANGED <<pointer, staged>>
  /\ Goto(f, "forget")
  /\ UNCHANGED <<seen, buffer, database, processes, faults>>

(* forgetBatchesBefore the retention, counted from the start of the run.   *)
Forget(f) ==
  /\ At(f, "forget")
  /\ ledger' = ledger \ run[f].cutoff
  /\ old' = old \ run[f].cutoff
  /\ run' = [run EXCEPT ![f] = Idle]
  /\ UNCHANGED <<redis, total, hourly, processes, faults>>

Flush(f) ==
  \/ Snapshot(f) \/ ReadViews(f) \/ ReadHours(f) \/ Apply(f) \/ Release(f) \/ Forget(f)

(* The flush errs or its worker dies; a statement whose answer was lost    *)
(* has had its effect.                                                     *)
Die(f) ==
  /\ ~At(f, "idle")
  /\ faults < MaxFaults
  /\ faults' = faults + 1
  /\ run' = [run EXCEPT ![f] = Idle]
  /\ UNCHANGED <<redis, database, processes>>

(* A batch was applied a day ago.  No run lasts a day, and unless there is *)
(* an outage no batch is left under way for one.                           *)
Age(b) ==
  /\ b \in ledger \ old
  /\ \A f \in Flushers : run[f].batch # b
  /\ pointer # b \/ Outage
  /\ old' = old \cup {b}
  /\ UNCHANGED <<redis, ledger, total, hourly, run, processes, faults>>

Beacons(s) == \E v \in Viewers : Record(s, v) \/ Defer(s, v)
HandsBackAll(s) == \E views \in replays[s] : HandBack(s, views)

Next ==
  \/ \E s \in Servers : Beacons(s) \/ HandsBackAll(s) \/ Stop(s)
  \/ \E f \in Flushers : Flush(f) \/ Die(f)
  \/ \E b \in Batches : Age(b)

(* Fairness: the scheduler starts the flush every ten seconds, its run     *)
(* goes on, days pass.  No viewer has to watch.                            *)
Fairness ==
  /\ \A f \in Flushers : WF_vars(Flush(f))
  /\ \A b \in Batches : WF_vars(Age(b))

Spec == Init /\ [][Next]_vars /\ Fairness

-----------------------------------------------------------------------------
Once(condition) == IF condition THEN 1 ELSE 0

(* In the batch under way, and not in the database yet.                    *)
Pending(v) == pointer # NoBatch /\ pointer \notin ledger /\ v \in staged[pointer]

(* "Views are neither lost nor counted twice": whoever the sketch holds is *)
(* in exactly one of the buffer, the batch under way and the counts, and   *)
(* the hours tell the same as the views, wherever flushes died or met.     *)
NeitherLostNorDoubled ==
  \A v \in Viewers :
    /\ total[v] + Once(v \in buffer) + Once(Pending(v)) = Once(v \in seen)
    /\ hourly[v] = total[v]

(* A view that was recorded is in the counts some time.                    *)
ViewsAreCounted == \A v \in Viewers : v \in seen ~> total[v] = 1

(* An API process gives up a view it took in only when it stops, or when   *)
(* its hold is full: a hand-back that fails, in part even, loses none.     *)
Keeps(s, v) == v \in held[s] \/ \E views \in replays[s] : v \in views

LossNeedsCause ==
  [][\A s \in Servers : \A v \in Viewers :
       Keeps(s, v) /\ v \notin seen' /\ faults' = faults
         => Keeps(s, v)' \/ Cardinality(held'[s]) = Capacity]_vars
=============================================================================
