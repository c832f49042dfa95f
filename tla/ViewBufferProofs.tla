-------------------------- MODULE ViewBufferProofs --------------------------
(***************************************************************************)
(* The view counts are exact for any viewers, any number of flushes at     *)
(* once and any pattern of their deaths, as long as the flush is not down  *)
(* for as long as the ledger remembers a batch.                            *)
(***************************************************************************)
EXTENDS ViewBuffer, TLAPS

(* A run that holds a batch which is not applied yet holds the batch under *)
(* way, and has read of it what is there.                                  *)
ReadsAreFaithful ==
  \A f \in Flushers : run[f].batch \in Batches \ ledger =>
    /\ run[f].batch = pointer
    /\ run[f].pc \in {"views", "hours", "apply"}
    /\ run[f].pc \in {"hours", "apply"} => run[f].views = staged[pointer]
    /\ run[f].pc = "apply" => run[f].hours = staged[pointer]

(* From its snapshot to its release a run holds a batch.                   *)
RunsHoldABatch ==
  \A f \in Flushers :
    run[f].pc \in {"views", "hours", "apply", "release"} => run[f].batch \in Batches

(* What the ledger is about to forget, nobody refers to any more.          *)
Forgettable(b) == b \in old \/ \E f \in Flushers : b \in run[f].cutoff

NobodyNeedsTheForgettable ==
  \A b \in Batches :
    Forgettable(b) => pointer # b /\ \A f \in Flushers : run[f].batch # b

IInv ==
  /\ TypeOK
  /\ ReadsAreFaithful
  /\ RunsHoldABatch
  /\ NobodyNeedsTheForgettable
  /\ NeitherLostNorDoubled

-----------------------------------------------------------------------------
(* The invariant holds of empty tables and an empty Redis.                 *)
LEMMA InitEstablishes == Init => IInv
<1> SUFFICES ASSUME Init PROVE IInv
  OBVIOUS
<1> USE ViewAssumption DEF Init, Idle
<1>1. TypeOK
  BY DEF TypeOK, Runs
<1>2. ReadsAreFaithful /\ RunsHoldABatch
  BY DEF ReadsAreFaithful, RunsHoldABatch
<1>3. NobodyNeedsTheForgettable
  BY DEF NobodyNeedsTheForgettable, Forgettable
<1>4. NeitherLostNorDoubled
  BY DEF NeitherLostNorDoubled, Once, Pending
<1> QED
  BY <1>1, <1>2, <1>3, <1>4 DEF IInv

(* What an API process does moves viewers into the sketch and the buffer   *)
(* together, and touches nothing of the flush.                             *)
LEMMA RecordingPreserves ==
  ASSUME IInv, TypeOK',
         NEW views \in SUBSET Viewers,
         Recorded(views) \/ UNCHANGED <<seen, buffer>>,
         UNCHANGED <<pointer, staged, database, run>>
  PROVE  IInv'
<1> USE DEF IInv, database
<1>1. ReadsAreFaithful' /\ RunsHoldABatch'
  BY DEF ReadsAreFaithful, RunsHoldABatch
<1>2. NobodyNeedsTheForgettable'
  BY DEF NobodyNeedsTheForgettable, Forgettable
<1>3. NeitherLostNorDoubled'
  <2>1. SUFFICES ASSUME NEW v \in Viewers
                 PROVE  /\ total[v] + Once(v \in buffer') + Once(Pending(v)) = Once(v \in seen')
                        /\ hourly[v] = total[v]
    BY DEF NeitherLostNorDoubled, Pending
  <2>2. /\ total[v] + Once(v \in buffer) + Once(Pending(v)) = Once(v \in seen)
        /\ hourly[v] = total[v]
        /\ total[v] \in Nat
    BY DEF NeitherLostNorDoubled, TypeOK
  <2>3. CASE v \in views \ seen /\ Recorded(views)
    <3>1. v \notin buffer /\ v \in buffer' /\ v \in seen'
      BY <2>2, <2>3 DEF Recorded, Once
    <3> QED
      BY <2>2, <2>3, <3>1 DEF Once
  <2>4. CASE ~(v \in views \ seen /\ Recorded(views))
    <3>1. (v \in buffer') = (v \in buffer) /\ (v \in seen') = (v \in seen)
      BY <2>4 DEF Recorded
    <3> QED
      BY <2>2, <3>1
  <2> QED
    BY <2>3, <2>4
<1> QED
  BY <1>1, <1>2, <1>3

(* A step of a flush, or its death, preserves the invariant: one step per  *)
(* action, and under it one per part of the invariant it can disturb.      *)
LEMMA FlushPreserves ==
  ASSUME IInv, TypeOK', NEW f \in Flushers, Flush(f) \/ Die(f)
  PROVE  IInv'
<1> USE ViewAssumption DEF IInv, database, redis, processes, At, Goto
<1>0. /\ \A g \in Flushers : run[g] \in Runs
      /\ run \in [Flushers -> Runs]
      /\ pointer \in Batches \cup {NoBatch} /\ ledger \subseteq Batches /\ old \subseteq ledger
      /\ staged \in [Batches -> SUBSET Viewers]
      /\ total \in [Viewers -> Nat] /\ hourly \in [Viewers -> Nat]
  BY DEF TypeOK
<1>1. CASE Snapshot(f)
  <2>1. CASE /\ pointer # NoBatch
             /\ Starts(f, "views", pointer)
             /\ UNCHANGED <<buffer, pointer, staged>>
    <3>1. ReadsAreFaithful' /\ RunsHoldABatch'
      BY <1>0, <1>1, <2>1 DEF ReadsAreFaithful, RunsHoldABatch, Snapshot, Starts
    <3>2. NobodyNeedsTheForgettable'
      BY <1>0, <1>1, <2>1 DEF NobodyNeedsTheForgettable, Forgettable, Snapshot, Starts
    <3>3. NeitherLostNorDoubled'
      BY <1>1, <2>1 DEF NeitherLostNorDoubled, Pending, Snapshot
    <3> QED
      BY <3>1, <3>2, <3>3
  <2>2. CASE /\ pointer = NoBatch
             /\ \E b \in FreshBatches :
                  /\ pointer' = b
                  /\ staged' = [staged EXCEPT ![b] = buffer]
                  /\ Starts(f, "views", b)
             /\ buffer' = {}
    <3> PICK b \in FreshBatches : /\ pointer' = b
                                  /\ staged' = [staged EXCEPT ![b] = buffer]
                                  /\ Starts(f, "views", b)
      BY <2>2
    <3>1. /\ b \in Batches /\ b \notin ledger
          /\ \A g \in Flushers : run[g].batch # b /\ b \notin run[g].cutoff
      BY DEF FreshBatches
    <3>2. ReadsAreFaithful' /\ RunsHoldABatch'
      BY <1>0, <1>1, <2>2, <3>1 DEF ReadsAreFaithful, RunsHoldABatch, Snapshot, Starts
    <3>3. NobodyNeedsTheForgettable'
      BY <1>0, <1>1, <2>2, <3>1 DEF NobodyNeedsTheForgettable, Forgettable, Snapshot, Starts
    <3>4. NeitherLostNorDoubled'
      BY <1>0, <1>1, <2>2, <3>1 DEF NeitherLostNorDoubled, Pending, Once, Snapshot
    <3> QED
      BY <3>2, <3>3, <3>4
  <2>3. CASE Starts(f, "forget", NoBatch) /\ UNCHANGED <<buffer, pointer, staged>>
    <3>1. ReadsAreFaithful' /\ RunsHoldABatch'
      BY <1>0, <1>1, <2>3 DEF ReadsAreFaithful, RunsHoldABatch, Snapshot, Starts
    <3>2. NobodyNeedsTheForgettable'
      BY <1>0, <1>1, <2>3 DEF NobodyNeedsTheForgettable, Forgettable, Snapshot, Starts, Runs
    <3>3. NeitherLostNorDoubled'
      BY <1>1, <2>3 DEF NeitherLostNorDoubled, Pending, Snapshot
    <3> QED
      BY <3>1, <3>2, <3>3
  <2> QED
    BY <1>1, <2>1, <2>2, <2>3 DEF Snapshot
<1>2. CASE ReadViews(f)
  <2>1. ReadsAreFaithful' /\ RunsHoldABatch'
    BY <1>0, <1>2 DEF ReadsAreFaithful, RunsHoldABatch, ReadViews, Runs
  <2>2. NobodyNeedsTheForgettable'
    <3>1. \A g \in Flushers : run'[g].batch = run[g].batch /\ run'[g].cutoff = run[g].cutoff
      BY <1>0, <1>2 DEF ReadViews, Runs
    <3> QED
      BY <1>2, <3>1 DEF NobodyNeedsTheForgettable, Forgettable, ReadViews
  <2>3. NeitherLostNorDoubled'
    BY <1>2 DEF NeitherLostNorDoubled, Pending, ReadViews
  <2> QED
    BY <2>1, <2>2, <2>3
<1>3. CASE ReadHours(f)
  <2>1. ReadsAreFaithful' /\ RunsHoldABatch'
    BY <1>0, <1>3 DEF ReadsAreFaithful, RunsHoldABatch, ReadHours, Runs
  <2>2. NobodyNeedsTheForgettable'
    <3>1. \A g \in Flushers : run'[g].batch = run[g].batch /\ run'[g].cutoff = run[g].cutoff
      BY <1>0, <1>3 DEF ReadHours, Runs
    <3> QED
      BY <1>3, <3>1 DEF NobodyNeedsTheForgettable, Forgettable, ReadHours
  <2>3. NeitherLostNorDoubled'
    BY <1>3 DEF NeitherLostNorDoubled, Pending, ReadHours
  <2> QED
    BY <2>1, <2>2, <2>3
<1>4. CASE Apply(f)
  <2>1. ReadsAreFaithful' /\ RunsHoldABatch'
    BY <1>0, <1>4 DEF ReadsAreFaithful, RunsHoldABatch, Apply, Runs
  <2>2. NobodyNeedsTheForgettable'
    <3>1. \A g \in Flushers : run'[g].batch = run[g].batch /\ run'[g].cutoff = run[g].cutoff
      BY <1>0, <1>4 DEF Apply, Runs
    <3> QED
      BY <1>4, <3>1 DEF NobodyNeedsTheForgettable, Forgettable, Apply
  <2>3. CASE run[f].batch \in ledger
    BY <1>4, <2>1, <2>2, <2>3 DEF NeitherLostNorDoubled, Pending, Apply
  <2>4. CASE run[f].batch \notin ledger
    <3>1. /\ run[f].batch = pointer /\ pointer \in Batches \ ledger
          /\ run[f].views = staged[pointer] /\ run[f].hours = staged[pointer]
      BY <1>0, <1>4, <2>4 DEF ReadsAreFaithful, RunsHoldABatch, Apply
    <3>2. /\ ledger' = ledger \cup {pointer}
          /\ total' = Plus(total, staged[pointer])
          /\ hourly' = Plus(hourly, staged[pointer])
          /\ UNCHANGED <<seen, buffer, pointer, staged>>
      BY <1>4, <2>4, <3>1 DEF Apply
    <3>3. NeitherLostNorDoubled'
      BY <1>0, <3>1, <3>2 DEF NeitherLostNorDoubled, Pending, Once, Plus
    <3> QED
      BY <2>1, <2>2, <3>3
  <2> QED
    BY <2>1, <2>2, <2>3, <2>4
<1>5. CASE Release(f)
  <2>1. run[f].batch \in ledger
    BY <1>0, <1>5 DEF ReadsAreFaithful, RunsHoldABatch, Release
  <2>2. ReadsAreFaithful' /\ RunsHoldABatch'
    BY <1>0, <1>5, <2>1 DEF ReadsAreFaithful, RunsHoldABatch, Release, Runs
  <2>3. NobodyNeedsTheForgettable'
    BY <1>0, <1>5 DEF NobodyNeedsTheForgettable, Forgettable, Release, Runs
  <2>4. NeitherLostNorDoubled'
    BY <1>0, <1>5, <2>1 DEF NeitherLostNorDoubled, Pending, Once, Release
  <2> QED
    BY <2>2, <2>3, <2>4
<1>6. CASE Forget(f)
  <2>1. \A b \in run[f].cutoff : b \in Batches /\ Forgettable(b)
    BY <1>0 DEF Forgettable, Runs
  <2>2. ReadsAreFaithful' /\ RunsHoldABatch'
    BY <1>0, <1>6, <2>1
    DEF ReadsAreFaithful, RunsHoldABatch, NobodyNeedsTheForgettable, Forget, Idle
  <2>3. NobodyNeedsTheForgettable'
    <3>1. run'[f] = Idle /\ \A g \in Flushers \ {f} : run'[g] = run[g]
      BY <1>0, <1>6 DEF Forget
    <3>2. \A b \in Batches : Forgettable(b)' => Forgettable(b)
      BY <1>6, <3>1 DEF Forgettable, Forget, Idle
    <3> QED
      BY <1>6, <3>1, <3>2 DEF NobodyNeedsTheForgettable, Forget, Idle
  <2>4. NeitherLostNorDoubled'
    BY <1>0, <1>6, <2>1 DEF NeitherLostNorDoubled, Pending, NobodyNeedsTheForgettable, Forget
  <2> QED
    BY <2>2, <2>3, <2>4
<1>7. CASE Die(f)
  <2>1. ReadsAreFaithful' /\ RunsHoldABatch'
    BY <1>0, <1>7 DEF ReadsAreFaithful, RunsHoldABatch, Die, Idle
  <2>2. NobodyNeedsTheForgettable'
    BY <1>0, <1>7 DEF NobodyNeedsTheForgettable, Forgettable, Die, Idle, Runs
  <2>3. NeitherLostNorDoubled'
    BY <1>7 DEF NeitherLostNorDoubled, Pending, Die
  <2> QED
    BY <2>1, <2>2, <2>3
<1> QED
  BY <1>1, <1>2, <1>3, <1>4, <1>5, <1>6, <1>7 DEF Flush

(* The variables keep their types, whatever step is taken: a run reads a   *)
(* batch only.                                                             *)
LEMMA TypePreserves == TypeOK /\ RunsHoldABatch /\ [Next]_vars => TypeOK'
<1> SUFFICES ASSUME TypeOK, RunsHoldABatch, [Next]_vars PROVE TypeOK'
  OBVIOUS
<1> USE ViewAssumption DEF TypeOK, database, redis, processes, At, Goto
<1>1. ASSUME NEW s \in Servers, NEW v \in Viewers, Record(s, v) PROVE TypeOK'
  <2>1. seen' \subseteq Viewers /\ buffer' \subseteq Viewers
    BY <1>1 DEF Record, Recorded
  <2>2. CASE HandsBack(s)
    BY <1>1, <2>1, <2>2 DEF Record, HandsBack
  <2>3. CASE Holds(s, {v}) /\ UNCHANGED replays
    BY <1>1, <2>1, <2>3 DEF Record, Holds
  <2> QED
    BY <1>1, <2>2, <2>3 DEF Record
<1>2. ASSUME NEW s \in Servers, NEW v \in Viewers, Defer(s, v) PROVE TypeOK'
  BY <1>2 DEF Defer, Holds
<1>3. ASSUME NEW s \in Servers, NEW views \in replays[s], HandBack(s, views) PROVE TypeOK'
  <2>1. views \subseteq Viewers
    BY <1>3
  <2>2. replays' \in [Servers -> SUBSET SUBSET Viewers]
    BY <1>3 DEF HandBack
  <2>3. seen' \subseteq Viewers /\ buffer' \subseteq Viewers
    BY <1>3, <2>1 DEF HandBack, Recorded
  <2>4. CASE UNCHANGED held
    BY <1>3, <2>2, <2>3, <2>4 DEF HandBack
  <2>5. CASE Holds(s, views)
    <3>1. PICK kept \in SUBSET (views \ held[s]) :
            held' = [held EXCEPT ![s] = @ \cup kept]
      BY <2>5 DEF Holds
    <3> QED
      BY <1>3, <2>1, <2>2, <2>3, <3>1 DEF HandBack
  <2> QED
    BY <1>3, <2>4, <2>5 DEF HandBack
<1>4. ASSUME NEW s \in Servers, Stop(s) PROVE TypeOK'
  BY <1>4 DEF Stop
<1>5. ASSUME NEW f \in Flushers, Snapshot(f) PROVE TypeOK'
  <2>1. ASSUME NEW state \in {"views", "forget"}, NEW b \in Batches \cup {NoBatch},
               Starts(f, state, b)
        PROVE  run' \in [Flushers -> Runs]
    BY <2>1 DEF Starts, Runs
  <2>2. run' \in [Flushers -> Runs]
    BY <1>5, <2>1 DEF Snapshot, FreshBatches
  <2> QED
    BY <1>5, <2>2 DEF Snapshot, FreshBatches
<1>6. ASSUME NEW f \in Flushers, ReadViews(f) PROVE TypeOK'
  <2>1. run[f].batch \in Batches
    BY <1>6 DEF ReadViews, RunsHoldABatch
  <2>2. staged[run[f].batch] \subseteq Viewers
    BY <2>1
  <2>3. [run[f] EXCEPT !.pc = "hours", !.views = staged[run[f].batch]] \in Runs
    <3>1. ASSUME NEW r \in Runs, NEW read \in SUBSET Viewers
          PROVE  [r EXCEPT !.views = read] \in Runs
      BY DEF Runs
    <3>2. [run[f] EXCEPT !.pc = "hours"] \in Runs
      BY DEF Runs
    <3> QED
      BY <2>2, <3>1, <3>2
  <2>4. run' \in [Flushers -> Runs]
    BY <1>6, <2>3 DEF ReadViews
  <2> QED
    BY <1>6, <2>4 DEF ReadViews
<1>7. ASSUME NEW f \in Flushers, ReadHours(f) PROVE TypeOK'
  <2>1. run[f].batch \in Batches
    BY <1>7 DEF ReadHours, RunsHoldABatch
  <2>2. staged[run[f].batch] \subseteq Viewers
    BY <2>1
  <2>3. [run[f] EXCEPT !.pc = "apply", !.hours = staged[run[f].batch]] \in Runs
    <3>1. ASSUME NEW r \in Runs, NEW read \in SUBSET Viewers
          PROVE  [r EXCEPT !.hours = read] \in Runs
      BY DEF Runs
    <3>2. [run[f] EXCEPT !.pc = "apply"] \in Runs
      BY DEF Runs
    <3> QED
      BY <2>2, <3>1, <3>2
  <2>4. run' \in [Flushers -> Runs]
    BY <1>7, <2>3 DEF ReadHours
  <2> QED
    BY <1>7, <2>4 DEF ReadHours
<1>8. ASSUME NEW f \in Flushers, Apply(f) PROVE TypeOK'
  <2>1. run' \in [Flushers -> Runs]
    BY <1>8 DEF Apply, Runs
  <2>2. run[f].batch \in Batches
    BY <1>8 DEF Apply, RunsHoldABatch
  <2>3. /\ total' \in [Viewers -> Nat] /\ hourly' \in [Viewers -> Nat]
        /\ ledger' \subseteq Batches /\ old' \subseteq ledger'
    BY <1>8, <2>2 DEF Apply, Plus
  <2> QED
    BY <1>8, <2>1, <2>3 DEF Apply
<1>9. ASSUME NEW f \in Flushers, Release(f) PROVE TypeOK'
  <2>1. run' \in [Flushers -> Runs]
    BY <1>9 DEF Release, Runs
  <2>2. /\ pointer' \in Batches \cup {NoBatch}
        /\ staged' \in [Batches -> SUBSET Viewers]
    BY <1>9 DEF Release
  <2> QED
    BY <1>9, <2>1, <2>2 DEF Release
<1>10. ASSUME NEW f \in Flushers, Forget(f) PROVE TypeOK'
  BY <1>10 DEF Forget, Idle, Runs
<1>11. ASSUME NEW f \in Flushers, Die(f) PROVE TypeOK'
  BY <1>11 DEF Die, Idle, Runs
<1>12. ASSUME NEW b \in Batches, Age(b) PROVE TypeOK'
  BY <1>12 DEF Age
<1>13. CASE UNCHANGED vars
  BY <1>13 DEF vars
<1> QED
  BY <1>1, <1>2, <1>3, <1>4, <1>5, <1>6, <1>7, <1>8, <1>9, <1>10, <1>11, <1>12, <1>13
  DEF Next, Beacons, HandsBackAll, Flush

(* Unless the flush may be down for batchRetentionMs, every step preserves *)
(* the invariant.                                                          *)
LEMMA StepPreserves == Outage = FALSE /\ IInv /\ [Next]_vars => IInv'
<1> SUFFICES ASSUME Outage = FALSE, IInv, [Next]_vars PROVE IInv'
  OBVIOUS
<1>0. TypeOK'
  BY TypePreserves DEF IInv
<1>1. ASSUME NEW s \in Servers, NEW v \in Viewers, Record(s, v) PROVE IInv'
  BY <1>0, <1>1, RecordingPreserves DEF Record
<1>2. ASSUME NEW s \in Servers, NEW v \in Viewers, Defer(s, v) PROVE IInv'
  <2>1. UNCHANGED <<seen, buffer>> /\ UNCHANGED <<pointer, staged, database, run>>
    BY <1>2 DEF Defer, redis
  <2> QED
    BY <1>0, <2>1, RecordingPreserves
<1>3. ASSUME NEW s \in Servers, NEW views \in replays[s], HandBack(s, views) PROVE IInv'
  <2>1. PICK done \in SUBSET views : Recorded(done)
    BY <1>3 DEF HandBack
  <2>2. done \in SUBSET Viewers
    BY <1>3 DEF IInv, TypeOK
  <2>3. UNCHANGED <<pointer, staged, database, run>>
    BY <1>3 DEF HandBack
  <2> QED
    BY <1>0, <2>1, <2>2, <2>3, RecordingPreserves
<1>4. ASSUME NEW s \in Servers, Stop(s) PROVE IInv'
  <2>1. UNCHANGED <<seen, buffer>> /\ UNCHANGED <<pointer, staged, database, run>>
    BY <1>4 DEF Stop, redis
  <2> QED
    BY <1>0, <2>1, RecordingPreserves
<1>5. ASSUME NEW f \in Flushers, Flush(f) \/ Die(f) PROVE IInv'
  BY <1>0, <1>5, FlushPreserves
<1>6. ASSUME NEW b \in Batches, Age(b) PROVE IInv'
  <2>1. UNCHANGED <<seen, buffer, pointer, staged, ledger, total, hourly, run>>
    BY <1>6 DEF Age, redis
  <2>2. ReadsAreFaithful' /\ RunsHoldABatch' /\ NeitherLostNorDoubled'
    BY <2>1 DEF IInv, ReadsAreFaithful, RunsHoldABatch, NeitherLostNorDoubled, Pending
  <2>3. NobodyNeedsTheForgettable'
    BY <1>6, <2>1 DEF IInv, Age, NobodyNeedsTheForgettable, Forgettable
  <2> QED
    BY <1>0, <2>2, <2>3 DEF IInv
<1>7. CASE UNCHANGED vars
  <2>1. UNCHANGED <<seen, buffer>> /\ UNCHANGED <<pointer, staged, database, run>>
    BY <1>7 DEF vars, database
  <2> QED
    BY <1>0, <2>1, RecordingPreserves
<1> QED
  BY <1>1, <1>2, <1>3, <1>4, <1>5, <1>6, <1>7 DEF Next, Beacons, HandsBackAll

(* The invariant holds throughout, unless the flush may be down for        *)
(* batchRetentionMs.                                                       *)
THEOREM Invariant == Outage = FALSE /\ Spec => []IInv
<1> SUFFICES ASSUME Outage = FALSE PROVE Spec => []IInv
  OBVIOUS
<1>1. IInv /\ [Next]_vars => IInv'
  BY StepPreserves
<1> QED
  BY InitEstablishes, <1>1, PTL DEF Spec

(* Neither a flush that dies at any step, nor two flushes that meet        *)
(* anywhere, nor an API process that stops makes the counts lose a view    *)
(* the sketch holds or count it twice, whatever number of each there is.   *)
THEOREM ViewsAreExact == Outage = FALSE /\ Spec => []NeitherLostNorDoubled
<1>1. IInv => NeitherLostNorDoubled
  BY DEF IInv
<1> QED
  BY <1>1, Invariant, PTL

(* A run takes its batch from the pointer, or from a fresh one.            *)
LEMMA BatchIsHeld == TypeOK /\ RunsHoldABatch /\ [Next]_vars => RunsHoldABatch'
<1> SUFFICES ASSUME TypeOK, RunsHoldABatch, [Next]_vars PROVE RunsHoldABatch'
  OBVIOUS
<1> USE DEF RunsHoldABatch
<1>0. run \in [Flushers -> Runs] /\ pointer \in Batches \cup {NoBatch}
  BY DEF TypeOK
<1>1. CASE UNCHANGED run
  BY <1>1
<1>2. ASSUME NEW f \in Flushers, Flush(f) PROVE RunsHoldABatch'
  <2>1. CASE Snapshot(f)
    <3>1. \/ \E b \in Batches : Starts(f, "views", b)
          \/ Starts(f, "forget", NoBatch)
      BY <1>0, <2>1 DEF Snapshot, FreshBatches
    <3> QED
      BY <1>0, <3>1 DEF Starts
  <2>2. CASE ReadViews(f)
    BY <1>0, <2>2 DEF ReadViews, At
  <2>3. CASE ReadHours(f)
    BY <1>0, <2>3 DEF ReadHours, At
  <2>4. CASE Apply(f)
    BY <1>0, <2>4 DEF Apply, At, Goto
  <2>5. CASE Release(f)
    BY <1>0, <2>5 DEF Release, At, Goto
  <2>6. CASE Forget(f)
    BY <1>0, <2>6 DEF Forget, Idle
  <2> QED
    BY <1>2, <2>1, <2>2, <2>3, <2>4, <2>5, <2>6 DEF Flush
<1>3. ASSUME NEW f \in Flushers, Die(f) PROVE RunsHoldABatch'
  BY <1>0, <1>3 DEF Die, Idle
<1> QED
  BY <1>1, <1>2, <1>3 DEF Next, vars, Beacons, HandsBackAll, Record, Defer, HandBack, Stop, Age

(* The types of the variables hold throughout, of any number of flushes,   *)
(* whether or not the flush may be down for batchRetentionMs.              *)
THEOREM TypeCorrect == Spec => []TypeOK
<1>1. Init => TypeOK /\ RunsHoldABatch
  BY InitEstablishes DEF IInv
<1>2. TypeOK /\ RunsHoldABatch /\ [Next]_vars => (TypeOK /\ RunsHoldABatch)'
  BY TypePreserves, BatchIsHeld
<1> QED
  BY <1>1, <1>2, PTL DEF Spec

-----------------------------------------------------------------------------
(* What a process kept before a step.                                      *)
Loses(s, v) ==
  /\ Keeps(s, v) /\ v \notin seen' /\ faults' = faults
  /\ ~Keeps(s, v)' /\ Cardinality(held'[s]) # Capacity

(* Taking views into the hold gives none up but for room.                  *)
LEMMA HoldsKeeps ==
  ASSUME TypeOK, NEW s \in Servers, NEW views, Holds(s, views), NEW r \in Servers
  PROVE  /\ held[r] \subseteq held'[r]
         /\ views \subseteq held'[s] \/ Cardinality(held'[s]) = Capacity
<1>1. PICK kept \in SUBSET (views \ held[s]) :
        /\ kept = views \ held[s] \/ Cardinality(held[s] \cup kept) = Capacity
        /\ held' = [held EXCEPT ![s] = held[s] \cup kept]
  BY DEF Holds
<1>2. held \in [Servers -> SUBSET Viewers]
  BY DEF TypeOK
<1>3. held'[s] = held[s] \cup kept /\ (r # s => held'[r] = held[r])
  BY <1>1, <1>2
<1> QED
  BY <1>1, <1>3

(* No step of any process loses a view without a cause.                    *)
LEMMA NothingIsLost ==
  ASSUME TypeOK, [Next]_vars, NEW r \in Servers, NEW w \in Viewers, Loses(r, w)
  PROVE  FALSE
<1> USE DEF Loses, Keeps
<1>0. held \in [Servers -> SUBSET Viewers] /\ replays \in [Servers -> SUBSET SUBSET Viewers]
      /\ faults \in Nat
  BY ViewAssumption DEF TypeOK
<1>1. CASE UNCHANGED <<held, replays>>
  BY <1>1
<1>2. ASSUME NEW s \in Servers, NEW v \in Viewers, Record(s, v) PROVE FALSE
  <2>1. CASE HandsBack(s)
    <3>1. CASE r = s
      BY <1>0, <2>1, <3>1 DEF HandsBack
    <3>2. CASE r # s
      BY <1>0, <2>1, <3>2 DEF HandsBack
    <3> QED
      BY <3>1, <3>2
  <2>2. CASE Holds(s, {v}) /\ UNCHANGED replays
    BY <2>2, HoldsKeeps
  <2> QED
    BY <1>2, <2>1, <2>2 DEF Record
<1>3. ASSUME NEW s \in Servers, NEW v \in Viewers, Defer(s, v) PROVE FALSE
  <2>1. Holds(s, {v}) /\ replays' = replays
    BY <1>3 DEF Defer
  <2> QED
    BY <2>1, HoldsKeeps
<1>4. ASSUME NEW s \in Servers, NEW views \in replays[s], HandBack(s, views) PROVE FALSE
  <2>1. replays' = [replays EXCEPT ![s] = replays[s] \ {views}]
    BY <1>4 DEF HandBack
  <2>2. \A x \in replays[r] : (r = s /\ x = views) \/ x \in replays'[r]
    BY <1>0, <2>1
  <2>3. held[r] \subseteq held'[r]
    BY <1>4, HoldsKeeps DEF HandBack
  <2>4. r = s /\ w \in views
    BY <2>2, <2>3
  <2>5. CASE Recorded(views)
    BY <2>4, <2>5 DEF Recorded
  <2>6. CASE Holds(s, views)
    BY <2>4, <2>6, HoldsKeeps
  <2> QED
    BY <1>4, <2>5, <2>6 DEF HandBack
<1>5. ASSUME NEW s \in Servers, Stop(s) PROVE FALSE
  BY <1>0, <1>5 DEF Stop
<1>6. ASSUME NEW f \in Flushers, Flush(f) \/ Die(f) PROVE FALSE
  BY <1>1, <1>6 DEF Flush, Die, Snapshot, ReadViews, ReadHours, Apply, Release, Forget, processes
<1>7. ASSUME NEW b \in Batches, Age(b) PROVE FALSE
  BY <1>1, <1>7 DEF Age, processes
<1> QED
  BY <1>1, <1>2, <1>3, <1>4, <1>5, <1>6, <1>7 DEF Next, vars, Beacons, HandsBackAll

(* An API process gives up a view it took in only when it stops or its     *)
(* hold is full, however hand-backs fail half way.                         *)
THEOREM LossHasCause == Spec => LossNeedsCause
<1>1. TypeOK /\ [Next]_vars =>
        [\A s \in Servers : \A v \in Viewers :
           Keeps(s, v) /\ v \notin seen' /\ faults' = faults
             => Keeps(s, v)' \/ Cardinality(held'[s]) = Capacity]_vars
  BY NothingIsLost DEF Loses
<1> QED
  BY TypeCorrect, <1>1, PTL DEF Spec, LossNeedsCause
=============================================================================
