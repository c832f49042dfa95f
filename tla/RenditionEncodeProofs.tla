------------------------ MODULE RenditionEncodeProofs ------------------------
(***************************************************************************)
(* What the fence does not cover in the encode of a rendition, proved for  *)
(* any tokens, any number of segments and of uploads at once, and any      *)
(* number of stalls and crashes: the output behind DONE, and the count of  *)
(* events.                                                                 *)
(***************************************************************************)
EXTENDS RenditionEncode, FiniteSetTheorems, TLAPS

(* An uploader has taken no more from its queue than was queued, has in    *)
(* flight only what it took, and never more than its places.               *)
Sound(u) ==
  /\ u.started <= u.seen
  /\ u.active \subseteq 1..u.started
  /\ Cardinality(u.active) <= Concurrency

(* What an uploader is done with.                                          *)
Sent(u) == (1..u.started) \ u.active

-----------------------------------------------------------------------------
(* What is in flight is finite, and can be counted.                        *)
LEMMA InFlightIsFinite ==
  ASSUME NEW u \in Uploaders
  PROVE  IsFiniteSet(u.active) /\ Cardinality(u.active) \in Nat
<1>1. 1 \in Int /\ Segments \in Int
  BY UploaderAssumption
<1>2. IsFiniteSet(1..Segments)
  BY <1>1, FS_Interval
<1>3. u.active \in SUBSET (1..Segments)
  BY DEF Uploaders
<1>4. IsFiniteSet(u.active)
  BY <1>2, <1>3, FS_Subset
<1> QED
  BY <1>4, FS_CardinalityType

(* Taking n segments from the queue puts them in flight, and sends none.   *)
LEMMA TakingIsSound ==
  ASSUME NEW u \in Uploaders, Sound(u),
         NEW n \in Nat, u.started + n <= u.seen, Cardinality(u.active) + n <= Concurrency
  PROVE  LET v == [u EXCEPT !.started = @ + n,
                            !.active = @ \cup (u.started + 1)..(u.started + n)]
         IN  v \in Uploaders /\ Sound(v) /\ Sent(v) \subseteq Sent(u)
<1> DEFINE more == (u.started + 1)..(u.started + n)
<1>1. /\ u.seen \in 0..Segments /\ u.started \in 0..Segments
      /\ u.active \in SUBSET (1..Segments) /\ u.fatal \in BOOLEAN
      /\ Segments \in Nat /\ Concurrency \in Nat
  BY UploaderAssumption DEF Uploaders
<1>2. IsFiniteSet(u.active) /\ Cardinality(u.active) \in Nat
  BY InFlightIsFinite
<1>3. IsFiniteSet(more) /\ Cardinality(more) = n
  <2> DEFINE first == u.started + 1
             last == u.started + n
  <2>1. first \in Int /\ last \in Int /\ last - first + 1 = n /\ (first > last <=> n = 0)
    BY <1>1
  <2> HIDE DEF first, last
  <2>2. IsFiniteSet(first..last)
        /\ Cardinality(first..last) = IF first > last THEN 0 ELSE last - first + 1
    BY <2>1, FS_Interval
  <2>3. Cardinality(first..last) = n
    BY <2>1, <2>2
  <2> QED
    BY <2>2, <2>3 DEF first, last
<1>4. Cardinality(u.active \cup more) <= Concurrency
  <2>1. Cardinality(u.active \cup more)
          = Cardinality(u.active) + Cardinality(more) - Cardinality(u.active \cap more)
    BY <1>2, <1>3, FS_Union
  <2>2. Cardinality(u.active \cap more) \in Nat
    BY <1>2, FS_Subset, FS_CardinalityType
  <2> HIDE DEF more
  <2> QED
    BY <1>1, <1>2, <1>3, <2>1, <2>2
<1>5. u.started + n \in 0..Segments /\ u.active \cup more \in SUBSET (1..Segments)
  BY <1>1
<1> DEFINE v == [u EXCEPT !.started = @ + n, !.active = @ \cup more]
<1>6. /\ v \in Uploaders
      /\ v.seen = u.seen /\ v.started = u.started + n /\ v.active = u.active \cup more
  BY <1>5 DEF Uploaders
<1>7. Sound(v) /\ Sent(v) \subseteq Sent(u)
  BY <1>1, <1>4, <1>6 DEF Sound, Sent
<1> QED
  BY <1>6, <1>7

(* scheduleWork keeps an uploader sound, and sends nothing by itself.      *)
LEMMA SchedulingIsSound ==
  ASSUME NEW u \in Uploaders, Sound(u)
  PROVE  LET v == Scheduled(u) IN
         /\ v \in Uploaders /\ Sound(v)
         /\ v.seen = u.seen /\ v.fatal = u.fatal
         /\ Sent(v) \subseteq Sent(u)
<1> DEFINE places == Concurrency - Cardinality(u.active)
           queued == u.seen - u.started
           taken == IF u.fatal THEN 0 ELSE IF queued < places THEN queued ELSE places
<1>1. /\ u.seen \in 0..Segments /\ u.started \in 0..Segments
      /\ u.active \in SUBSET (1..Segments)
      /\ Segments \in Nat /\ Concurrency \in Nat
  BY UploaderAssumption DEF Uploaders
<1>2. Cardinality(u.active) \in Nat
  BY InFlightIsFinite
<1>3. taken \in Nat /\ u.started + taken <= u.seen /\ Cardinality(u.active) + taken <= Concurrency
  BY <1>1, <1>2 DEF Sound
<1>4. Scheduled(u) = [u EXCEPT !.started = @ + taken,
                               !.active = @ \cup (u.started + 1)..(u.started + taken)]
  BY DEF Scheduled
<1> HIDE DEF taken
<1>5. Scheduled(u) \in Uploaders /\ Sound(Scheduled(u)) /\ Sent(Scheduled(u)) \subseteq Sent(u)
  BY <1>3, <1>4, TakingIsSound
<1>6. Scheduled(u).seen = u.seen /\ Scheduled(u).fatal = u.fatal
  BY <1>4 DEF Uploaders
<1> QED
  BY <1>5, <1>6

(* A scan that finds n segments, of which it may have queued some before.  *)
LEMMA ScanningIsSound ==
  ASSUME NEW u \in Uploaders, Sound(u), NEW n \in u.seen..Segments
  PROVE  LET v == Scanned(u, n) IN
         /\ v \in Uploaders /\ Sound(v)
         /\ v.seen = IF u.fatal THEN u.seen ELSE n
         /\ v.fatal = u.fatal
         /\ Sent(v) \subseteq Sent(u)
<1>1. CASE u.fatal
  BY <1>1 DEF Scanned
<1>2. CASE ~u.fatal
  <2> DEFINE w == [u EXCEPT !.seen = n]
  <2>1. /\ w \in Uploaders
        /\ w.seen = n /\ w.started = u.started /\ w.active = u.active /\ w.fatal = u.fatal
    BY UploaderAssumption DEF Uploaders
  <2>2. Sound(w) /\ Sent(w) = Sent(u)
    BY <2>1, UploaderAssumption DEF Uploaders, Sound, Sent
  <2>3. Scanned(u, n) = Scheduled(w)
    BY <1>2 DEF Scanned
  <2> HIDE DEF w
  <2> QED
    BY <1>2, <2>1, <2>2, <2>3, SchedulingIsSound
<1> QED
  BY <1>1, <1>2

(* The end of an upload sends the segment it was for, or is fatal.         *)
LEMMA EndingIsSound ==
  ASSUME NEW u \in Uploaders, Sound(u), NEW segment \in u.active, NEW succeeded \in BOOLEAN
  PROVE  LET v == SegmentEnded(u, segment, succeeded) IN
         /\ v \in Uploaders /\ Sound(v)
         /\ v.seen = u.seen
         /\ v.fatal = (u.fatal \/ ~succeeded)
         /\ Sent(v) \subseteq Sent(u) \cup {segment}
<1> DEFINE w == [u EXCEPT !.active = @ \ {segment}, !.fatal = @ \/ ~succeeded]
<1>1. /\ w \in Uploaders
      /\ w.seen = u.seen /\ w.started = u.started /\ w.active = u.active \ {segment}
      /\ w.fatal = (u.fatal \/ ~succeeded)
  BY DEF Uploaders
<1>2. Sound(w)
  <2>1. Cardinality(w.active) <= Cardinality(u.active)
    BY <1>1, InFlightIsFinite, FS_Subset
  <2>2. Cardinality(w.active) \in Nat /\ Cardinality(u.active) \in Nat /\ Concurrency \in Nat
    BY <1>1, InFlightIsFinite, UploaderAssumption
  <2>3. Cardinality(u.active) <= Concurrency /\ u.started <= u.seen /\ u.active \subseteq 1..u.started
    BY DEF Sound
  <2> HIDE DEF w
  <2> QED
    BY <1>1, <2>1, <2>2, <2>3 DEF Sound
<1>3. Sent(w) \subseteq Sent(u) \cup {segment}
  BY <1>1 DEF Sent
<1>4. SegmentEnded(u, segment, succeeded) = Scheduled(w)
  BY DEF SegmentEnded
<1> HIDE DEF w
<1> QED
  BY <1>1, <1>2, <1>3, <1>4, SchedulingIsSound

-----------------------------------------------------------------------------
(* The inductive invariant.                                                *)

(* Only an encode has an uploader to speak of.                             *)
UploadersAreSound ==
  \A t \in Tokens :
    /\ Sound(uploader[t])
    /\ pc[t] \notin Encoding => uploader[t] = NewUploader

(* What an uploader that met no error is done with is in the bucket.       *)
SentIsThere == \A t \in Tokens : ~uploader[t].fatal => Sent(uploader[t]) \subseteq segments

(* The last look, if it looks, finds everything.                           *)
DrainingHasSeenAll ==
  ~FinalScanErrs =>
    \A t \in Tokens : pc[t] = "draining" /\ ~uploader[t].fatal => uploader[t].seen = Segments

(* No execution is past the upload of the playlist, no step and no         *)
(* rendition DONE, without a playlist, and no playlist without segments.   *)
PastPlaylist == {"uploaded", "recorded", "purgeHeld", "purgeLost", "event"}

PlaylistBehind ==
  /\ \A t \in Tokens : pc[t] \in PastPlaylist => playlist
  /\ row.status = "DONE" \/ rendition = "DONE" => playlist

SegmentsBehind == ~FinalScanErrs => (playlist => segments = 1..Segments)

(* An execution that has not claimed is not named by the row, and one that *)
(* works and is named by it has not completed it.                          *)
Working == {"starting", "input", "encoding", "draining", "failing", "uploaded", "recorded"}

FenceHolds ==
  \A t \in Tokens :
    /\ pc[t] = "claim" => row.token # t
    /\ pc[t] \in Working /\ row.token = t => row.status # "DONE"

(* The executions that completed the step and have their event to send     *)
(* each hold a completion no event was sent for.                           *)
Announcing == {t \in Tokens : pc[t] \in {"purgeHeld", "event"}}

EventsOwed ==
  /\ IsFiniteSet(Announcing)
  /\ events + Cardinality(Announcing) <= commits

CommitLedger == commits = revoked + (IF row.status = "DONE" THEN 1 ELSE 0)

IInv ==
  /\ TypeOK
  /\ UploadersAreSound /\ SentIsThere /\ DrainingHasSeenAll
  /\ PlaylistBehind /\ SegmentsBehind
  /\ FenceHolds
  /\ EventsOwed /\ CommitLedger

-----------------------------------------------------------------------------
(* A new uploader is sound and has sent nothing.                           *)
LEMMA NewUploaderIsSound ==
  /\ NewUploader \in Uploaders /\ Sound(NewUploader) /\ Sent(NewUploader) = {}
<1>1. Cardinality({}) = 0
  BY FS_EmptySet
<1> QED
  BY <1>1, UploaderAssumption DEF NewUploader, Uploaders, Sound, Sent

(* The invariant holds of a job no worker has taken.                       *)
LEMMA InitEstablishes == Init => IInv
<1> SUFFICES ASSUME Init PROVE IInv
  OBVIOUS
<1>1. TypeOK
  <2>1. Chunked \in BOOLEAN /\ MaxFaults \in Nat
    BY EncodeAssumption
  <2>2. row \in StepRows(Tokens \cup {NoToken}) /\ job \in StageJobs(Tokens)
    BY DEF Init, NoStep, StepRows, StepStatus, StageJobs, JobStates, NewJob, Added
  <2>3. chunks \in BOOLEAN /\ playlist \in BOOLEAN
    BY <2>1 DEF Init
  <2> QED
    BY <2>1, <2>2, <2>3, NewUploaderIsSound DEF Init, TypeOK, Places
<1>2. UploadersAreSound /\ SentIsThere /\ DrainingHasSeenAll
  BY NewUploaderIsSound DEF Init, UploadersAreSound, SentIsThere, DrainingHasSeenAll
<1>3. PlaylistBehind /\ SegmentsBehind /\ FenceHolds /\ CommitLedger
  BY DEF Init, NoStep, PlaylistBehind, PastPlaylist, SegmentsBehind, FenceHolds, Working, CommitLedger
<1>4. EventsOwed
  <2>1. Announcing = {}
    BY DEF Init, Announcing
  <2> QED
    BY <2>1, FS_EmptySet DEF Init, EventsOwed
<1> QED
  BY <1>1, <1>2, <1>3, <1>4 DEF IInv

(* Leaving a place: the uploader is dropped unless the encode goes on.     *)
LEMMA MoveKeepsUploaders ==
  ASSUME IInv, NEW t \in Tokens, NEW place \in Places, Goto(t, place), UNCHANGED segments,
         place \in Encoding => place = "encoding" /\ pc[t] \notin Encoding
  PROVE  /\ pc' \in [Tokens -> Places] /\ uploader' \in [Tokens -> Uploaders]
         /\ UploadersAreSound' /\ SentIsThere' /\ DrainingHasSeenAll'
  BY NewUploaderIsSound
  DEF IInv, TypeOK, Goto, Encoding, UploadersAreSound, SentIsThere, DrainingHasSeenAll

(* Who is announcing after one execution went from one place to another.   *)
LEMMA MoveCountsAnnouncing ==
  ASSUME IInv, NEW t \in Tokens, NEW place \in Places, pc' = [pc EXCEPT ![t] = place]
  PROVE  /\ IsFiniteSet(Announcing') /\ Cardinality(Announcing') \in Nat
         /\ Cardinality(Announcing) \in Nat
         /\ t \in Announcing /\ place \notin {"purgeHeld", "event"} =>
              Cardinality(Announcing') = Cardinality(Announcing) - 1
         /\ (t \in Announcing <=> place \in {"purgeHeld", "event"}) =>
              Cardinality(Announcing') = Cardinality(Announcing)
         /\ t \notin Announcing /\ place \in {"purgeHeld", "event"} =>
              Cardinality(Announcing') = Cardinality(Announcing) + 1
<1> DEFINE others == Announcing \ {t}
<1>1. IsFiniteSet(Announcing) /\ Cardinality(Announcing) \in Nat
  BY FS_CardinalityType DEF IInv, EventsOwed
<1>2. /\ IsFiniteSet(others) /\ Cardinality(others) \in Nat
      /\ Cardinality(others) = Cardinality(Announcing) - (IF t \in Announcing THEN 1 ELSE 0)
  BY <1>1, FS_RemoveElement, FS_CardinalityType
<1>4. Announcing' = IF place \in {"purgeHeld", "event"} THEN others \cup {t} ELSE others
  BY DEF IInv, TypeOK, Announcing
<1>5. /\ IsFiniteSet(others \cup {t})
      /\ Cardinality(others \cup {t}) = Cardinality(others) + 1
  BY <1>2, FS_AddElement
<1> HIDE DEF others
<1> QED
  BY <1>1, <1>2, <1>4, <1>5

(* Every step of an execution preserves the invariant: the encode first.   *)
LEMMA EncodePreserves ==
  ASSUME IInv, NEW t \in Tokens,
         Poll(t) \/ UploadSegment(t) \/ EncodeEnds(t)
  PROVE  IInv'
<1> USE DEF IInv, TypeOK
<1>1. Segments \in Nat /\ uploader[t] \in Uploaders /\ Sound(uploader[t])
      /\ uploader[t].seen \in 0..Segments
  BY UploaderAssumption DEF UploadersAreSound, Uploaders
<1>2. ASSUME Poll(t) PROVE IInv'
  <2>1. PICK n \in uploader[t].seen + 1..Segments : Uploads(t, Scanned(uploader[t], n))
    BY <1>2 DEF Poll
  <2>2. n \in uploader[t].seen..Segments
    BY <1>1, <2>1
  <2> DEFINE v == Scanned(uploader[t], n)
  <2>3. v \in Uploaders /\ Sound(v) /\ v.fatal = uploader[t].fatal
        /\ Sent(v) \subseteq Sent(uploader[t])
    BY <1>1, <2>2, ScanningIsSound
  <2> HIDE DEF v
  <2>4. uploader' = [uploader EXCEPT ![t] = v] /\ pc[t] = "encoding"
    BY <1>2, <2>1 DEF Poll, Uploads, v
  <2>5. UNCHANGED <<row, rendition, chunks, segments, playlist, job, pc, reports, marked, faults, history>>
    BY <1>2, <2>1 DEF Poll, Uploads
  <2>6. TypeOK' /\ UploadersAreSound' /\ SentIsThere' /\ DrainingHasSeenAll'
    BY <2>3, <2>4, <2>5 DEF UploadersAreSound, SentIsThere, DrainingHasSeenAll, Encoding, history
  <2>7. PlaylistBehind' /\ SegmentsBehind' /\ FenceHolds' /\ EventsOwed' /\ CommitLedger'
    BY <2>5 DEF PlaylistBehind, SegmentsBehind, FenceHolds, EventsOwed, Announcing, CommitLedger, history
  <2> QED
    BY <2>6, <2>7
<1>3. ASSUME UploadSegment(t) PROVE IInv'
  <2>1. PICK segment \in uploader[t].active, succeeded \in BOOLEAN :
          /\ Uploads(t, SegmentEnded(uploader[t], segment, succeeded))
          /\ segments' = IF succeeded THEN segments \cup {segment} ELSE segments
    BY <1>3 DEF UploadSegment
  <2> DEFINE v == SegmentEnded(uploader[t], segment, succeeded)
  <2>2. /\ v \in Uploaders /\ Sound(v) /\ v.fatal = (uploader[t].fatal \/ ~succeeded)
        /\ v.seen = uploader[t].seen
        /\ Sent(v) \subseteq Sent(uploader[t]) \cup {segment}
    BY <1>1, EndingIsSound
  <2> HIDE DEF v
  <2>3. uploader' = [uploader EXCEPT ![t] = v]
    BY <2>1 DEF Uploads, v
  <2>4. UNCHANGED <<row, rendition, chunks, playlist, job, pc, reports, marked, faults, history>>
    BY <2>1 DEF Uploads
  <2>5. segment \in 1..Segments
    BY <1>1 DEF Uploaders
  <2>6. segments' \subseteq 1..Segments /\ segments \subseteq segments'
    BY <2>1, <2>5
  <2>7. pc[t] \in Encoding
    BY DEF UploadersAreSound, NewUploader
  <2>8. TypeOK'
    BY <2>2, <2>3, <2>4, <2>6 DEF history
  <2>9. UploadersAreSound'
    BY <2>2, <2>3, <2>4, <2>7 DEF UploadersAreSound
  <2>10. SentIsThere'
    <3> SUFFICES ASSUME NEW s \in Tokens, ~uploader'[s].fatal
                 PROVE  Sent(uploader'[s]) \subseteq segments'
      BY DEF SentIsThere
    <3>1. CASE s = t
      BY <2>1, <2>2, <2>3, <3>1 DEF SentIsThere
    <3>2. CASE s # t
      BY <2>3, <2>6, <3>2 DEF SentIsThere
    <3> QED
      BY <3>1, <3>2
  <2>11. DrainingHasSeenAll'
    BY <2>2, <2>3, <2>4 DEF DrainingHasSeenAll
  <2>12. SegmentsBehind'
    BY <2>4, <2>6 DEF SegmentsBehind
  <2>13. PlaylistBehind' /\ FenceHolds' /\ EventsOwed' /\ CommitLedger'
    BY <2>4 DEF PlaylistBehind, FenceHolds, EventsOwed, Announcing, CommitLedger, history
  <2> QED
    BY <2>8, <2>9, <2>10, <2>11, <2>12, <2>13
<1>4. ASSUME EncodeEnds(t) PROVE IInv'
  <2>1. PICK readable \in {TRUE, ~FinalScanErrs} :
          uploader' = IF readable THEN [uploader EXCEPT ![t] = Scanned(@, Segments)] ELSE uploader
    BY <1>4 DEF EncodeEnds
  <2> DEFINE v == IF readable THEN Scanned(uploader[t], Segments) ELSE uploader[t]
  <2>2. Segments \in uploader[t].seen..Segments
    BY <1>1
  <2>3. /\ v \in Uploaders /\ Sound(v) /\ v.fatal = uploader[t].fatal
        /\ Sent(v) \subseteq Sent(uploader[t])
        /\ ~FinalScanErrs /\ ~v.fatal => v.seen = Segments
    BY <1>1, <2>1, <2>2, ScanningIsSound
  <2>4. uploader' = [uploader EXCEPT ![t] = v]
    BY <2>1
  <2> HIDE DEF v
  <2>5. /\ pc[t] = "encoding" /\ pc' = [pc EXCEPT ![t] = "draining"]
        /\ UNCHANGED <<row, rendition, output, job, reports, marked, faults, history>>
    BY <1>4 DEF EncodeEnds
  <2>6. TypeOK' /\ UploadersAreSound' /\ SentIsThere' /\ DrainingHasSeenAll'
    BY <2>3, <2>4, <2>5
    DEF Places, UploadersAreSound, SentIsThere, DrainingHasSeenAll, Encoding, output, history
  <2>7. PlaylistBehind' /\ SegmentsBehind' /\ FenceHolds' /\ CommitLedger'
    BY <2>5
    DEF PlaylistBehind, PastPlaylist, SegmentsBehind, FenceHolds, Working, CommitLedger, output, history
  <2>8. EventsOwed'
    <3>1. IsFiniteSet(Announcing') /\ Cardinality(Announcing') = Cardinality(Announcing)
      <4>1. "draining" \in Places /\ t \notin Announcing
        BY <2>5 DEF Places, Announcing
      <4> HIDE DEF IInv, TypeOK
      <4> QED
        BY <2>5, <4>1, MoveCountsAnnouncing
    <3> QED
      BY <2>5, <3>1 DEF EventsOwed, history
  <2> QED
    BY <2>6, <2>7, <2>8
<1> QED
  BY <1>2, <1>3, <1>4

(* An execution that moves without sending or owing an event, and without  *)
(* touching the output.                                                    *)
LEMMA QuietMovePreserves ==
  ASSUME IInv, NEW t \in Tokens, NEW place \in Places, Goto(t, place),
         place \in Encoding => place = "encoding" /\ pc[t] \notin Encoding,
         pc[t] \in {"purgeHeld", "event"} \/ place \notin {"purgeHeld", "event"},
         UNCHANGED <<segments, history>>
  PROVE  /\ pc' \in [Tokens -> Places] /\ uploader' \in [Tokens -> Uploaders]
         /\ UploadersAreSound' /\ SentIsThere' /\ DrainingHasSeenAll'
         /\ EventsOwed'
<1>1. pc' = [pc EXCEPT ![t] = place]
  BY DEF Goto
<1>2. t \in Announcing <=> pc[t] \in {"purgeHeld", "event"}
  BY DEF Announcing
<1>3. /\ IsFiniteSet(Announcing')
      /\ Cardinality(Announcing) \in Nat
      /\ \/ Cardinality(Announcing') = Cardinality(Announcing)
         \/ Cardinality(Announcing') = Cardinality(Announcing) - 1
  <2>1. CASE place \in {"purgeHeld", "event"}
    <3>1. t \in Announcing
      BY <1>2, <2>1
    <3> QED
      BY <1>1, <2>1, <3>1, MoveCountsAnnouncing
  <2>2. CASE place \notin {"purgeHeld", "event"}
    BY <1>1, <2>2, MoveCountsAnnouncing
  <2> QED
    BY <2>1, <2>2
<1>4. EventsOwed'
  BY <1>3 DEF IInv, TypeOK, EventsOwed, history
<1> QED
  BY <1>4, MoveKeepsUploaders DEF history

(* What the queue makes of an answer, and of a lock that expired.          *)
LEMMA AnsweredIsJob ==
  ASSUME NEW j \in StageJobs(Tokens), NEW outcome
  PROVE  Answered(j, outcome) \in StageJobs(Tokens)
<1>1. j.attempts \in Nat /\ j.attempts + 1 \in Nat
  BY DEF StageJobs
<1>2. CASE outcome = "ok"
  BY <1>2 DEF Answered, StageJobs, JobStates
<1>3. CASE outcome # "ok"
  <2> DEFINE state == IF outcome = "transient" /\ j.attempts + 1 < MaxAttempts THEN "waiting" ELSE "failed"
  <2>1. state \in JobStates
    BY DEF JobStates
  <2>2. Answered(j, outcome) = [j EXCEPT !.attempts = j.attempts + 1, !.owner = NoToken, !.state = state]
    BY <1>3 DEF Answered
  <2> HIDE DEF state
  <2> QED
    BY <1>1, <2>1, <2>2 DEF StageJobs
<1> QED
  BY <1>2, <1>3

(* A job whose lock expired is a job (Stalled).                            *)
LEMMA StalledIsJob ==
  ASSUME NEW j \in StageJobs(Tokens)
  PROVE  Stalled(j) \in StageJobs(Tokens)
<1> DEFINE state == IF j.stalls < MaxStalled THEN "waiting" ELSE "failed"
<1>1. state \in JobStates /\ j.stalls \in Nat /\ j.stalls + 1 \in Nat
  BY DEF JobStates, StageJobs
<1>2. Stalled(j) = [j EXCEPT !.stalls = j.stalls + 1, !.owner = NoToken, !.state = state]
  BY DEF Stalled
<1> HIDE DEF state
<1> QED
  BY <1>1, <1>2 DEF StageJobs

(* A worker that answers keeps the types of the job.                       *)
LEMMA SettledJob ==
  ASSUME TypeOK, NEW t \in Tokens, NEW outcome, Settle(t, outcome)
  PROVE  job' \in StageJobs(Tokens) /\ reports' \in Nat /\ Goto(t, "idle")
  BY AnsweredIsJob DEF TypeOK, Settle

(* So does a lock that expires.                                            *)
LEMMA ExpiredJob ==
  ASSUME TypeOK, Expire
  PROVE  job' \in StageJobs(Tokens) /\ reports' \in Nat
  BY StalledIsJob DEF TypeOK, Expire

(* A move that records a failure at most: neither a claim nor a completion, *)
(* and nothing uploaded.                                                   *)
LEMMA PlainMovePreserves ==
  ASSUME IInv, NEW t \in Tokens, NEW place \in Places, Goto(t, place),
         place \in Encoding => place = "encoding" /\ pc[t] \notin Encoding,
         pc[t] \in {"purgeHeld", "event"} \/ place \notin {"purgeHeld", "event"},
         place \in Working => pc[t] \in Working,
         place = "claim" => row.token # t,
         place \in PastPlaylist => playlist,
         row' = row \/ (row' = Failed(row) /\ row.status # "DONE"),
         rendition' \in {"PENDING", "RUNNING", "DONE", "FAILED"}, rendition' = "DONE" => playlist,
         chunks' \in BOOLEAN, job' \in StageJobs(Tokens), reports' \in Nat, faults' \in 0..MaxFaults,
         UNCHANGED <<segments, playlist, marked, history>>
  PROVE  IInv'
<1> USE DEF IInv
<1>1. /\ pc' \in [Tokens -> Places] /\ uploader' \in [Tokens -> Uploaders]
      /\ UploadersAreSound' /\ SentIsThere' /\ DrainingHasSeenAll'
      /\ EventsOwed'
  BY QuietMovePreserves
<1>2. /\ row' \in StepRows(Tokens \cup {NoToken}) /\ row'.token = row.token
      /\ row'.status = "DONE" <=> row.status = "DONE"
      /\ pc' = [pc EXCEPT ![t] = place]
  BY DEF TypeOK, Failed, Ended, StepRows, StepStatus, Goto
<1>3. TypeOK'
  BY <1>1, <1>2 DEF TypeOK, history
<1>4. PlaylistBehind' /\ SegmentsBehind'
  BY <1>2 DEF TypeOK, PlaylistBehind, SegmentsBehind
<1>5. FenceHolds'
  BY <1>2 DEF TypeOK, FenceHolds, Working
<1>6. CommitLedger'
  BY <1>2 DEF CommitLedger, history
<1> QED
  BY <1>1, <1>3, <1>4, <1>5, <1>6

(* The moves of an execution that neither claim nor complete.              *)
LEMMA StagePreserves ==
  ASSUME IInv, NEW t \in Tokens,
         \/ MarkRunning(t) \/ ReadInput(t) \/ LoseLease(t) \/ EncodeFails(t) \/ UploadFails(t)
         \/ MarkFailed(t) \/ RecordDone(t) \/ StageErrs(t)
  PROVE  IInv'
<1>1. TypeOK /\ PlaylistBehind
  BY DEF IInv
<1>2. /\ row \in StepRows(Tokens \cup {NoToken})
      /\ rendition \in {"PENDING", "RUNNING", "DONE", "FAILED"}
      /\ chunks \in BOOLEAN /\ job \in StageJobs(Tokens) /\ reports \in Nat /\ faults \in 0..MaxFaults
  BY <1>1 DEF TypeOK
<1>3. rendition = "DONE" => playlist
  BY <1>1 DEF PlaylistBehind
<1>4. /\ {"idle", "starting", "input", "encoding", "failing", "recorded"} \subseteq Places
      /\ Encoding \cap {"idle", "starting", "input", "failing", "recorded"} = {}
  BY DEF Places, Encoding
<1> USE DEF output, history
<1>5. CASE MarkRunning(t)
  BY <1>2, <1>4, <1>5, PlainMovePreserves DEF MarkRunning, StillOn, Working, PastPlaylist
<1>6. ASSUME FailStep(t), pc[t] \in Working
      PROVE  row' = row \/ (row' = Failed(row) /\ row.status # "DONE")
  BY <1>6 DEF FailStep, Holds, IInv, FenceHolds
<1>7. CASE ReadInput(t)
  <2>1. CASE UNCHANGED row /\ StillOn(t, "encoding")
    BY <1>2, <1>3, <1>4, <1>7, <2>1, PlainMovePreserves
    DEF ReadInput, StillOn, Working, PastPlaylist, Encoding
  <2>2. CASE FailStep(t) /\ StillOn(t, "failing")
    BY <1>2, <1>3, <1>4, <1>6, <1>7, <2>2, PlainMovePreserves
    DEF ReadInput, StillOn, Working, PastPlaylist
  <2> QED
    BY <1>7, <2>1, <2>2 DEF ReadInput
<1>8. CASE EncodeFails(t)
  BY <1>2, <1>3, <1>4, <1>6, <1>8, PlainMovePreserves DEF EncodeFails, StillOn, Working, PastPlaylist
<1>9. CASE UploadFails(t)
  BY <1>2, <1>3, <1>4, <1>6, <1>9, PlainMovePreserves DEF UploadFails, StillOn, Working, PastPlaylist
<1>10. CASE RecordDone(t)
  <2>1. playlist
    BY <1>1, <1>10 DEF RecordDone, PlaylistBehind, PastPlaylist
  <2> QED
    BY <1>2, <1>4, <1>10, <2>1, PlainMovePreserves DEF RecordDone, StillOn, Working, PastPlaylist
<1>11. ASSUME NEW outcome, Settle(t, outcome),
              UNCHANGED <<row, output, marked, faults, history>>,
              rendition' = rendition \/ rendition' = "FAILED"
       PROVE  IInv'
  BY <1>1, <1>2, <1>3, <1>4, <1>11, SettledJob, PlainMovePreserves DEF Working, PastPlaylist
<1>12. CASE LoseLease(t) \/ MarkFailed(t) \/ StageErrs(t)
  BY <1>11, <1>12 DEF LoseLease, MarkFailed, StageErrs
<1> QED
  BY <1>5, <1>7, <1>8, <1>9, <1>10, <1>12

(* The first claim of a token nobody used since it last named the row.     *)
LEMMA ClaimPreserves ==
  ASSUME IInv, NEW t \in Tokens, Claim(t)
  PROVE  IInv'
<1>1. CASE Claimable(row) /\ row' = Claimed(t) /\ StillOn(t, "starting")
  <2>1. /\ Goto(t, "starting") /\ pc' = [pc EXCEPT ![t] = "starting"]
        /\ row.status # "DONE" /\ row' = [status |-> "RUNNING", token |-> t]
        /\ UNCHANGED <<rendition, chunks, segments, playlist, job, reports, marked, faults, history>>
    BY <1>1 DEF Claim, StillOn, Goto, Claimable, Claimed, output
  <2>2. "starting" \in Places \ Encoding
    BY DEF Places, Encoding
  <2>3. /\ pc' \in [Tokens -> Places] /\ uploader' \in [Tokens -> Uploaders]
        /\ UploadersAreSound' /\ SentIsThere' /\ DrainingHasSeenAll'
        /\ EventsOwed'
    BY <2>1, <2>2, QuietMovePreserves
  <2>4. TypeOK'
    BY <2>1, <2>3 DEF IInv, TypeOK, StepRows, StepStatus, history
  <2>5. PlaylistBehind' /\ SegmentsBehind'
    BY <2>1 DEF IInv, TypeOK, PlaylistBehind, PastPlaylist, SegmentsBehind
  <2>6. FenceHolds' /\ CommitLedger'
    BY <1>1, <2>1 DEF Claim, IInv, TypeOK, FenceHolds, CommitLedger, history
  <2> QED
    BY <2>3, <2>4, <2>5, <2>6 DEF IInv
<1>2. CASE UNCHANGED row /\ Settle(t, "ok")
  BY <1>2, SettledJob, PlainMovePreserves
  DEF Claim, IInv, TypeOK, PlaylistBehind, Places, Encoding, Working, PastPlaylist, output, history
<1> QED
  BY <1>1, <1>2 DEF Claim

(* The playlist, once the last look's segments are all in the bucket.      *)
LEMMA PlaylistPreserves ==
  ASSUME IInv, NEW t \in Tokens, UploadPlaylist(t)
  PROVE  IInv'
<1>1. /\ pc[t] = "draining" /\ ~uploader[t].fatal
      /\ uploader[t].started = uploader[t].seen /\ uploader[t].active = {}
      /\ playlist' = TRUE
      /\ Goto(t, "uploaded") /\ pc' = [pc EXCEPT ![t] = "uploaded"]
      /\ UNCHANGED <<row, rendition, chunks, segments, job, reports, marked, faults, history>>
  BY DEF UploadPlaylist, IsIdle, StillOn, Goto
<1>2. "uploaded" \in Places \ Encoding
  BY DEF Places, Encoding
<1>3. /\ pc' \in [Tokens -> Places] /\ uploader' \in [Tokens -> Uploaders]
      /\ UploadersAreSound' /\ SentIsThere' /\ DrainingHasSeenAll'
      /\ EventsOwed'
  BY <1>1, <1>2, QuietMovePreserves
<1>4. SegmentsBehind'
  <2>1. SUFFICES ASSUME ~FinalScanErrs PROVE segments = 1..Segments
    BY <1>1 DEF SegmentsBehind
  <2>2. uploader[t].seen = Segments
    BY <1>1, <2>1 DEF IInv, DrainingHasSeenAll
  <2>3. Sent(uploader[t]) = 1..Segments
    BY <1>1, <2>2 DEF Sent
  <2> QED
    BY <1>1, <2>3 DEF IInv, TypeOK, SentIsThere
<1>5. TypeOK' /\ PlaylistBehind'
  BY <1>1, <1>3 DEF IInv, TypeOK, PlaylistBehind, history
<1>6. FenceHolds' /\ CommitLedger'
  BY <1>1 DEF IInv, TypeOK, FenceHolds, Working, CommitLedger, history
<1> QED
  BY <1>3, <1>4, <1>5, <1>6 DEF IInv

(* A completion the row accepts is one nobody took back yet; one that is   *)
(* fenced changes nothing.                                                 *)
LEMMA CompletePreserves ==
  ASSUME IInv, NEW t \in Tokens, Complete(t)
  PROVE  IInv'
<1>1. pc[t] = "recorded" /\ playlist /\ {"purgeHeld", "purgeLost"} \subseteq Places \ Encoding
  BY DEF Complete, IInv, PlaylistBehind, PastPlaylist, Places, Encoding
<1>2. CASE Holds(row, t)
  <2>1. /\ row' = Completed(row) /\ row.token = t /\ row.status # "DONE"
        /\ commits' = commits + 1
        /\ Goto(t, "purgeHeld") /\ pc' = [pc EXCEPT ![t] = "purgeHeld"]
        /\ UNCHANGED <<rendition, chunks, segments, playlist, job, reports, marked, faults, revoked, events>>
    BY <1>1, <1>2 DEF Complete, Holds, StillOn, Goto, IInv, FenceHolds, Working, output
  <2>2. row'.status = "DONE" /\ row'.token = t /\ row' \in StepRows(Tokens \cup {NoToken})
    BY <2>1 DEF Completed, Ended, IInv, TypeOK, StepRows, StepStatus
  <2>3. /\ pc' \in [Tokens -> Places] /\ uploader' \in [Tokens -> Uploaders]
        /\ UploadersAreSound' /\ SentIsThere' /\ DrainingHasSeenAll'
    BY <1>1, <2>1, MoveKeepsUploaders
  <2>4. EventsOwed'
    <3>1. t \notin Announcing
      BY <1>1 DEF Announcing
    <3>2. /\ IsFiniteSet(Announcing') /\ Cardinality(Announcing) \in Nat
          /\ Cardinality(Announcing') = Cardinality(Announcing) + 1
      BY <1>1, <2>1, <3>1, MoveCountsAnnouncing
    <3> QED
      BY <2>1, <3>2 DEF IInv, TypeOK, EventsOwed
  <2>5. TypeOK' /\ CommitLedger'
    BY <2>1, <2>2, <2>3 DEF IInv, TypeOK, CommitLedger
  <2>6. PlaylistBehind' /\ SegmentsBehind' /\ FenceHolds'
    BY <1>1, <2>1, <2>2 DEF IInv, TypeOK, PlaylistBehind, SegmentsBehind, FenceHolds, Working
  <2> QED
    BY <2>3, <2>4, <2>5, <2>6 DEF IInv
<1>3. CASE ~Holds(row, t)
  <2>1. Goto(t, "purgeLost") /\ UNCHANGED <<row, rendition, chunks, segments, playlist, job, reports,
                                            marked, faults, history>>
    BY <1>3 DEF Complete, StillOn, output, history
  <2> QED
    BY <1>1, <2>1, PlainMovePreserves
    DEF IInv, TypeOK, PlaylistBehind, Encoding, Working, PastPlaylist
<1> QED
  BY <1>2, <1>3

(* The purge of the chunks, which a zombie may repeat, preserves it.       *)
LEMMA PurgePreserves ==
  ASSUME IInv, NEW t \in Tokens, Purge(t)
  PROVE  IInv'
<1>1. /\ chunks' \in BOOLEAN
      /\ UNCHANGED <<row, rendition, segments, playlist, marked, faults, history>>
  BY DEF Purge, IInv, TypeOK
<1>2. {"event", "idle"} \subseteq Places \ Encoding /\ TypeOK /\ PlaylistBehind
  BY DEF Places, Encoding, IInv
<1>3. CASE pc[t] = "purgeHeld" /\ StillOn(t, "event")
  BY <1>1, <1>2, <1>3, PlainMovePreserves
  DEF StillOn, TypeOK, PlaylistBehind, Working, PastPlaylist
<1>4. CASE pc[t] = "purgeLost" /\ Settle(t, "ok")
  BY <1>1, <1>2, <1>4, SettledJob, PlainMovePreserves
  DEF TypeOK, PlaylistBehind, Working, PastPlaylist
<1> QED
  BY <1>3, <1>4 DEF Purge

(* An event is sent for the completion its sender held.                    *)
LEMMA AnnouncePreserves ==
  ASSUME IInv, NEW t \in Tokens, Announce(t)
  PROVE  IInv'
<1>1. /\ pc[t] = "event" /\ events' = events + 1
      /\ job' \in StageJobs(Tokens) /\ reports' \in Nat
      /\ Goto(t, "idle") /\ pc' = [pc EXCEPT ![t] = "idle"]
      /\ UNCHANGED <<row, rendition, chunks, segments, playlist, marked, faults, commits, revoked>>
  BY SettledJob DEF Announce, IInv, Goto, output
<1>2. "idle" \in Places \ Encoding
  BY DEF Places, Encoding
<1>3. /\ pc' \in [Tokens -> Places] /\ uploader' \in [Tokens -> Uploaders]
      /\ UploadersAreSound' /\ SentIsThere' /\ DrainingHasSeenAll'
  BY <1>1, <1>2, MoveKeepsUploaders
<1>4. EventsOwed'
  <2>1. t \in Announcing
    BY <1>1 DEF Announcing
  <2>2. /\ IsFiniteSet(Announcing') /\ Cardinality(Announcing) \in Nat
        /\ Cardinality(Announcing') = Cardinality(Announcing) - 1
    BY <1>1, <1>2, <2>1, MoveCountsAnnouncing
  <2> QED
    BY <1>1, <2>2 DEF IInv, TypeOK, EventsOwed
<1>5. TypeOK' /\ CommitLedger'
  BY <1>1, <1>3 DEF IInv, TypeOK, CommitLedger
<1>6. PlaylistBehind' /\ SegmentsBehind' /\ FenceHolds'
  BY <1>1 DEF IInv, TypeOK, PlaylistBehind, PastPlaylist, SegmentsBehind, FenceHolds, Working
<1> QED
  BY <1>3, <1>4, <1>5, <1>6 DEF IInv

(* A token is drawn that the row does not name.                            *)
LEMMA StartPreserves ==
  ASSUME IInv, StartJob
  PROVE  IInv'
<1>1. PICK t \in FreshTokens : job' = Taken(job, t) /\ Goto(t, "claim")
  BY DEF StartJob
<1>2. /\ t \in Tokens /\ pc[t] = "idle" /\ row.token # t
      /\ UNCHANGED <<row, rendition, chunks, segments, playlist, reports, marked, faults, history>>
  BY DEF StartJob, FreshTokens, output, listeners
<1>3. job' \in StageJobs(Tokens)
  BY <1>1, <1>2 DEF IInv, TypeOK, Taken, StageJobs, JobStates
<1> QED
  BY <1>1, <1>2, <1>3, PlainMovePreserves
  DEF IInv, TypeOK, PlaylistBehind, Places, Encoding, Working, PastPlaylist

(* A stall touches the job alone, a crash the execution too.               *)
LEMMA FaultPreserves ==
  ASSUME IInv, NEW t \in Tokens, Stall(t) \/ Crash(t)
  PROVE  IInv'
<1>1. TypeOK /\ faults' = faults + 1 /\ faults' \in 0..MaxFaults
  BY EncodeAssumption DEF Stall, Crash, IInv, TypeOK
<1>2. CASE Stall(t)
  <2>1. job' \in StageJobs(Tokens) /\ reports' \in Nat
    BY <1>1, <1>2, ExpiredJob DEF Stall
  <2>2. UNCHANGED <<row, rendition, chunks, segments, playlist, uploader, pc, marked, history>>
    BY <1>2 DEF Stall, output
  <2> QED
    BY <1>1, <2>1, <2>2
    DEF IInv, TypeOK, UploadersAreSound, SentIsThere, DrainingHasSeenAll, PlaylistBehind,
        SegmentsBehind, FenceHolds, EventsOwed, Announcing, CommitLedger, history
<1>3. CASE Crash(t)
  <2>1. job' \in StageJobs(Tokens) /\ reports' \in Nat
    BY <1>1, <1>3, ExpiredJob DEF Crash, TypeOK
  <2> QED
    BY <1>1, <1>3, <2>1, PlainMovePreserves
    DEF Crash, IInv, TypeOK, PlaylistBehind, Places, Encoding, Working, PastPlaylist, output
<1> QED
  BY <1>2, <1>3

(* The listener takes back at most one completion at a time.               *)
LEMMA ListenerPreserves ==
  ASSUME IInv, ListenerMarks \/ ListenerFails
  PROVE  IInv'
<1> USE DEF IInv, TypeOK
<1>1. UNCHANGED <<chunks, segments, playlist, uploader, job, pc, faults, commits, events>>
  BY DEF ListenerMarks, ListenerFails, output, history
<1>2. UploadersAreSound' /\ SentIsThere' /\ DrainingHasSeenAll' /\ SegmentsBehind' /\ EventsOwed'
  BY <1>1 DEF UploadersAreSound, SentIsThere, DrainingHasSeenAll, SegmentsBehind, EventsOwed, Announcing
<1>3. CASE ListenerMarks
  <2>1. /\ reports' \in Nat /\ marked' \in Nat /\ rendition' = rendition
    BY <1>3 DEF ListenerMarks
  <2>2. /\ row' \in StepRows(Tokens \cup {NoToken}) /\ row'.token = row.token
        /\ row'.status = "DONE" => row.status = "DONE"
        /\ revoked' + (IF row'.status = "DONE" THEN 1 ELSE 0)
             = revoked + (IF row.status = "DONE" THEN 1 ELSE 0)
        /\ revoked' \in Nat
    BY <1>3 DEF ListenerMarks, MarkedDead, Ended, StepRows, StepStatus
  <2>3. TypeOK' /\ CommitLedger'
    BY <1>1, <2>1, <2>2 DEF CommitLedger
  <2>4. PlaylistBehind' /\ FenceHolds'
    BY <1>1, <2>1, <2>2 DEF PlaylistBehind, FenceHolds
  <2> QED
    BY <1>2, <2>3, <2>4
<1>4. CASE ListenerFails
  <2>1. /\ marked' \in Nat /\ UNCHANGED <<row, reports, revoked>>
        /\ rendition' \in {rendition, "FAILED"}
    BY <1>4 DEF ListenerFails, history
  <2> QED
    BY <1>1, <1>2, <2>1 DEF PlaylistBehind, FenceHolds, CommitLedger
<1> QED
  BY <1>3, <1>4

(* Every step preserves the invariant.                                     *)
LEMMA StepPreserves == IInv /\ [Next]_vars => IInv'
<1> SUFFICES ASSUME IInv, [Next]_vars PROVE IInv'
  OBVIOUS
<1>1. CASE StartJob
  BY <1>1, StartPreserves
<1>2. ASSUME NEW t \in Tokens, Stage(t) PROVE IInv'
  BY <1>2, ClaimPreserves, StagePreserves, EncodePreserves, PlaylistPreserves, CompletePreserves,
     PurgePreserves, AnnouncePreserves
  DEF Stage
<1>3. ASSUME NEW t \in Tokens, StageErrs(t) \/ Stall(t) \/ Crash(t) PROVE IInv'
  BY <1>3, StagePreserves, FaultPreserves
<1>4. CASE ListenerMarks \/ ListenerFails
  BY <1>4, ListenerPreserves
<1>5. CASE UNCHANGED vars
  BY <1>5
  DEF vars, IInv, TypeOK, UploadersAreSound, SentIsThere, DrainingHasSeenAll, PlaylistBehind,
      SegmentsBehind, FenceHolds, EventsOwed, Announcing, CommitLedger
<1> QED
  BY <1>1, <1>2, <1>3, <1>4, <1>5 DEF Next

-----------------------------------------------------------------------------
(* The inductive invariant, the root of the theorems below.                *)
THEOREM Inductive == Spec => []IInv
  BY InitEstablishes, StepPreserves, PTL DEF Spec

(* Type correctness of the encode (transcode.ts, segment-uploader.ts).     *)
THEOREM TypeCorrect == Spec => []TypeOK
<1>1. IInv => TypeOK
  BY DEF IInv
<1> QED
  BY <1>1, Inductive, PTL

(* A step or a rendition that is DONE has a playlist, and if the last look *)
(* at the output directory does not fail, every segment it names           *)
(* (segment-uploader.ts:57-58).                                            *)
THEOREM DoneIsComplete == ~FinalScanErrs /\ Spec => []DoneHasPlaylist
<1> SUFFICES ASSUME ~FinalScanErrs PROVE Spec => []DoneHasPlaylist
  OBVIOUS
<1>1. IInv => DoneHasPlaylist
  BY DEF IInv, PlaylistBehind, SegmentsBehind, DoneHasPlaylist
<1> QED
  BY <1>1, Inductive, PTL

(* Never more transcode.completed events than completions the row          *)
(* accepted, and never more of those than times the row became DONE        *)
(* (transcode.ts:256-283).                                                 *)
THEOREM EventsAreFenced == Spec => []EventsFollowCommits
<1>1. IInv => EventsFollowCommits
  <2> SUFFICES ASSUME IInv PROVE EventsFollowCommits
    OBVIOUS
  <2>1. Cardinality(Announcing) \in Nat
    BY FS_CardinalityType DEF IInv, EventsOwed
  <2> QED
    BY <2>1 DEF IInv, TypeOK, EventsOwed, CommitLedger, EventsFollowCommits
<1> QED
  BY <1>1, Inductive, PTL
=============================================================================
