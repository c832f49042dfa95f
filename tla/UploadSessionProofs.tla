------------------------- MODULE UploadSessionProofs -------------------------
(***************************************************************************)
(* Which outcome of an upload stands, proved for any number of requests to *)
(* complete and to abort it: what completions, aborts and the reconciler   *)
(* may still do to one another once they have read what they decide on.    *)
(***************************************************************************)
EXTENDS UploadSession, TLAPS

(* The probe is dispatched when the video leaves UPLOADING, and once.      *)
ProbeIsOwedOnce ==
  /\ outbox \in {0, 1}
  /\ video = "UPLOADING" => outbox = 0
  /\ queued => outbox = 1
  /\ \A c \in Calls : pc[c] = "enqueue" => outbox = 1

(* A sweep goes on over a video it has abandoned.                          *)
SweepAbandonedIt == sweep # "idle" => video \in {"ABANDONED", "DELETED"}

(* What storage holds of a multipart upload: one object, of the completion *)
(* of its session, which ends it.                                          *)
AssembledOnce == object # "absent" => session = "completed"

(* Past its look at the source, a completion found it right or rejects it; *)
(* nothing can be assembled behind an abort that found none.               *)
SourceAsSeen ==
  \A c \in Calls :
    /\ pc[c] = "head" => session = "completed"
    /\ pc[c] \in {"record", "commit"} => object = "right"
    /\ pc[c] \in {"remove", "disown", "reject"} => session = "completed" /\ object # "right"
    /\ pc[c] = "look" => session # "open"
    /\ pc[c] \in {"close", "abandon"} => session # "open" /\ object = "absent"
    /\ pc[c] # "discard"

(* A completion that has recorded itself is undone by a sweep alone.       *)
RecordStands ==
  \A c \in Calls : pc[c] = "commit" /\ video = "UPLOADING" => upload = "COMPLETED"

MultipartInv ==
  strategy = "multipart" => AssembledOnce /\ SourceAsSeen /\ RecordStands /\ SourceStands

IInv == TypeOK /\ ProbeIsOwedOnce /\ SweepAbandonedIt /\ MultipartInv

-----------------------------------------------------------------------------
(* The invariant holds when initiateUpload has answered.                   *)
LEMMA InitEstablishes == Init => IInv
<1> SUFFICES ASSUME Init PROVE IInv
  OBVIOUS
<1>1. session \in {"none", "open"} /\ object = "absent"
  BY DEF Init
<1>2. TypeOK
  BY <1>1 DEF Init, TypeOK, Answers
<1> QED
  BY <1>1, <1>2
  DEF Init, IInv, ProbeIsOwedOnce, SweepAbandonedIt, MultipartInv, AssembledOnce, SourceAsSeen, RecordStands, SourceStands

(* A request to complete: no abort and no sweep is undone by it.           *)
LEMMA CompletePreserves ==
  ASSUME IInv, NEW c \in Calls, Complete(c)
  PROVE  IInv'
<1> USE DEF IInv, TypeOK, Answers, CompletePlaces, AbortPlaces, ProbeIsOwedOnce, SweepAbandonedIt,
            MultipartInv, AssembledOnce, SourceAsSeen, RecordStands, SourceStands,
            At, Goto, Answer, fixed, store, dispatch
<1>1. CASE CompleteLoads(c)
  BY <1>1 DEF CompleteLoads, NotOpen
<1>2. CASE Assemble(c)
  BY <1>2 DEF Assemble
<1>3. CASE Head(c)
  BY <1>3 DEF Head
<1>4. CASE Remove(c)
  BY <1>4 DEF Remove
<1>5. CASE Disown(c)
  BY <1>5 DEF Disown
<1>6. CASE Reject(c)
  BY <1>6 DEF Reject, Transition, Refused
<1>7. CASE Record(c)
  BY <1>7 DEF Record
<1>8. CASE Commit(c)
  <2>1. CASE Transition("UPLOADED") /\ outbox' = outbox + 1 /\ Goto(c, "enqueue")
    <3>1. video = "UPLOADING" /\ video' = "UPLOADED" /\ outbox = 0 /\ outbox' = 1
      BY <2>1 DEF Transition
    <3>2. UNCHANGED <<strategy, expired, upload, session, object, sweep, queued, answers>>
          /\ pc[c] = "commit" /\ pc' = [pc EXCEPT ![c] = "enqueue"]
      BY <1>8, <2>1 DEF Commit
    <3>3. TypeOK' /\ ProbeIsOwedOnce' /\ SweepAbandonedIt'
      BY <3>1, <3>2
    <3>4. MultipartInv'
      BY <3>1, <3>2
    <3> QED
      BY <3>3, <3>4
  <2>2. CASE Refused /\ UNCHANGED outbox /\ Answer(c, "ok")
    BY <1>8, <2>2 DEF Commit, Refused
  <2> QED
    BY <1>8, <2>1, <2>2 DEF Commit
<1>9. CASE Enqueue(c)
  <2>1. /\ pc[c] = "enqueue" /\ pc' = [pc EXCEPT ![c] = "idle"]
        /\ answers' = [answers EXCEPT ![c] = "ok"]
        /\ UNCHANGED <<strategy, expired, video, upload, session, object, sweep, outbox>>
    BY <1>9 DEF Enqueue
  <2>2. outbox = 1
    BY <2>1
  <2>3. queued' \in BOOLEAN
    BY <1>9 DEF Enqueue
  <2>4. TypeOK' /\ ProbeIsOwedOnce' /\ SweepAbandonedIt'
    BY <2>1, <2>2, <2>3
  <2>5. MultipartInv'
    BY <2>1
  <2> QED
    BY <2>4, <2>5
<1> QED
  BY <1>1, <1>2, <1>3, <1>4, <1>5, <1>6, <1>7, <1>8, <1>9 DEF Complete

(* A request to abort, and one of either kind that is cut off.             *)
LEMMA AbortPreserves ==
  ASSUME IInv, NEW c \in Calls, Abort(c) \/ CallErrs(c)
  PROVE  IInv'
<1> USE DEF IInv, TypeOK, Answers, CompletePlaces, AbortPlaces, ProbeIsOwedOnce, SweepAbandonedIt,
            MultipartInv, AssembledOnce, SourceAsSeen, RecordStands, SourceStands,
            At, Goto, Answer, fixed, store, dispatch
<1>1. CASE AbortLoads(c)
  BY <1>1 DEF AbortLoads, NotOpen, Open
<1>2. CASE Cancel(c)
  BY <1>2 DEF Cancel
<1>3. CASE Look(c)
  BY <1>3 DEF Look
<1>4. CASE Discard(c)
  BY <1>4 DEF Discard
<1>5. CASE Close(c)
  BY <1>5 DEF Close
<1>6. CASE Abandon(c)
  BY <1>6 DEF Abandon, Transition, Refused
<1>7. CASE CallErrs(c)
  BY <1>7 DEF CallErrs
<1> QED
  BY <1>1, <1>2, <1>3, <1>4, <1>5, <1>6, <1>7 DEF Abort

(* The client, the clock, the owner and the reconciler.                    *)
LEMMA WorldPreserves ==
  ASSUME IInv, Put \/ Expire \/ SoftDelete \/ Sweep \/ SweepErrs
  PROVE  IInv'
<1> USE DEF IInv, TypeOK, Answers, CompletePlaces, AbortPlaces, ProbeIsOwedOnce, SweepAbandonedIt,
            MultipartInv, AssembledOnce, SourceAsSeen, RecordStands, SourceStands,
            fixed, store, dispatch
<1>1. CASE Put
  BY <1>1 DEF Put
<1>2. CASE Expire
  BY <1>2 DEF Expire
<1>3. CASE SoftDelete
  BY <1>3 DEF SoftDelete
<1>4. CASE SweepAbandon
  BY <1>4 DEF SweepAbandon, Transition
<1>5. CASE SweepMark
  BY <1>5 DEF SweepMark
<1>6. CASE SweepCancel
  BY <1>6 DEF SweepCancel
<1>7. CASE SweepErrs
  BY <1>7 DEF SweepErrs
<1> QED
  BY <1>1, <1>2, <1>3, <1>4, <1>5, <1>6, <1>7 DEF Sweep

(* Every step preserves the invariant.                                     *)
LEMMA StepPreserves == IInv /\ [Next]_vars => IInv'
<1> SUFFICES ASSUME IInv, [Next]_vars PROVE IInv'
  OBVIOUS
<1>1. CASE UNCHANGED vars
  BY <1>1
  DEF vars, IInv, TypeOK, ProbeIsOwedOnce, SweepAbandonedIt, MultipartInv, AssembledOnce,
      SourceAsSeen, RecordStands, SourceStands
<1>2. CASE Next
  BY <1>2, CompletePreserves, AbortPreserves, WorldPreserves DEF Next, Calls
<1> QED
  BY <1>1, <1>2

-----------------------------------------------------------------------------
(* What a step may do to the status of the video and to the probe's job.   *)
LEMMA OutcomeStep ==
  IInv /\ [Next]_vars =>
    /\ video # "UPLOADING" => video' \in {video, "DELETED"}
    /\ outbox' # outbox => video = "UPLOADING" /\ video' = "UPLOADED" /\ outbox = 0
    /\ queued' => outbox = 1
<1> SUFFICES ASSUME IInv, [Next]_vars
             PROVE  /\ video # "UPLOADING" => video' \in {video, "DELETED"}
                    /\ outbox' # outbox =>
                         video = "UPLOADING" /\ video' = "UPLOADED" /\ outbox = 0
                    /\ queued' => outbox = 1
  OBVIOUS
<1> USE DEF IInv, ProbeIsOwedOnce
<1>1. ASSUME NEW c \in Calls, Complete(c)
      PROVE  \/ UNCHANGED <<video, outbox, queued>>
             \/ pc[c] = "commit" /\ Transition("UPLOADED") /\ outbox' = outbox + 1 /\ UNCHANGED queued
             \/ pc[c] = "enqueue" /\ UNCHANGED <<video, outbox>>
             \/ Transition("REJECTED") /\ UNCHANGED <<outbox, queued>>
  BY <1>1
  DEF Complete, CompleteLoads, Assemble, Head, Remove, Disown, Reject, Record, Commit, Enqueue,
      At, Refused, dispatch
<1>2. ASSUME NEW c \in Calls, Abort(c) \/ CallErrs(c)
      PROVE  (UNCHANGED video \/ Transition("ABANDONED")) /\ UNCHANGED <<outbox, queued>>
  BY <1>2 DEF Abort, AbortLoads, Cancel, Look, Discard, Close, Abandon, CallErrs, Refused, dispatch
<1>3. ASSUME Put \/ Expire \/ SoftDelete \/ Sweep \/ SweepErrs
      PROVE  /\ UNCHANGED video \/ Transition("ABANDONED") \/ video' = "DELETED"
             /\ UNCHANGED <<outbox, queued>>
  BY <1>3
  DEF Put, Expire, SoftDelete, Sweep, SweepAbandon, SweepMark, SweepCancel, SweepErrs, dispatch
<1>4. CASE UNCHANGED vars
  BY <1>4 DEF vars
<1> QED
  BY <1>1, <1>2, <1>3, <1>4 DEF Next, Calls, Transition

(* Which steps abandon a multipart video: the sweep's, which says so, and  *)
(* an abort that found no source and left none to be assembled.            *)
LEMMA AbandonStep ==
  IInv /\ [Next]_vars =>
    (strategy = "multipart" /\ video = "UPLOADING" /\ video' = "ABANDONED" /\ sweep' = sweep
       => object = "absent" /\ session # "open")
<1> SUFFICES ASSUME IInv, [Next]_vars, strategy = "multipart",
                    video = "UPLOADING", video' = "ABANDONED", sweep' = sweep
             PROVE  object = "absent" /\ session # "open"
  OBVIOUS
<1>1. ASSUME NEW c \in Calls, Complete(c) PROVE FALSE
  BY <1>1
  DEF Complete, CompleteLoads, Assemble, Head, Remove, Disown, Reject, Record, Commit, Enqueue,
      Transition, Refused
<1>2. ASSUME NEW c \in Calls, Abort(c) \/ CallErrs(c) PROVE pc[c] = "abandon"
  BY <1>2 DEF Abort, AbortLoads, Cancel, Look, Discard, Close, Abandon, CallErrs, At
<1>3. ~(Put \/ Expire \/ SoftDelete \/ Sweep \/ SweepErrs) /\ ~UNCHANGED vars
  BY DEF Put, Expire, SoftDelete, Sweep, SweepAbandon, SweepMark, SweepCancel, SweepErrs, vars
<1> QED
  BY <1>1, <1>2, <1>3 DEF Next, Calls, IInv, MultipartInv, SourceAsSeen

-----------------------------------------------------------------------------
(* The strengthened invariant, of any number of requests.                  *)
THEOREM Inductive == Spec => []IInv
  BY InitEstablishes, StepPreserves, PTL DEF Spec

(* The rows, the store and the requests keep their types.                  *)
THEOREM TypeCorrect == Spec => []TypeOK
<1>1. IInv => TypeOK
  BY DEF IInv
<1> QED
  BY <1>1, Inductive, PTL

(* A multipart upload that is UPLOADED has its source and its record       *)
(* (upload-complete.ts), whatever aborts and sweeps raced with it.         *)
THEOREM SourceIsThere == Spec => []SourceStands
<1>1. IInv => SourceStands
  BY DEF IInv, MultipartInv, SourceStands
<1> QED
  BY <1>1, Inductive, PTL

(* The first request, or sweep, to move the video out of UPLOADING decides *)
(* for good, and the probe is dispatched with UPLOADED and once.           *)
THEOREM FirstOutcomeIsFinal == Spec => FirstOutcomeStands
<1>1. IInv /\ [Next]_vars =>
        [/\ video # "UPLOADING" => video' \in {video, "DELETED"}
         /\ outbox' # outbox => video = "UPLOADING" /\ video' = "UPLOADED" /\ outbox = 0
         /\ queued' => outbox = 1]_vars
  BY OutcomeStep
<1> QED
  BY <1>1, Inductive, PTL DEF Spec, FirstOutcomeStands

(* No abort abandons a source that storage has, or can still assemble      *)
(* (upload-abort.ts).                                                      *)
THEOREM AbortsSpareTheSource == Spec => AbortSparesAssembled
<1>1. IInv /\ [Next]_vars =>
        [strategy = "multipart" /\ video = "UPLOADING" /\ video' = "ABANDONED" /\ sweep' = sweep
           => object = "absent" /\ session # "open"]_vars
  BY AbandonStep
<1> QED
  BY <1>1, Inductive, PTL DEF Spec, AbortSparesAssembled
=============================================================================
