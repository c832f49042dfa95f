--------------------------- MODULE UploadSession ---------------------------
(***************************************************************************)
(* One upload, from the rows and the presigned URLs initiateUpload hands   *)
(* out to the first status that is not UPLOADING.  Concurrent requests     *)
(* complete or abort it, the client sends bytes straight to storage, the   *)
(* reconciler gives the upload up, the owner may delete the video.  Each   *)
(* request decides on the rows it loaded first, and nothing it read is     *)
(* locked; only the status of the video changes by compare-and-set.        *)
(***************************************************************************)
EXTENDS Naturals

CONSTANTS Completers,  \* who may ask to complete the upload, a request at a time
          Aborters,    \* who may ask to abort it, likewise
          Strategies,  \* upload strategies the instance looks at
          MayErr       \* whether the database and storage may err

ASSUME UploadAssumption ==
  /\ Completers \cap Aborters = {}
  /\ Strategies \subseteq {"single", "multipart"}
  /\ MayErr \in BOOLEAN

Calls == Completers \cup Aborters

VARIABLES
  strategy,  \* uploads.strategy
  video,     \* videos.status
  upload,    \* uploads.status
  expired,   \* the session is past uploads.expires_at
  session,   \* the multipart session in storage
  object,    \* the source object in the raw bucket, by its size
  pc,        \* pc[c]: how far request c got
  answers,   \* answers[c]: what c's last request was answered
  sweep,     \* where reconcile-uploads stands on this upload
  outbox,    \* outbox rows that carry the probe job
  queued     \* the probe job was added by the fast path

vars == <<strategy, video, upload, expired, session, object, pc, answers,
          sweep, outbox, queued>>

store == <<session, object>>
dispatch == <<outbox, queued>>
fixed == <<strategy, expired>>

CompletePlaces == {"assemble", "head", "remove", "disown", "reject", "record", "commit", "enqueue"}
AbortPlaces == {"cancel", "look", "discard", "close", "abandon"}
Answers == {"none", "ok", "error", "missing", "mismatch", "expired", "assembled",
            "COMPLETED", "ABORTED"}

TypeOK ==
  /\ strategy \in Strategies
  /\ video \in {"UPLOADING", "UPLOADED", "REJECTED", "ABANDONED", "DELETED"}
  /\ upload \in {"OPEN", "COMPLETED", "ABORTED"}
  /\ expired \in BOOLEAN
  /\ session \in {"none", "open", "completed", "aborted"}
  /\ object \in {"absent", "right", "wrong"}
  /\ pc \in [Calls -> CompletePlaces \cup AbortPlaces \cup {"idle"}]
  /\ answers \in [Calls -> Answers]
  /\ sweep \in {"idle", "mark", "cancel"}
  /\ outbox \in Nat /\ queued \in BOOLEAN

(* initiateUpload created the session, the video and the upload, in this   *)
(* order, and answered.                                                    *)
Init ==
  /\ strategy \in Strategies
  /\ video = "UPLOADING"
  /\ upload = "OPEN"
  /\ expired = FALSE
  /\ session = IF strategy = "multipart" THEN "open" ELSE "none"
  /\ object = "absent"
  /\ pc = [c \in Calls |-> "idle"]
  /\ answers = [c \in Calls |-> "none"]
  /\ sweep = "idle"
  /\ outbox = 0
  /\ queued = FALSE

-----------------------------------------------------------------------------
At(c, place) == pc[c] = place
Goto(c, place) == pc' = [pc EXCEPT ![c] = place] /\ UNCHANGED answers

Answer(c, answer) ==
  /\ pc' = [pc EXCEPT ![c] = "idle"]
  /\ answers' = [answers EXCEPT ![c] = answer]

(* An update whose WHERE names the video and not its status.               *)
BlindTransition(to) == video' = to

(* The compare-and-set of PostgresVideoRepository.transition.              *)
Transition(to) == video = "UPLOADING" /\ video' = to

(* The compare-and-set finds another status and changes nothing.           *)
Refused == video # "UPLOADING" /\ UNCHANGED video

(* decideUploadOpen refuses an upload that is settled or expired.          *)
NotOpen(c) ==
  \/ upload # "OPEN" /\ Answer(c, upload)
  \/ upload = "OPEN" /\ expired /\ Answer(c, "expired")

Open == upload = "OPEN" /\ ~expired

-----------------------------------------------------------------------------
(* The request to complete (upload-complete.ts).                           *)

CompleteLoads(c) ==
  /\ At(c, "idle")
  /\ \/ video # "UPLOADING" /\ Answer(c, "ok")
     \/ video = "UPLOADING" /\ NotOpen(c)
     \/ /\ video = "UPLOADING" /\ Open
        /\ Goto(c, IF strategy = "multipart" THEN "assemble" ELSE "head")
  /\ UNCHANGED <<fixed, video, upload, store, sweep, dispatch>>

(* CompleteMultipartUpload: the parts become the object.  It is idempotent *)
(* on a completed session, unless storage has forgotten the session by     *)
(* then; an answer that is lost is an error of a call that had its effect. *)
Assemble(c) ==
  /\ At(c, "assemble")
  /\ \/ /\ session = "open"
        /\ session' = "completed"
        /\ object' \in {"right", "wrong"}
        /\ Goto(c, "head") \/ (MayErr /\ Answer(c, "error"))
     \/ /\ session = "completed"
        /\ UNCHANGED store
        /\ Goto(c, "head") \/ Answer(c, "error")
     \/ /\ session = "aborted"
        /\ UNCHANGED store
        /\ Answer(c, "error")
  /\ UNCHANGED <<fixed, video, upload, sweep, dispatch>>

(* A completion that trusts what the client declared.                      *)
HeadlessHead(c) ==
  /\ At(c, "head")
  /\ Goto(c, "record")
  /\ UNCHANGED <<fixed, video, upload, store, sweep, dispatch>>

Head(c) ==
  /\ At(c, "head")
  /\ \/ object = "right" /\ Goto(c, "record")
     \/ object = "wrong" /\ Goto(c, "remove")
     \/ object = "absent" /\ Answer(c, "missing")
  /\ UNCHANGED <<fixed, video, upload, store, sweep, dispatch>>

(* A rejection that gives the upload the status of its video.              *)
MisnamedDisown(c) ==
  /\ At(c, "disown")
  /\ upload' = "REJECTED"
  /\ Goto(c, "reject")
  /\ UNCHANGED <<fixed, video, store, sweep, dispatch>>

(* rejectSizeMismatch: the object, the upload, the video.                  *)
Remove(c) ==
  /\ At(c, "remove")
  /\ object' = "absent"
  /\ Goto(c, "disown")
  /\ UNCHANGED <<fixed, video, upload, session, sweep, dispatch>>

Disown(c) ==
  /\ At(c, "disown")
  /\ upload' = "ABORTED"
  /\ Goto(c, "reject")
  /\ UNCHANGED <<fixed, video, store, sweep, dispatch>>

Reject(c) ==
  /\ At(c, "reject")
  /\ Transition("REJECTED") \/ Refused
  /\ Answer(c, "mismatch")
  /\ UNCHANGED <<fixed, upload, store, sweep, dispatch>>

(* uploads.updateStatus does not ask for the status it replaces.           *)
Record(c) ==
  /\ At(c, "record")
  /\ upload' = "COMPLETED"
  /\ Goto(c, "commit")
  /\ UNCHANGED <<fixed, video, store, sweep, dispatch>>

(* CAS UPLOADING to UPLOADED, with the probe's outbox row.                 *)
Commit(c) ==
  /\ At(c, "commit")
  /\ \/ Transition("UPLOADED") /\ outbox' = outbox + 1 /\ Goto(c, "enqueue")
     \/ Refused /\ UNCHANGED outbox /\ Answer(c, "ok")
  /\ UNCHANGED <<fixed, upload, store, sweep, queued>>

(* The fast path, unless the owner is over the in-flight limit; an add     *)
(* that fails is ignored.                                                  *)
Enqueue(c) ==
  /\ At(c, "enqueue")
  /\ queued' \in {queued, TRUE}
  /\ Answer(c, "ok")
  /\ UNCHANGED <<fixed, video, upload, store, sweep, outbox>>

Complete(c) ==
  \/ CompleteLoads(c) \/ Assemble(c) \/ Head(c) \/ Remove(c) \/ Disown(c)
  \/ Reject(c) \/ Record(c) \/ Commit(c) \/ Enqueue(c)

-----------------------------------------------------------------------------
(* The request to abort (upload-abort.ts).                                 *)

AbortLoads(c) ==
  /\ At(c, "idle")
  /\ \/ NotOpen(c)
     \/ Open /\ Goto(c, IF strategy = "multipart" THEN "cancel" ELSE "discard")
  /\ UNCHANGED <<fixed, video, upload, store, sweep, dispatch>>

(* AbortMultipartUpload; a session that is gone already is no error.       *)
Cancel(c) ==
  /\ At(c, "cancel")
  /\ session' = IF session = "open" THEN "aborted" ELSE session
  /\ Goto(c, "look")
  /\ UNCHANGED <<fixed, video, upload, object, sweep, dispatch>>

(* An abort that takes the session's end for the upload's.                 *)
BlindLook(c) ==
  /\ At(c, "look")
  /\ Goto(c, "close")
  /\ UNCHANGED <<fixed, video, upload, store, sweep, dispatch>>

(* An object in storage means a completion came first.                     *)
Look(c) ==
  /\ At(c, "look")
  /\ \/ object # "absent" /\ Answer(c, "assembled")
     \/ object = "absent" /\ Goto(c, "close")
  /\ UNCHANGED <<fixed, video, upload, store, sweep, dispatch>>

Discard(c) ==
  /\ At(c, "discard")
  /\ object' = "absent"
  /\ Goto(c, "close")
  /\ UNCHANGED <<fixed, video, upload, session, sweep, dispatch>>

Close(c) ==
  /\ At(c, "close")
  /\ upload' = "ABORTED"
  /\ Goto(c, "abandon")
  /\ UNCHANGED <<fixed, video, store, sweep, dispatch>>

(* Only a video that was loaded as UPLOADING gets here with an effect: any *)
(* other stays what it is.                                                 *)
Abandon(c) ==
  /\ At(c, "abandon")
  /\ Transition("ABANDONED") \/ Refused
  /\ Answer(c, "ok")
  /\ UNCHANGED <<fixed, upload, store, sweep, dispatch>>

Abort(c) ==
  AbortLoads(c) \/ Cancel(c) \/ Look(c) \/ Discard(c) \/ Close(c) \/ Abandon(c)

(* DatabaseUnavailable, StorageUnavailable, or the API process dies.       *)
CallErrs(c) ==
  /\ MayErr
  /\ ~At(c, "idle")
  /\ Answer(c, "error")
  /\ UNCHANGED <<fixed, video, upload, store, sweep, dispatch>>

-----------------------------------------------------------------------------
(* The client's PUT of a single upload, on a presigned URL that outlives   *)
(* the status of the upload.                                               *)
Put ==
  /\ strategy = "single"
  /\ ~expired
  /\ object' \in {"right", "wrong"}
  /\ UNCHANGED <<fixed, video, upload, session, pc, answers, sweep, dispatch>>

Expire ==
  /\ ~expired
  /\ expired' = TRUE
  /\ UNCHANGED <<strategy, video, upload, store, pc, answers, sweep, dispatch>>

(* A reconciler that leaves alone what the API has completed.              *)
PoliteSweepAbandon ==
  /\ sweep = "idle"
  /\ upload # "COMPLETED"
  /\ Transition("ABANDONED")
  /\ sweep' = "mark"
  /\ UNCHANGED <<fixed, upload, store, pc, answers, dispatch>>

(* reconcile-uploads finds the video UPLOADING for too long: the video,    *)
(* the upload, the session.                                                *)
SweepAbandon ==
  /\ sweep = "idle"
  /\ Transition("ABANDONED")
  /\ sweep' = "mark"
  /\ UNCHANGED <<fixed, upload, store, pc, answers, dispatch>>

SweepMark ==
  /\ sweep = "mark"
  /\ upload' = "ABORTED"
  /\ sweep' = IF strategy = "multipart" THEN "cancel" ELSE "idle"
  /\ UNCHANGED <<fixed, video, store, pc, answers, dispatch>>

SweepCancel ==
  /\ sweep = "cancel"
  /\ session' = IF session = "open" THEN "aborted" ELSE session
  /\ sweep' = "idle"
  /\ UNCHANGED <<fixed, video, upload, object, pc, answers, dispatch>>

(* A sweep that errs, or whose worker dies, is not taken up again: the     *)
(* video is no longer UPLOADING.                                           *)
SweepErrs ==
  /\ MayErr
  /\ sweep # "idle"
  /\ sweep' = "idle"
  /\ UNCHANGED <<fixed, video, upload, store, pc, answers, dispatch>>

SoftDelete ==
  /\ video # "DELETED"
  /\ video' = "DELETED"
  /\ UNCHANGED <<fixed, upload, store, pc, answers, sweep, dispatch>>

Sweep == SweepAbandon \/ SweepMark \/ SweepCancel

Next ==
  \/ \E c \in Completers : Complete(c)
  \/ \E c \in Aborters : Abort(c)
  \/ \E c \in Calls : CallErrs(c)
  \/ Put \/ Expire \/ SoftDelete
  \/ Sweep \/ SweepErrs

(* Fairness: the scheduler runs the reconciler.  No client ever has to     *)
(* call, and a call under way may hang for good.                           *)
Fairness == WF_vars(SweepAbandon)

Spec == Init /\ [][Next]_vars /\ Fairness

-----------------------------------------------------------------------------
(* The first to move the video out of UPLOADING decides: no completion,    *)
(* abort, rejection or sweep that was already under way undoes it, and the *)
(* probe is dispatched with UPLOADED and never again.                      *)
FirstOutcomeStands ==
  [][/\ video # "UPLOADING" => video' \in {video, "DELETED"}
     /\ outbox' # outbox => video = "UPLOADING" /\ video' = "UPLOADED" /\ outbox = 0
     /\ queued' => outbox = 1]_vars

(* A multipart upload is UPLOADED over an assembled source of the declared *)
(* size and a COMPLETED upload, whatever aborts raced with the completion. *)
(* (A single upload has no such guarantee: see the README.)                *)
SourceStands ==
  strategy = "multipart" /\ video = "UPLOADED" => object = "right" /\ upload = "COMPLETED"

(* An abort never abandons a multipart video whose source storage has      *)
(* assembled, or can still assemble: a completion that was first wins.     *)
AbortSparesAssembled ==
  [][strategy = "multipart" /\ video = "UPLOADING" /\ video' = "ABANDONED" /\ sweep' = sweep
       => object = "absent" /\ session # "open"]_vars

(* No upload stays UPLOADING, however its completions and aborts stopped   *)
(* half way.                                                               *)
UploadEnds == <>(video # "UPLOADING")

=============================================================================
