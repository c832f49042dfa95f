--------------------------- MODULE VideoLifecycle ---------------------------
(***************************************************************************)
(* What the pipeline promises the viewer about one uploaded video: the     *)
(* statuses it moves through, that READY is only ever shown for a video    *)
(* that plays, and that turning READY and telling the owner about it are   *)
(* one step.  Nothing here knows of jobs, workers, retries or leases;      *)
(* VideoPipeline implements it.                                            *)
(***************************************************************************)

VARIABLES status,     \* videos.status
          playable,   \* a master playlist stands over complete renditions
          announced   \* the notification of READY is on its way for good

lifecycle == <<status, playable, announced>>

Statuses == {"UPLOADED", "PROBING", "PROCESSING", "READY", "FAILED", "DELETED"}

(* REPROCESSABLE_STATUSES and DELETABLE_STATUSES of the domain rules, as   *)
(* far as they concern a video whose upload is complete.                   *)
Reprocessable == {"READY", "FAILED", "PROCESSING"}
Deletable == Statuses \ {"DELETED"}

Init == status = "UPLOADED" /\ playable = FALSE /\ announced = FALSE

Move(from, to) == status \in from /\ status' = to

Encode == playable' = TRUE /\ UNCHANGED <<status, announced>>
Probe == Move({"UPLOADED"}, "PROBING") /\ UNCHANGED <<playable, announced>>
Accept == Move({"PROBING"}, "PROCESSING") /\ UNCHANGED <<playable, announced>>

Publish ==
  /\ playable
  /\ Move({"PROCESSING"}, "READY")
  /\ announced' = TRUE
  /\ UNCHANGED playable

Fail == Move({"PROBING", "PROCESSING"}, "FAILED") /\ UNCHANGED <<playable, announced>>
Reprocess == Move(Reprocessable, "PROBING") /\ UNCHANGED <<playable, announced>>
Delete == Move(Deletable, "DELETED") /\ UNCHANGED <<playable, announced>>

Next == Encode \/ Probe \/ Accept \/ Publish \/ Fail \/ Reprocess \/ Delete

Spec == Init /\ [][Next]_lifecycle

(* A READY video plays and its owner is told.                              *)
ReadyPlays == status = "READY" => playable /\ announced
=============================================================================
