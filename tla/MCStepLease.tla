---------------------------- MODULE MCStepLease ----------------------------
(* One step lease, in two settings: free, where the deliveries of any      *)
(* stage come in any number and order, or under the notify stage and its   *)
(* queue, where each has a reason.                                         *)
EXTENDS NoticeDelivery

CONSTANT MaxJobs   \* bound: notify jobs, of events and of replays together

ASSUME MaxJobsAssumption == MaxJobs \in Nat

VARIABLE free

mcVars == <<allVars, free>>

MCInit == NoticeInit /\ free \in BOOLEAN

Freely(A) == free /\ A /\ UNCHANGED <<noticeVars, free>>
Delivered(A) == ~free /\ A /\ UNCHANGED free

Jobs == outbox \cup {j \in Ids : Queue!Known(job[j])}

MCNext == Freely(Next) \/ (Delivered(NoticeNext) /\ Cardinality(Jobs') <= MaxJobs)

(* NoticeFairness: the free setting is asked for safety only.              *)
MCFairness ==
  /\ \A j \in Ids : /\ WF_mcVars(Delivered(Add(j)))
                    /\ WF_mcVars(Delivered(Deliver(j)))
  /\ \A a \in Attempts : /\ WF_mcVars(Delivered(Notify(a)))
                         /\ WF_mcVars(Delivered(Park(a)))
                         /\ WF_mcVars(Delivered(MarkStep(a)))

MCSpec == MCInit /\ [][MCNext]_mcVars /\ MCFairness
=============================================================================
