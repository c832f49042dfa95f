--------------------------- MODULE SegmentUploader ---------------------------
(***************************************************************************)
(* The uploader of one encode: it polls the directory FFmpeg writes,       *)
(* uploads the segments it has not queued before, a few at a time, and     *)
(* stops at the first one whose retries are used up.  FFmpeg renames the   *)
(* segments into the directory in order and the queue is served in order,  *)
(* so counters stand for the queue and the set of queued names, and what   *)
(* FFmpeg finished is known only by the scan that finds it.  The retries   *)
(* of one upload are its outcome.                                          *)
(***************************************************************************)
EXTENDS Naturals, FiniteSets

CONSTANTS Segments,       \* segments of the rendition
          Concurrency,    \* uploads in flight at once
          FinalScanErrs   \* whether the last look at the directory may fail

ASSUME UploaderAssumption ==
  /\ {Segments, Concurrency} \subseteq Nat \ {0}
  /\ FinalScanErrs \in BOOLEAN

Uploaders ==
  [seen : 0..Segments,      \* segments queued by some scan
   started : 0..Segments,   \* of those, taken from the queue
   active : SUBSET (1..Segments),
   fatal : BOOLEAN]

NewUploader == [seen |-> 0, started |-> 0, active |-> {}, fatal |-> FALSE]

(* scheduleWork: fills the free places from the queue.                     *)
Scheduled(u) ==
  LET places == Concurrency - Cardinality(u.active)
      queued == u.seen - u.started
      taken == IF u.fatal THEN 0 ELSE IF queued < places THEN queued ELSE places
  IN  [u EXCEPT !.started = @ + taken,
                !.active = @ \cup (u.started + 1)..(u.started + taken)]

(* scanDirectory, with n segments in the directory so far; after a fatal   *)
(* error it does nothing.                                                  *)
Scanned(u, n) == IF u.fatal THEN u ELSE Scheduled([u EXCEPT !.seen = n])

(* An upload ended, and its place goes to the next segment.                *)
SegmentEnded(u, segment, succeeded) ==
  Scheduled([u EXCEPT !.active = @ \ {segment}, !.fatal = @ \/ ~succeeded])

(* Idle once the queue is empty, whatever is in flight.                    *)
QueueIsEmpty(u) == u.fatal \/ u.started = u.seen

(* A wait that a fatal error does not end.                                 *)
AllUploaded(u) == u.started = u.seen /\ u.active = {}

(* What waitForIdle waits for.                                             *)
IsIdle(u) == u.fatal \/ (u.started = u.seen /\ u.active = {})
=============================================================================
