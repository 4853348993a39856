---------------------------- MODULE JobLifecycle ----------------------------
(***************************************************************************)
(* The transitions of a print job's metadata (src/job.c), as functions of  *)
(* the record they change. HpljService applies them where the PAPPL        *)
(* callbacks call them.                                                    *)
(*                                                                         *)
(* bytes_sent is kept as the one fact the code tests, "sent": is it        *)
(* positive? Detail texts and human actions are left out.                  *)
(***************************************************************************)
EXTENDS Naturals

JobStates == {"ACCEPTED", "HELD_FOR_FIRMWARE", "HELD_FOR_DEVICE", "PREPARING",
              "TRANSMITTING", "WAITING_FOR_MEDIA", "COMPLETED", "CANCELED",
              "FAILED", "FAILED_PARTIAL"}
Settled   == {"COMPLETED", "CANCELED", "FAILED", "FAILED_PARTIAL"}
RetryClasses == {"SAFE_AUTOMATIC", "EXPLICIT", "NEVER"}

\* hplj_job_init
NewJob == [state |-> "ACCEPTED", pages |-> 0, sent |-> FALSE,
           retry |-> "SAFE_AUTOMATIC"]

\* hplj_job_set_state with a new error
InState(j, state, retry) == [j EXCEPT !.state = state, !.retry = retry]

\* Mutant: the bytes of the failing transfer are not added.
FailedUncounted(j, category, retry, bytes) ==
  [j EXCEPT !.retry = IF j.sent THEN "EXPLICIT" ELSE retry,
            !.state = IF category = "CANCELLED" THEN "CANCELED"
                      ELSE IF j.sent THEN "FAILED_PARTIAL" ELSE "FAILED"]

\* hplj_job_fail: bytes may have been sent by the step that failed.
Failed(j, category, retry, bytes) ==
  LET sent == j.sent \/ bytes > 0
  IN  [j EXCEPT
        !.sent  = sent,
        !.retry = IF sent THEN "EXPLICIT" ELSE retry,
        !.state = IF category = "CANCELLED" THEN "CANCELED"
                  ELSE IF sent THEN "FAILED_PARTIAL" ELSE "FAILED"]

\* hplj_job_prepare once the device is ready
Prepared(j) == InState(j, "PREPARING", "SAFE_AUTOMATIC")

\* hplj_job_submit_page before and after the transfer of the page
Transmitting(j) == InState(j, "TRANSMITTING", "SAFE_AUTOMATIC")
PageTransmitted(j) ==
  [InState(j, "PREPARING", "SAFE_AUTOMATIC") EXCEPT !.pages = @ + 1]

\* hplj_job_wait_for_media and hplj_job_resume_media
WaitingForMedia(j, condition) ==
  IF j.state = "PREPARING" /\ condition = "media"
  THEN InState(j, "WAITING_FOR_MEDIA", "SAFE_AUTOMATIC") ELSE j
MediaResumed(j) ==
  IF j.state = "WAITING_FOR_MEDIA"
  THEN InState(j, "PREPARING", "SAFE_AUTOMATIC") ELSE j

\* hplj_job_output_failed
OutputFailed(j) ==
  IF j.state \in {"PREPARING", "WAITING_FOR_MEDIA"}
  THEN Failed(j, "TRANSFER_INCOMPLETE", "EXPLICIT", 0) ELSE j

\* hplj_job_cancel
Canceled(j) ==
  IF j.state \in Settled THEN j
  ELSE InState(j, "CANCELED", IF j.sent THEN "EXPLICIT" ELSE "NEVER")

\* hplj_job_complete, for a job that is not cancelled
Completed(j) ==
  IF j.state = "PREPARING" /\ j.pages > 0
  THEN InState(j, "COMPLETED", "NEVER") ELSE j
=============================================================================
