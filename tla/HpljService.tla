---------------------------- MODULE HpljService ----------------------------
(***************************************************************************)
(* The running service (src/pappl_runtime.c with src/job.c): PAPPL's job   *)
(* thread in the raster callbacks, the device monitor thread, cancellation *)
(* and shutdown, all on one device behind device_mutex, and a printer that *)
(* reports finished documents whenever it has printed them.                *)
(*                                                                         *)
(* A section that holds device_mutex is one step, except the transmission  *)
(* of a page, which holds it from its first chunk to its last one. Device  *)
(* calls end as DeviceEndings says, the promise HpljDevice is proved to    *)
(* keep. Between two steps the other thread, the printer, the user and     *)
(* the operator may act.                                                   *)
(*                                                                         *)
(* Abstractions:                                                           *)
(* - every page is one document for the printer, PagesLimit pages at most, *)
(*   ChunksPerPage transfers of HPLJ_TRANSFER_CHUNK_BYTES each;            *)
(* - output_generation and completed_documents are kept relative to the    *)
(*   snapshot of hplj_rendpage: reconnected says that the generation has   *)
(*   changed since, reported that the count has grown since. A release     *)
(*   that ends DISCONNECTED already has, so a connection made from there   *)
(*   need not be followed;                                                 *)
(* - the conditions of a poll are "none", "media" (a tray, a manual feed   *)
(*   or a cover) and "fault"; "offline" is a poll that failed;             *)
(* - the 60 s deadline of hplj_wait_for_output is a flag, late;            *)
(* - the reasons and messages PAPPL publishes are left out.                *)
(***************************************************************************)
EXTENDS DeviceEndings, JobLifecycle, Sequences, FiniteSets

CONSTANTS
  JobLimit,            \* jobs submitted while the service runs
  PagesLimit,          \* pages of the longest document
  ChunksPerPage,       \* transfers per page
  LateReports,         \* can the printer report a document the running job
                       \* does not wait for?
  Traps,               \* the device states the printer's faults can lead to
                       \* among those no call of the service leaves
  AbortedIsCanceled    \* does papplJobIsCanceled hold for an aborted job?

TerminalStates == {"UNSUPPORTED", "FIRMWARE_UNVERIFIED",
                   "FIRMWARE_TRANSFER_FAILED"}

ASSUME ServiceAssumption ==
  /\ JobLimit \in Nat \ {0}
  /\ PagesLimit \in Nat \ {0}
  /\ ChunksPerPage \in Nat \ {0}
  /\ ChunkBytes \in Nat \ {0}
  /\ LateReports \in BOOLEAN
  /\ Traps \subseteq TerminalStates
  /\ AbortedIsCanceled \in BOOLEAN

VARIABLES
  \* struct hplj_device, and whether hplj_load_firmware finds an image
  state, opened, imported,
  \* the monitor thread; the backend: running, stopping or destroyed
  monitor, service,
  \* the job thread: where it is, where hplj_wait_for_ready returns to, the
  \* next chunk of the page, and the last poll of hplj_wait_for_output
  at, goal, chunk, reason,
  \* the job: its number, its metadata, PAPPL's is_canceled and aborted, and
  \* how PAPPL reported it
  n, job, canceled, aborted, outcome,
  \* hplj_rendpage's snapshot and hplj_wait_for_output's deadline
  reconnected, reported, late,
  \* (ghost) did bytes of the job leave the host, and how many chunks left
  \* after its cancellation, saturating at 2
  moved, overrun,
  \* the printer: documents received, finished documents not yet reported,
  \* (ghost) documents printed, (ghost) those counted as printed on the report
  \* of another one, and whether nothing is wrong with it
  queue, reports, printed, mistaken, healthy

device  == <<state, opened, imported>>
threads == <<monitor, service>>
control == <<at, goal, chunk, reason>>
pappl   == <<n, canceled, aborted, outcome>>
output  == <<reconnected, reported, late>>
ghosts  == <<moved, overrun>>
printer == <<queue, reports, printed, mistaken, healthy>>
vars    == <<device, threads, control, job, pappl, output, ghosts, printer>>

Places == {"idle", "ready", "ready_status", "prepare", "page", "raster",
           "submit", "chunk", "write", "wait", "check", "end"}
Documents == (1..JobLimit) \X (1..PagesLimit)
DeviceStates == {"DISCONNECTED", "PRE_FIRMWARE", "AWAITING_FIRMWARE",
                 "FIRMWARE_PRESENT", "READY"} \union TerminalStates
Outcomes == {"none", "completed", "canceled", "aborted"}
Jobs == [state: JobStates, pages: 0..PagesLimit, sent: BOOLEAN,
         retry: RetryClasses]

TypeOK ==
  /\ state \in DeviceStates /\ opened \in BOOLEAN /\ imported \in BOOLEAN
  /\ monitor \in {"test", "sleep", "status", "stopped"}
  /\ service \in {"runs", "stops", "gone"}
  /\ at \in Places /\ goal \in {"prepare", "raster", "submit"}
  /\ chunk \in 0..ChunksPerPage
  /\ reason \in {"none", "media", "fault", "offline"}
  /\ n \in 0..JobLimit /\ job \in Jobs
  /\ canceled \in BOOLEAN /\ aborted \in BOOLEAN /\ outcome \in Outcomes
  /\ reconnected \in BOOLEAN /\ reported \in BOOLEAN /\ late \in BOOLEAN
  /\ moved \in BOOLEAN /\ overrun \in 0..2
  /\ queue \in Seq(Documents) /\ reports \subseteq Documents
  /\ printed \subseteq Documents /\ mistaken \subseteq Documents
  /\ healthy \in BOOLEAN

Init ==
  /\ state = "DISCONNECTED" /\ opened = FALSE /\ imported = FALSE
  /\ monitor = "test" /\ service = "runs"
  /\ at = "idle" /\ goal = "prepare" /\ chunk = 0 /\ reason = "none"
  /\ n = 0 /\ job = NewJob
  /\ canceled = FALSE /\ aborted = FALSE /\ outcome = "none"
  /\ reconnected = FALSE /\ reported = FALSE /\ late = FALSE
  /\ moved = FALSE /\ overrun = 0
  /\ queue = <<>> /\ reports = {} /\ printed = {} /\ mistaken = {}
  /\ healthy = FALSE

-----------------------------------------------------------------------------
(* The device, under device_mutex *)

\* Mutant: device_mutex is not taken for the transmission.
NoMutex == TRUE

MutexFree == at \notin {"chunk", "write"}

\* What the printer makes of a call: a healthy one lets it succeed.
Possible(endings) ==
  IF healthy /\ \E e \in endings : e.category = "NONE"
  THEN {e \in endings : e.category = "NONE"}
  ELSE {e \in endings : e.status \notin TerminalStates \ Traps}

\* hplj_device_bootstrap_firmware from state s; once an image is imported,
\* READY rests on its version.
BootstrapEndings(s, h) ==
  (IF s \in {"READY", "FIRMWARE_PRESENT"} /\ imported
   THEN {Ending("READY", h, "NONE", "SAFE_AUTOMATIC", 0)} ELSE {})
  \union
  (IF s = "FIRMWARE_PRESENT"
   THEN {Ending("FIRMWARE_UNVERIFIED", h, "FIRMWARE_UNVERIFIED", "EXPLICIT", 0)}
   ELSE {})
  \union
  (IF s \in {"PRE_FIRMWARE", "AWAITING_FIRMWARE"}
   THEN IF imported THEN UploadEndings
        ELSE {Ending("AWAITING_FIRMWARE", h, "FIRMWARE_MISSING", "NEVER", 0)}
   ELSE {})
  \union
  (IF s \in {"DISCONNECTED"} \union TerminalStates
   THEN {Ending(s, h, "INVALID_STATE", "NEVER", 0)} ELSE {})

\* hplj_device_connect; after a success both callers bootstrap.
Connected     == {e \in ConnectEndings : e.category = "NONE"}
ConnectFailed == ConnectEndings \ Connected

\* The end of hplj_backend_prepare_device_unlocked: a printer that is warm
\* before the import keeps its identity.
BootstrapUnlessWarm(s, h) ==
  IF s = "FIRMWARE_PRESENT" /\ ~imported
  THEN {Ending(s, h, "FIRMWARE_MISSING", "NEVER", 0)}
  ELSE BootstrapEndings(s, h)

\* hplj_backend_prepare_device
PrepareEndings ==
  IF state = "READY" THEN RevalidateEndings
  ELSE IF state = "DISCONNECTED" THEN ConnectFailed \union
         UNION {BootstrapUnlessWarm(e.status, e.held) : e \in Connected}
  ELSE BootstrapUnlessWarm(state, opened)

\* The USB handle may have been released during a call that ends with e: a
\* bootstrap that holds one at its end may have reconnected.
ReleasedBy(e) ==
  IF opened /\ ~e.held THEN {TRUE}
  ELSE IF e.held /\ state \in {"PRE_FIRMWARE", "AWAITING_FIRMWARE"}
          /\ e.status # "AWAITING_FIRMWARE"
  THEN BOOLEAN
  ELSE {FALSE}

\* A release starts a new output generation, with its count at zero.
Leave(e) ==
  /\ state' = e.status /\ opened' = e.held
  /\ \E released \in ReleasedBy(e) :
       /\ reconnected' = (reconnected \/ released)
       /\ reported' = (reported /\ ~released)
  /\ UNCHANGED imported

\* The reports a poll counts: any of them grows completed_documents.
Heard == {d \in reports : LateReports \/ d = <<n, job.pages>>}

\* (ghost) The document hplj_wait_for_output waits for, if a poll ends the
\* wait on reports of others only
Mistaken == {d \in {<<n, job.pages>>} : /\ at \in {"wait", "check"} /\ ~reported
                                       /\ Heard # {} /\ d \notin Heard}

\* hplj_backend_status_reasons, with what it reports
Polled(reasons) ==
  \/ /\ state = "READY" /\ opened
     /\ reasons \in IF healthy THEN {"none"} ELSE {"none", "media", "fault"}
     /\ reported' = (reported \/ Heard # {})
     /\ reports' = {} /\ mistaken' = mistaken \union Mistaken
     /\ UNCHANGED <<device, reconnected>>
  \/ /\ state = "READY" /\ opened /\ ~healthy
     /\ reasons = "offline"
     /\ \E e \in {s \in StatusEndings : s.category # "NONE"} : Leave(e)
     /\ UNCHANGED <<reports, mistaken>>
  \/ /\ ~(state = "READY" /\ opened)
     /\ reasons = "offline"
     /\ UNCHANGED <<device, reconnected, reported, reports, mistaken>>

Poll(reasons) == Polled(reasons) /\ UNCHANGED <<queue, printed, healthy>>

-----------------------------------------------------------------------------
(* The monitor thread *)

\* backend->stopping
stopping == service # "runs"

\* while (!stopping) nanosleep: the test and what follows the sleep are apart.
MonitorWakes ==
  /\ monitor = "test"
  /\ monitor' = IF stopping THEN "stopped" ELSE "sleep"
  /\ UNCHANGED <<device, service, control, job, pappl, output, ghosts,
                 printer>>

MonitorPrepares ==
  /\ monitor = "sleep" /\ MutexFree
  /\ \E e \in Possible(PrepareEndings) :
       /\ Leave(e)
       /\ monitor' = IF e.category = "NONE" THEN "status" ELSE "test"
  /\ UNCHANGED <<service, control, job, pappl, late, ghosts, printer>>

MonitorPolls ==
  /\ monitor = "status" /\ MutexFree
  /\ \E reasons \in {"none", "media", "fault", "offline"} : Poll(reasons)
  /\ monitor' = "test"
  /\ UNCHANGED <<service, control, job, pappl, late, ghosts>>

Monitor == MonitorWakes \/ MonitorPrepares \/ MonitorPolls

-----------------------------------------------------------------------------
(* The job thread: hplj_rstartjob and hplj_wait_for_ready *)

\* PAPPL's verdict on a job whose callbacks are done.
Over(failed) ==
  /\ at' = "idle"
  /\ outcome' = IF canceled THEN "canceled"
                ELSE IF failed THEN "aborted" ELSE "completed"
  /\ UNCHANGED <<goal, chunk, reason, n, canceled>>

\* A page callback returns false: PAPPL aborts the job and calls rendjob.
PageFails ==
  /\ aborted' = TRUE
  /\ at' = "end"
  /\ UNCHANGED <<goal, chunk, reason, n, canceled, outcome>>

Goto(place) ==
  /\ at' = place
  /\ UNCHANGED <<goal, chunk, reason, pappl>>

WaitUntilReady(place) ==
  /\ at' = "ready" /\ goal' = place
  /\ UNCHANGED <<chunk, reason, pappl>>

\* PAPPL starts the next job; invalid options end it at once.
StartJob ==
  /\ at = "idle" /\ n < JobLimit /\ ~stopping
  /\ n' = n + 1
  /\ job' = NewJob
  /\ canceled' = FALSE
  /\ moved' = FALSE /\ overrun' = 0
  /\ \/ /\ at' = "ready" /\ goal' = "prepare"
        /\ aborted' = FALSE /\ outcome' = "none"
     \/ /\ at' = "idle" /\ goal' = goal
        /\ aborted' = TRUE /\ outcome' = "aborted"
  /\ UNCHANGED <<device, threads, chunk, reason, output, printer>>

\* Mutant: only the shutdown is tested.
IgnoresCancel == stopping

GivesUp == canceled \/ stopping

\* hplj_wait_for_ready returns false.
NotReady ==
  /\ at = "ready" /\ GivesUp
  /\ \/ /\ goal = "prepare"
        /\ aborted' = TRUE
        /\ Over(TRUE)
     \/ /\ goal # "prepare" /\ PageFails
  /\ UNCHANGED <<device, threads, job, output, ghosts, printer>>

PrepareDevice ==
  /\ at = "ready" /\ ~GivesUp
  /\ \E e \in Possible(PrepareEndings) :
       /\ Leave(e)
       /\ Goto(IF e.category = "NONE" THEN "ready_status" ELSE "ready")
  /\ UNCHANGED <<threads, job, late, ghosts, printer>>

\* rstartjob passes no lifecycle, the page callbacks do.
ReadyStatus ==
  /\ at = "ready_status"
  /\ \E reasons \in {"none", "media", "fault", "offline"} :
       /\ Poll(reasons)
       /\ Goto(IF reasons = "none" THEN goal ELSE "ready")
       /\ job' = IF goal = "prepare" THEN job
                 ELSE IF reasons = "none" THEN MediaResumed(job)
                 ELSE WaitingForMedia(job, reasons)
  /\ UNCHANGED <<threads, late, ghosts>>

\* hplj_job_prepare, in a mutex section of its own: the device may have
\* changed since hplj_wait_for_ready.
JobPrepareEndings ==
  IF state = "DISCONNECTED" THEN ConnectFailed \union
         UNION {BootstrapEndings(e.status, e.held) : e \in Connected}
  ELSE BootstrapEndings(state, opened)

\* How the job takes the failure of its preparation.
HeldOrFailed(e) ==
  IF e.category = "FIRMWARE_MISSING"
  THEN InState(job, "HELD_FOR_FIRMWARE", e.retry)
  ELSE IF state = "DISCONNECTED" /\ e \in ConnectFailed
  THEN InState(job, "HELD_FOR_DEVICE", e.retry)
  ELSE Failed(job, e.category, e.retry, e.bytes)

PrepareJob ==
  /\ at = "prepare"
  /\ \/ /\ canceled
        /\ job' = Failed(job, "CANCELLED", "NEVER", 0)
        /\ aborted' = TRUE /\ Over(TRUE)
        /\ UNCHANGED <<device, reconnected, reported>>
     \/ /\ ~canceled
        /\ \E e \in Possible(JobPrepareEndings) :
             /\ Leave(e)
             /\ \/ /\ e.category = "NONE"
                   /\ job' = Prepared(job)
                   /\ Goto("page")
                \/ /\ e.category # "NONE"
                   /\ job' = HeldOrFailed(e)
                   /\ aborted' = TRUE /\ Over(TRUE)
  /\ UNCHANGED <<threads, late, ghosts, printer>>

-----------------------------------------------------------------------------
(* The page callbacks: hplj_rstartpage, hplj_rwriteline, hplj_rendpage *)

\* A page follows: its options are tested, then the cancellation, then
\* hplj_wait_for_ready. Or the document ends, which has at least one page.
NextPage ==
  /\ at = "page"
  /\ \/ job.pages < PagesLimit /\ ~canceled /\ WaitUntilReady("raster")
     \/ PageFails
     \/ (job.pages > 0 \/ canceled) /\ Goto("end")
  /\ UNCHANGED <<device, threads, job, output, ghosts, printer>>

\* The rows arrive, all of them or not.
Raster ==
  /\ at = "raster"
  /\ \/ ~canceled /\ WaitUntilReady("submit")
     \/ PageFails
  /\ UNCHANGED <<device, threads, job, output, ghosts, printer>>

\* hplj_rendpage takes the mutex and the snapshot; hplj_job_submit_page up to
\* its loop.
SubmitPage ==
  /\ at = "submit"
  /\ \/ /\ job.state # "PREPARING"
        /\ PageFails
        /\ UNCHANGED job
     \/ /\ job.state = "PREPARING"
        /\ \/ canceled /\ job' = Failed(job, "CANCELLED", "NEVER", 0)
           \/ /\ ~canceled
              /\ job' = Failed(job, "ENCODING_FAILED", "SAFE_AUTOMATIC", 0)
        /\ PageFails
     \/ /\ job.state = "PREPARING" /\ ~canceled
        /\ job' = Transmitting(job)
        /\ at' = "chunk" /\ chunk' = 0
        /\ UNCHANGED <<goal, reason, pappl>>
  /\ reconnected' = FALSE /\ reported' = FALSE
  /\ UNCHANGED <<device, threads, late, ghosts, printer>>

\* Mutant: the cancellation is tested once per page.
TestCancelOnce ==
  /\ at = "chunk"
  /\ \/ /\ canceled /\ chunk = 0
        /\ job' = Failed(job, "CANCELLED", "NEVER", 0)
        /\ PageFails
     \/ /\ ~canceled \/ chunk > 0
        /\ Goto("write")
        /\ UNCHANGED job
  /\ UNCHANGED <<device, threads, output, ghosts, printer>>

\* The head of hplj_job_submit_page's loop
TestCancel ==
  /\ at = "chunk"
  /\ \/ /\ canceled
        /\ job' = Failed(job, "CANCELLED", "NEVER", 0)
        /\ PageFails
     \/ /\ ~canceled
        /\ Goto("write")
        /\ UNCHANGED job
  /\ UNCHANGED <<device, threads, output, ghosts, printer>>

\* The chunk is accepted; after the last one hplj_job_submit_page returns.
ChunkSent ==
  /\ moved' = TRUE
  /\ overrun' = IF canceled /\ overrun < 2 THEN overrun + 1 ELSE overrun
  /\ \/ /\ chunk + 1 < ChunksPerPage
        /\ job' = [job EXCEPT !.sent = TRUE]
        /\ chunk' = chunk + 1 /\ at' = "chunk"
        /\ UNCHANGED <<queue, late>>
     \/ /\ chunk + 1 = ChunksPerPage
        /\ job' = PageTransmitted([job EXCEPT !.sent = TRUE])
        /\ chunk' = 0 /\ at' = "wait"
        /\ queue' = Append(queue, <<n, job.pages + 1>>)
        /\ late' = FALSE
  /\ UNCHANGED <<goal, reason, pappl>>

ChunkFailed(e) ==
  /\ job' = Failed(job, e.category, e.retry, e.bytes)
  /\ moved' = (moved \/ e.bytes > 0)
  /\ PageFails
  /\ UNCHANGED <<overrun, queue, late>>

\* hplj_device_send, or hplj_device_send_once after the first byte
SendChunk ==
  /\ at = "write"
  /\ \/ /\ state # "READY"
        /\ job' = Failed(job, "INVALID_STATE", "NEVER", 0)
        /\ PageFails
        /\ UNCHANGED <<device, output, ghosts, queue>>
     \/ /\ state = "READY"
        /\ \E e \in Possible(SendEndings) :
             /\ Leave(e)
             /\ \/ e.category = "NONE" /\ ChunkSent
                \/ e.category # "NONE" /\ ChunkFailed(e)
  /\ UNCHANGED <<threads, reports, printed, mistaken, healthy>>

-----------------------------------------------------------------------------
(* hplj_wait_for_output and hplj_rendjob *)

\* The loop's condition, then the poll
PollOutput ==
  /\ at = "wait"
  /\ \/ /\ GivesUp
        /\ job' = Canceled(job)
        /\ PageFails
        /\ UNCHANGED <<device, reconnected, reported, printer>>
     \/ /\ ~GivesUp
        /\ Poll(reason')
        /\ reason' \in {"none", "media", "fault", "offline"}
        /\ at' = "check"
        /\ UNCHANGED <<job, goal, chunk, pappl>>
  /\ UNCHANGED <<threads, late, ghosts>>

OutputUnverified(j) == job' = OutputFailed(j) /\ PageFails /\ UNCHANGED late

SameConnection == opened /\ ~reconnected

\* Mutants: a printer that is ready counts as done, and the deadline is never
\* reached.
CheckOutputTrustsReady ==
  /\ at = "check"
  /\ \/ ~SameConnection /\ OutputUnverified(job)
     \/ /\ SameConnection /\ (reported \/ reason = "none")
        /\ job' = MediaResumed(job) /\ Goto("page") /\ UNCHANGED late
     \/ /\ SameConnection /\ ~reported /\ reason # "none"
        /\ job' = WaitingForMedia(job, reason)
        /\ late' = FALSE /\ Goto("wait")
  /\ UNCHANGED <<device, threads, reconnected, reported, ghosts, printer>>
CheckOutputForever ==
  /\ at = "check"
  /\ \/ ~SameConnection /\ OutputUnverified(job)
     \/ /\ SameConnection /\ reported
        /\ job' = MediaResumed(job) /\ Goto("page") /\ UNCHANGED late
     \/ /\ SameConnection /\ ~reported
        /\ job' = IF reason = "none" THEN MediaResumed(job)
                                     ELSE WaitingForMedia(job, reason)
        /\ late' = FALSE /\ Goto("wait")
  /\ UNCHANGED <<device, threads, reconnected, reported, ghosts, printer>>

\* What the loop makes of output_status, read in a mutex section of its own
CheckOutput ==
  /\ at = "check"
  /\ \/ ~SameConnection /\ OutputUnverified(job)
     \/ /\ SameConnection /\ reported
        /\ job' = MediaResumed(job) /\ Goto("page") /\ UNCHANGED late
     \/ /\ SameConnection /\ ~reported /\ reason # "none"
        /\ job' = WaitingForMedia(job, reason)
        /\ late' = FALSE /\ Goto("wait")
     \/ /\ SameConnection /\ ~reported /\ reason = "none"
        /\ \/ late /\ OutputUnverified(MediaResumed(job))
           \/ ~late /\ job' = MediaResumed(job) /\ Goto("wait") /\ UNCHANGED late
  /\ UNCHANGED <<device, threads, reconnected, reported, ghosts, printer>>

IsCanceled == canceled \/ (aborted /\ AbortedIsCanceled)

\* hplj_rendjob, with hplj_job_complete
EndJob ==
  /\ at = "end"
  /\ \/ IsCanceled /\ job' = Canceled(job)
     \/ /\ ~IsCanceled
        /\ job' = Completed(job)
  /\ Over(aborted \/ job'.state # "COMPLETED")
  /\ UNCHANGED <<device, threads, aborted, output, ghosts, printer>>

JobThread == \/ NotReady \/ PrepareDevice \/ ReadyStatus \/ PrepareJob
             \/ NextPage \/ Raster \/ SubmitPage \/ TestCancel \/ SendChunk
             \/ PollOutput \/ CheckOutput \/ EndJob

-----------------------------------------------------------------------------
(* Shutdown *)

\* hplj_backend_shutdown, from a signal or PAPPL
Shutdown ==
  /\ ~stopping
  /\ service' = "stops"
  /\ UNCHANGED <<device, monitor, control, job, pappl, output, ghosts, printer>>

\* papplSystemRun returns once no job is active; the monitor is joined before
\* hplj_backend_destroy closes the device.
Destroy ==
  /\ service = "stops" /\ at = "idle" /\ monitor = "stopped"
  /\ service' = "gone"
  /\ state' = "DISCONNECTED" /\ opened' = FALSE
  /\ UNCHANGED <<imported, monitor, control, job, pappl, output, ghosts,
                 printer>>

-----------------------------------------------------------------------------
(* The user, the clock and the printer *)

\* A client cancels the running job.
CancelJob ==
  /\ at # "idle" /\ ~canceled
  /\ canceled' = TRUE
  /\ UNCHANGED <<device, threads, control, job, n, aborted, outcome, output,
                 ghosts, printer>>

\* 60 s without a report
Tick ==
  /\ at \in {"wait", "check"} /\ ~late
  /\ late' = TRUE
  /\ UNCHANGED <<device, threads, control, job, pappl, reconnected, reported,
                 ghosts, printer>>

\* The user imports the firmware image.
Import ==
  /\ ~imported
  /\ imported' = TRUE
  /\ UNCHANGED <<state, opened, threads, control, job, pappl, output, ghosts,
                 printer>>

\* The oldest document comes out of the printer.
PrintDocument ==
  /\ queue # <<>>
  /\ queue' = Tail(queue)
  /\ printed' = printed \union {Head(queue)}
  /\ reports' = reports \union {Head(queue)}
  /\ UNCHANGED <<device, threads, control, job, pappl, output, ghosts, mistaken,
                 healthy>>

\* It is lost: the printer loses power, or its paper jams.
LoseDocument ==
  /\ queue # <<>>
  /\ queue' = Tail(queue)
  /\ UNCHANGED <<device, threads, control, job, pappl, output, ghosts, reports,
                 printed, mistaken, healthy>>

\* The printer, its cable and its tray turn right or wrong.
Turn(right) ==
  /\ healthy # right
  /\ healthy' = right
  /\ UNCHANGED <<device, threads, control, job, pappl, output, ghosts, queue,
                 reports, printed, mistaken>>

Environment == \/ CancelJob \/ Tick \/ Import \/ PrintDocument \/ LoseDocument
               \/ Turn(TRUE) \/ Turn(FALSE)

Next == \/ Monitor \/ StartJob \/ JobThread \/ Shutdown \/ Destroy
        \/ Environment

Spec == Init /\ [][Next]_vars

\* Both threads run on: every USB transfer times out after 5 s, every wait
\* polls each 100 ms, and the clock reaches the 60 s deadline.
FairSpec == /\ Spec
            /\ WF_vars(Monitor) /\ WF_vars(JobThread) /\ WF_vars(Destroy)
            /\ WF_vars(Tick)

-----------------------------------------------------------------------------
(* Safety *)

\* docs/IMPLEMENTATION-SPEC.md:87: a job that the lifecycle records as
\* completed, or PAPPL as successful, was not aborted, and each page it
\* counts has come out of the printer.
CompletedMeansPrinted ==
  job.state = "COMPLETED" \/ outcome = "completed" =>
    /\ ~aborted
    /\ job.pages > 0
    /\ \A page \in 1..job.pages : <<n, page>> \in printed

\* What the code keeps of it: of a completed job, which was not aborted, each
\* page has come out of the printer, except one whose wait was ended by the
\* report of an earlier document. Nothing else that the threads, the printer,
\* the user or the operator do makes a completion untrue.
CompletedUnlessMistaken ==
  job.state = "COMPLETED" \/ outcome = "completed" =>
    /\ ~aborted
    /\ job.pages > 0
    /\ \A page \in 1..job.pages : <<n, page>> \in printed \union mistaken

\* JOB-006, JOB-007: the job's record says that bytes were sent exactly when
\* bytes have left the host, whichever transfer, retry or failure moved them;
\* and a job that ends without success after that asks for an explicit retry,
\* and is not reported as a plain failure, which a client may take as "nothing
\* was printed".
RecordIsHonest ==
  /\ job.sent <=> moved
  /\ moved /\ job.state \in {"CANCELED", "FAILED", "FAILED_PARTIAL"} =>
       job.retry = "EXPLICIT" /\ job.state # "FAILED"

\* At most one transfer of a job leaves the host after its cancellation.
CancelStopsTransmission == overrun <= 1

\* Once bytes of a page have left, no other thread polls, revalidates,
\* reconnects or closes the device before the page is over: the rest of the
\* page goes to the connection its beginning went to. After
\* hplj_backend_destroy nobody is left that could connect it again.
DeviceHasOneUser ==
  /\ at \in {"chunk", "write"} /\ chunk > 0 =>
       state = "READY" /\ opened /\ ~reconnected
  /\ service = "gone" => monitor = "stopped" /\ at = "idle" /\ ~opened

-----------------------------------------------------------------------------
(* Liveness *)

\* A cancelled job is over after a while, wherever it waited, and a shutdown
\* finishes: both threads notice and the device is closed.
EndsWhenTold ==
  /\ canceled /\ at # "idle" ~> at = "idle"
  /\ stopping ~> service = "gone"

\* FW-009, JOB-009: if the printer is right from some point on and its
\* firmware is there, every job ends, without a restart of the service.
JobsRecover ==
  []<>~(healthy /\ imported) \/ (at # "idle" ~> at = "idle")
=============================================================================
