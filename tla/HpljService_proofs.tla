------------------------- MODULE HpljService_proofs -------------------------
(***************************************************************************)
(* Type correctness of HpljService and its safety properties, for every    *)
(* number of jobs, pages and transfers per page, whatever the printer does *)
(* and wherever the two threads, cancellation and shutdown meet.           *)
(***************************************************************************)
EXTENDS HpljService, TLAPS

-----------------------------------------------------------------------------
(* The inductive invariant *)

Sending == at \in {"chunk", "write"}

\* A page has been announced: there is room for it in the document.
Announced == \/ at \in {"raster", "submit", "chunk", "write"}
             \/ at \in {"ready", "ready_status"} /\ goal # "prepare"

\* Where the job thread is tells what the job has come to: one that is under
\* way has a number and no verdict, and is aborted by its last callback only;
\* it is transmitting in the loop of hplj_job_submit_page.
Course ==
  /\ at # "idle" =>
       n > 0 /\ outcome = "none" /\ job.state # "COMPLETED"
  /\ at \notin {"idle", "end"} => ~aborted
  /\ Announced => job.pages < PagesLimit
  /\ at \in {"wait", "check"} => job.pages > 0
  /\ Sending => job.state = "TRANSMITTING" /\ chunk < ChunksPerPage

\* The transfers that leave after a cancellation: the one under way
Leaving ==
  /\ overrun <= 1
  /\ overrun = 1 => canceled
  /\ at = "write" => overrun = 0

\* The snapshot of hplj_rendpage holds while the page is sent, and its first
\* transfer finds out that the device is ready.
Undisturbed ==
  /\ Sending => ~reconnected /\ ~reported
  /\ Sending /\ chunk > 0 => state = "READY" /\ opened

\* hplj_backend_destroy comes last.
Destroyed == service = "gone" => monitor = "stopped" /\ at = "idle" /\ ~opened

\* What is reported was printed, and every page but the one waited for was, or
\* taken for printed on a report of another; which takes a late report.
Printed(page) == <<n, page>> \in printed \union mistaken
Delivered ==
  /\ reports \subseteq printed
  /\ \A page \in 1..job.pages :
       \/ Printed(page)
       \/ page = job.pages /\ at \in {"wait", "check"} /\ ~reported
       \/ page = job.pages /\ at \in {"end", "idle"} /\ aborted
  /\ at = "idle" /\ (job.state = "COMPLETED" \/ outcome = "completed") =>
       ~aborted /\ job.pages > 0
  /\ ~LateReports => mistaken = {}

\* If PAPPL's is_canceled holds for an aborted job, Delivered holds of every
\* state as well.
SInv == TypeOK /\ Course /\ RecordIsHonest /\ Leaving /\ Undisturbed /\ Destroyed
IInv == SInv /\ (AbortedIsCanceled => Delivered)

-----------------------------------------------------------------------------
(* The device and the polls *)

\* An ending is of the device's states and the job's retry classes.
Result(e) == /\ e.status \in DeviceStates /\ (e.held = TRUE \/ e.held = FALSE)
             /\ e.retry \in RetryClasses /\ e.bytes \in Nat

\* What hplj_device_connect and hplj_device_bootstrap_firmware end with moves
\* no print bytes.
LEMMA PreparationEndings ==
  ASSUME NEW e \in ConnectEndings \union UploadEndings
  PROVE  Result(e) /\ e.bytes = 0
BY DEF ConnectEndings, UploadEndings, Ending, Result, DeviceStates,
       TerminalStates, RetryClasses

LEMMA BootstrapHolds ==
  ASSUME NEW s \in DeviceStates, NEW h \in BOOLEAN,
         NEW e \in BootstrapEndings(s, h)
  PROVE  Result(e) /\ e.bytes = 0
<1>1. CASE e \in UploadEndings
  BY <1>1, PreparationEndings
<1>2. CASE e \notin UploadEndings
  BY <1>2 DEF BootstrapEndings, Ending, Result, DeviceStates, RetryClasses,
              TerminalStates
<1> QED
  BY <1>1, <1>2

LEMMA WarmHolds ==
  ASSUME NEW s \in DeviceStates, NEW h \in BOOLEAN,
         NEW e \in BootstrapUnlessWarm(s, h)
  PROVE  Result(e) /\ e.bytes = 0
<1>1. CASE e \in BootstrapEndings(s, h)
  BY <1>1, BootstrapHolds
<1>2. CASE e \notin BootstrapEndings(s, h)
  BY <1>2 DEF BootstrapUnlessWarm, Ending, Result, RetryClasses
<1> QED
  BY <1>1, <1>2

LEMMA PrepareHolds ==
  ASSUME TypeOK, NEW e \in Possible(PrepareEndings)
  PROVE  Result(e)
<1>1. e \in PrepareEndings
  BY DEF Possible
<1>2. CASE state = "READY"
  BY <1>1, <1>2 DEF PrepareEndings, RevalidateEndings, Ending, Result,
     DeviceStates, TerminalStates, RetryClasses
<1>3. CASE state = "DISCONNECTED"
  <2>1. CASE e \in ConnectEndings
    BY <2>1, PreparationEndings
  <2>2. CASE \E c \in ConnectEndings : e \in BootstrapUnlessWarm(c.status, c.held)
    BY <2>2, PreparationEndings, WarmHolds DEF Result
  <2> QED
    BY <1>1, <1>3, <2>1, <2>2 DEF PrepareEndings, ConnectFailed, Connected
<1>4. CASE state \notin {"READY", "DISCONNECTED"}
  BY <1>1, <1>4, WarmHolds DEF PrepareEndings, TypeOK
<1> QED
  BY <1>2, <1>3, <1>4

LEMMA JobPrepareHolds ==
  ASSUME TypeOK, NEW e \in Possible(JobPrepareEndings)
  PROVE  Result(e) /\ e.bytes = 0
<1>1. e \in JobPrepareEndings
  BY DEF Possible
<1>2. CASE state = "DISCONNECTED"
  <2>1. CASE e \in ConnectEndings
    BY <2>1, PreparationEndings
  <2>2. CASE \E c \in ConnectEndings : e \in BootstrapEndings(c.status, c.held)
    BY <2>2, PreparationEndings, BootstrapHolds DEF Result
  <2> QED
    BY <1>1, <1>2, <2>1, <2>2 DEF JobPrepareEndings, ConnectFailed, Connected
<1>3. CASE state # "DISCONNECTED"
  BY <1>1, <1>3, BootstrapHolds DEF JobPrepareEndings, TypeOK
<1> QED
  BY <1>2, <1>3

\* A transfer that succeeds leaves the device ready with its handle.
LEMMA SendHolds ==
  ASSUME NEW e \in Possible(SendEndings)
  PROVE  /\ Result(e)
         /\ e.category = "NONE" => e.status = "READY" /\ e.held
<1>1. e \in SendEndings
  BY DEF Possible
<1>2. ChunkBytes \in Nat
  BY ServiceAssumption
<1>3. CASE \E b \in 1..ChunkBytes : e \in CutShortEndings(b)
  <2>1. PICK b \in 1..ChunkBytes : e \in CutShortEndings(b)
    BY <1>3
  <2>2. b \in Nat
    BY <1>2
  <2> QED
    BY <2>1, <2>2 DEF CutShortEndings, Faults, Ending, Result, DeviceStates,
                      RetryClasses
<1>4. CASE ~\E b \in 1..ChunkBytes : e \in CutShortEndings(b)
  BY <1>1, <1>2, <1>4 DEF SendEndings, Ending, Result, DeviceStates,
                          RetryClasses
<1> QED
  BY <1>3, <1>4

LEMMA StatusHolds ==
  ASSUME NEW e \in StatusEndings
  PROVE  Result(e)
BY DEF StatusEndings, Ending, Result, DeviceStates, TerminalStates, RetryClasses

\* A call changes the snapshot's flags only by releasing the handle; it brings
\* no report.
Moved ==
  /\ state' \in DeviceStates /\ opened' \in BOOLEAN /\ imported' = imported
  /\ reconnected' \in BOOLEAN /\ reported' \in BOOLEAN

LEMMA LeaveHolds ==
  ASSUME TypeOK, NEW e, Result(e), Leave(e)
  PROVE  /\ Moved
         /\ reported' => reported
         /\ state = "READY" /\ e.held =>
              reconnected' = reconnected /\ reported' = reported
<1>1. ReleasedBy(e) \subseteq BOOLEAN
  BY DEF ReleasedBy
<1>2. PICK released \in BOOLEAN :
        /\ released \in ReleasedBy(e)
        /\ reconnected' = (reconnected \/ released)
        /\ reported' = (reported /\ ~released)
  BY <1>1 DEF Leave
<1>3. state = "READY" /\ e.held => released = FALSE
  BY <1>2 DEF ReleasedBy
<1>4. reconnected \in BOOLEAN /\ reported \in BOOLEAN
  BY DEF TypeOK
<1>5. Moved
  BY <1>2, <1>4 DEF Moved, Leave, Result
<1> QED
  BY <1>2, <1>3, <1>4, <1>5, Zenon

\* A poll counts the reports it hears, and takes them away. The page waited for
\* is mistaken for printed when all of them are of others.
Counts ==
  /\ reported' => \/ reported
                  \/ Heard # {} /\ mistaken' = mistaken \union Mistaken
  /\ reports' \subseteq reports
  /\ mistaken \subseteq mistaken' /\ mistaken' \subseteq mistaken \union Mistaken

LEMMA MistakenHolds ==
  ASSUME IInv
  PROVE  /\ Mistaken \subseteq Documents
         /\ at \notin {"wait", "check"} => Mistaken = {}
<1>1. at \in {"wait", "check"} => n \in 1..JobLimit /\ job.pages \in 1..PagesLimit
  BY ServiceAssumption DEF IInv, SInv, TypeOK, Course, Jobs
<1>2. at \in {"wait", "check"} => <<n, job.pages>> \in Documents
  BY <1>1 DEF Documents
<1> QED
  BY <1>2 DEF Mistaken

LEMMA PollHolds ==
  ASSUME TypeOK, NEW reasons, Poll(reasons)
  PROVE  Moved /\ Counts /\ UNCHANGED <<queue, printed, healthy>>
<1>1. reconnected \in BOOLEAN /\ reported \in BOOLEAN /\ state \in DeviceStates
      /\ opened \in BOOLEAN
  BY DEF TypeOK
<1>2. UNCHANGED <<queue, printed, healthy>>
  BY DEF Poll
<1>3. ASSUME reported' = (reported \/ Heard # {}), reports' = {},
             mistaken' = mistaken \union Mistaken, UNCHANGED <<device, reconnected>>
      PROVE  Moved /\ Counts
  <2>1. Moved
    BY <1>1, <1>3 DEF Moved, device
  <2> QED
    BY <1>1, <1>3, <2>1 DEF Counts
<1>4. ASSUME NEW e \in StatusEndings, Leave(e), UNCHANGED <<reports, mistaken>>
      PROVE  Moved /\ Counts
  <2>1. Moved /\ (reported' => reported)
    BY <1>4, StatusHolds, LeaveHolds, Zenon
  <2> QED
    BY <1>4, <2>1 DEF Counts
<1>5. ASSUME UNCHANGED <<device, reconnected, reported, reports, mistaken>>
      PROVE  Moved /\ Counts
  BY <1>1, <1>5 DEF Moved, Counts, device
<1> QED
  BY <1>2, <1>3, <1>4, <1>5 DEF Poll, Polled

-----------------------------------------------------------------------------
(* The record of the job: JobLifecycle *)

\* What RecordIsHonest asks of the record alone
Sound(j) == j.sent /\ j.state \in {"CANCELED", "FAILED", "FAILED_PARTIAL"} =>
              j.retry = "EXPLICIT" /\ j.state # "FAILED"

LEMMA Honesty == RecordIsHonest <=> (job.sent <=> moved) /\ Sound(job)
BY DEF RecordIsHonest, Sound

\* Operators that leave the bytes and pages of the record as they are, and its
\* success to hplj_job_complete
Follows(j, k) ==
  /\ k \in Jobs /\ k.pages = j.pages /\ k.sent = j.sent
  /\ Sound(j) => Sound(k)
  /\ k.state = "COMPLETED" => j.state = "COMPLETED"

LEMMA JobFields ==
  ASSUME NEW j \in Jobs
  PROVE  /\ j = [state |-> j.state, pages |-> j.pages, sent |-> j.sent,
                 retry |-> j.retry]
         /\ j.state \in JobStates /\ j.pages \in 0..PagesLimit
         /\ j.sent \in BOOLEAN /\ j.retry \in RetryClasses
BY DEF Jobs

LEMMA InStateHolds ==
  ASSUME NEW j \in Jobs, NEW s \in JobStates, NEW r \in RetryClasses
  PROVE  /\ InState(j, s, r) \in Jobs
         /\ InState(j, s, r).state = s /\ InState(j, s, r).retry = r
         /\ InState(j, s, r).pages = j.pages /\ InState(j, s, r).sent = j.sent
<1>1. InState(j, s, r) \in Jobs
  BY DEF InState, Jobs
<1>2. InState(j, s, r).sent = j.sent
  BY DEF InState, Jobs
<1> QED
  BY <1>1, <1>2 DEF InState, Jobs

\* A failure after bytes is partial or a cancellation, and never retried alone.
LEMMA FailedHolds ==
  ASSUME NEW j \in Jobs, NEW c, NEW r \in RetryClasses, NEW b \in Nat
  PROVE  LET k == Failed(j, c, r, b)
         IN  /\ k \in Jobs /\ k.pages = j.pages
             /\ k.sent <=> j.sent \/ b > 0
             /\ Sound(k) /\ k.state # "COMPLETED"
<1>1. Failed(j, c, r, b) \in Jobs
  BY DEF Failed, Jobs, JobStates, RetryClasses
<1>2. /\ Failed(j, c, r, b).pages = j.pages
      /\ Failed(j, c, r, b).state \in {"CANCELED", "FAILED", "FAILED_PARTIAL"}
  BY DEF Failed, Jobs
<1>3. Failed(j, c, r, b).sent = (j.sent \/ b > 0)
  BY DEF Failed, Jobs
<1>4. j.sent \/ b > 0 => /\ Failed(j, c, r, b).retry = "EXPLICIT"
                         /\ Failed(j, c, r, b).state # "FAILED"
  BY DEF Failed, Jobs
<1>5. Sound(Failed(j, c, r, b))
  BY <1>3, <1>4 DEF Sound
<1> QED
  BY <1>1, <1>2, <1>3, <1>5

\* A failure that has moved no bytes
LEMMA FailedFollows ==
  ASSUME NEW j \in Jobs, NEW c, NEW r \in RetryClasses
  PROVE  Follows(j, Failed(j, c, r, 0))
<1>1. 0 \in Nat /\ ~(0 > 0)
  OBVIOUS
<1>2. LET k == Failed(j, c, r, 0)
      IN  /\ k \in Jobs /\ k.pages = j.pages
          /\ k.sent <=> j.sent \/ 0 > 0
          /\ Sound(k) /\ k.state # "COMPLETED"
  BY <1>1, FailedHolds
<1>3. Failed(j, c, r, 0).sent \in BOOLEAN /\ j.sent \in BOOLEAN
  BY <1>2, JobFields
<1>4. Failed(j, c, r, 0).sent = j.sent
  BY <1>1, <1>2, <1>3, Zenon
<1> QED
  BY <1>2, <1>4 DEF Follows

LEMMA InStateFollows ==
  ASSUME NEW j \in Jobs, NEW r \in RetryClasses,
         NEW s \in {"HELD_FOR_FIRMWARE", "HELD_FOR_DEVICE", "PREPARING",
                    "TRANSMITTING", "WAITING_FOR_MEDIA"}
  PROVE  Follows(j, InState(j, s, r))
<1> DEFINE k == InState(j, s, r)
<1>1. s \in JobStates
  BY DEF JobStates
<1>2. k \in Jobs /\ k.state = s /\ k.pages = j.pages
  BY <1>1, InStateHolds
<1>3. k.sent = j.sent
  BY <1>1, InStateHolds
<1> HIDE DEF k
<1>4. Sound(k) /\ k.state # "COMPLETED"
  BY <1>2 DEF Sound
<1> QED
  BY <1>2, <1>3, <1>4 DEF Follows, k

\* The other operations of the lifecycle
LEMMA LifecycleFollows ==
  ASSUME NEW j \in Jobs
  PROVE  /\ Follows(j, j)
         /\ Follows(j, Transmitting(j)) /\ Transmitting(j).state = "TRANSMITTING"
         /\ Follows(j, Prepared(j))
         /\ \A condition : Follows(j, WaitingForMedia(j, condition))
         /\ Follows(j, MediaResumed(j))
         /\ Follows(j, OutputFailed(j))
         /\ Follows(j, Canceled(j))
<1>1. Follows(j, j)
  BY DEF Follows
<1> {"SAFE_AUTOMATIC", "EXPLICIT", "NEVER"} \subseteq RetryClasses
  BY DEF RetryClasses
<1>2. Follows(j, Transmitting(j)) /\ Transmitting(j).state = "TRANSMITTING"
  BY InStateFollows, InStateHolds DEF Transmitting, JobStates
<1>3. Follows(j, Prepared(j))
  BY InStateFollows DEF Prepared
<1>4. \A condition : Follows(j, WaitingForMedia(j, condition))
  BY <1>1, InStateFollows DEF WaitingForMedia
<1>5. Follows(j, MediaResumed(j))
  BY <1>1, InStateFollows DEF MediaResumed
<1>6. Follows(j, OutputFailed(j))
  BY <1>1, FailedFollows DEF OutputFailed
<1>7. Follows(j, Canceled(j))
  <2>1. CASE j.state \in Settled
    BY <1>1, <2>1 DEF Canceled
  <2>2. CASE j.state \notin Settled
    <3>1. Canceled(j) \in Jobs
      BY <2>2 DEF Canceled, InState, Jobs, JobStates, RetryClasses
    <3>2. Canceled(j).sent = j.sent
      BY <2>2 DEF Canceled, InState, Jobs
    <3>3. /\ Canceled(j).state = "CANCELED" /\ Canceled(j).pages = j.pages
          /\ j.sent => Canceled(j).retry = "EXPLICIT"
      BY <2>2 DEF Canceled, InState, Jobs
    <3>4. Sound(Canceled(j))
      BY <3>2, <3>3 DEF Sound
    <3> QED
      BY <3>1, <3>2, <3>3, <3>4 DEF Follows
  <2> QED
    BY <2>1, <2>2
<1> QED
  BY <1>1, <1>2, <1>3, <1>4, <1>5, <1>6, <1>7

LEMMA CompletedHolds ==
  ASSUME NEW j \in Jobs
  PROVE  LET k == Completed(j)
         IN  /\ k \in Jobs /\ k.pages = j.pages /\ k.sent = j.sent
             /\ Sound(j) => Sound(k)
             /\ k.state = "COMPLETED" => k.pages > 0 \/ j.state = "COMPLETED"
<1>1. CASE j.state = "PREPARING" /\ j.pages > 0
  BY <1>1, InStateHolds DEF Completed, Sound, JobStates, RetryClasses
<1>2. CASE ~(j.state = "PREPARING" /\ j.pages > 0)
  BY <1>2 DEF Completed
<1> QED
  BY <1>1, <1>2

-----------------------------------------------------------------------------
(* The invariant, action by action *)

LEMMA Initially == Init => IInv
<1> SUFFICES ASSUME Init PROVE IInv
  OBVIOUS
<1> USE ServiceAssumption DEF Init
<1>1. TypeOK
  <2>1. NewJob \in Jobs
    BY DEF NewJob, Jobs, JobStates, RetryClasses
  <2>2. /\ state \in DeviceStates /\ at \in Places /\ outcome \in Outcomes
        /\ chunk \in 0..ChunksPerPage /\ n \in 0..JobLimit /\ overrun \in 0..2
    BY DEF DeviceStates, Places, Outcomes
  <2>3. /\ opened \in BOOLEAN /\ imported \in BOOLEAN /\ canceled \in BOOLEAN
        /\ aborted \in BOOLEAN /\ reconnected \in BOOLEAN
        /\ reported \in BOOLEAN /\ late \in BOOLEAN /\ moved \in BOOLEAN
        /\ healthy \in BOOLEAN
    OBVIOUS
  <2> QED
    BY <2>1, <2>2, <2>3 DEF TypeOK
<1>2. job.pages = 0 /\ job.state = "ACCEPTED" /\ ~job.sent
  BY DEF NewJob
<1>3. Course /\ Leaving /\ Undisturbed /\ Destroyed /\ Delivered
  BY <1>2 DEF Course, Announced, Sending, Leaving, Undisturbed, Destroyed,
              Delivered
<1>4. RecordIsHonest
  BY <1>2 DEF RecordIsHonest
<1> QED
  BY <1>1, <1>3, <1>4 DEF IInv, SInv

\* Steps that touch neither the job nor its place nor its verdict
LEMMA BystanderStep ==
  ASSUME IInv, UNCHANGED <<control, job, pappl, ghosts>>
  PROVE  Course' /\ RecordIsHonest' /\ Leaving'
BY DEF IInv, SInv, Course, Announced, Sending, RecordIsHonest, Leaving, control,
       pappl, ghosts

\* Those that do not touch the device and the reports either
LEMMA DistantStep ==
  ASSUME IInv, UNCHANGED <<control, job, pappl, ghosts, state, opened,
                           reconnected, reported, reports, printed, mistaken>>
  PROVE  /\ Course' /\ RecordIsHonest' /\ Leaving' /\ Undisturbed'
         /\ AbortedIsCanceled => Delivered'
<1>1. Undisturbed'
  BY DEF IInv, SInv, Undisturbed, Sending, control
<1>2. AbortedIsCanceled => Delivered'
  BY DEF IInv, Delivered, Printed, control, pappl
<1> QED
  BY <1>1, <1>2, BystanderStep

\* The monitor's test, the deadline, the import and the state of the printer
LEMMA QuietStep ==
  ASSUME IInv,
         \/ MonitorWakes \/ Shutdown \/ Tick \/ Import \/ LoseDocument
         \/ Turn(TRUE) \/ Turn(FALSE)
  PROVE  IInv'
<1>1. TypeOK'
  <2> TypeOK
    BY DEF IInv, SInv
  <2> USE DEF TypeOK, device, threads, control, pappl, output, ghosts, printer
  <2>1. CASE MonitorWakes
    BY <2>1 DEF MonitorWakes
  <2>2. CASE Shutdown
    BY <2>2 DEF Shutdown
  <2>3. CASE Tick \/ Import
    <3>1. late' \in BOOLEAN /\ imported' \in BOOLEAN
      BY <2>3, Zenon DEF Tick, Import
    <3> QED
      BY <2>3, <3>1 DEF Tick, Import
  <2>4. CASE Turn(TRUE) \/ Turn(FALSE)
    <3>1. healthy' \in BOOLEAN
      BY <2>4, Zenon DEF Turn
    <3>2. UNCHANGED <<device, threads, control, job, pappl, output, ghosts,
                      queue, reports, printed, mistaken>>
      BY <2>4 DEF Turn
    <3> QED
      BY <3>1, <3>2
  <2>5. CASE LoseDocument
    <3>1. queue' \in Seq(Documents)
      BY <2>5 DEF LoseDocument
    <3> QED
      BY <2>5, <3>1 DEF LoseDocument
  <2> QED
    BY <2>1, <2>2, <2>3, <2>4, <2>5
<1>2. UNCHANGED <<control, job, pappl, ghosts, state, opened, reconnected,
                  reported, reports, printed, mistaken>>
  BY DEF MonitorWakes, Shutdown, Tick, Import, LoseDocument, Turn, device,
         output, printer
<1>3. Destroyed'
  BY DEF IInv, SInv, Destroyed, stopping, MonitorWakes, Shutdown, Tick, Import,
         LoseDocument, Turn, device, threads, control
<1> QED
  BY <1>1, <1>2, <1>3, DistantStep DEF IInv, SInv

LEMMA CancelStep ==
  ASSUME IInv, CancelJob
  PROVE  IInv'
<1> USE DEF CancelJob, device, threads, control, output, ghosts, printer
<1>1. TypeOK'
  BY DEF IInv, SInv, TypeOK
<1>2. Course' /\ RecordIsHonest' /\ Leaving'
  BY DEF IInv, SInv, Course, Announced, Sending, RecordIsHonest, Leaving
<1>3. Undisturbed' /\ Destroyed'
  BY DEF IInv, SInv, Undisturbed, Sending, Destroyed
<1>4. AbortedIsCanceled => Delivered'
  BY DEF IInv, Delivered, Printed
<1> QED
  BY <1>1, <1>2, <1>3, <1>4 DEF IInv, SInv

\* A document that comes out of the printer is reported later.
LEMMA PrintStep ==
  ASSUME IInv, PrintDocument
  PROVE  IInv'
<1> USE DEF PrintDocument, device, threads, control, pappl, output, ghosts
<1>1. TypeOK'
  <2>1. queue \in Seq(Documents) /\ queue # <<>>
    BY DEF IInv, SInv, TypeOK
  <2>2. Head(queue) \in Documents /\ Tail(queue) \in Seq(Documents)
    BY <2>1
  <2> QED
    BY <2>2 DEF IInv, SInv, TypeOK
<1>2. Course' /\ RecordIsHonest' /\ Leaving'
  BY BystanderStep
<1>3. Undisturbed' /\ Destroyed'
  BY DEF IInv, SInv, Undisturbed, Sending, Destroyed
<1>4. AbortedIsCanceled => Delivered'
  BY DEF IInv, Delivered, Printed
<1> QED
  BY <1>1, <1>2, <1>3, <1>4 DEF IInv, SInv

\* The device is closed when both threads are done.
LEMMA DestroyStep ==
  ASSUME IInv, Destroy
  PROVE  IInv'
<1> USE DEF Destroy, control, pappl, output, ghosts, printer
<1>1. TypeOK'
  <2>1. TypeOK
    BY DEF IInv, SInv
  <2>2. opened' \in BOOLEAN
    BY Zenon
  <2>3. state' \in DeviceStates /\ service' \in {"runs", "stops", "gone"}
    BY DEF DeviceStates
  <2> HIDE DEF DeviceStates
  <2> QED BY <2>1, <2>2, <2>3 DEF TypeOK
<1>2. Course' /\ RecordIsHonest' /\ Leaving'
  BY BystanderStep
<1>3. Undisturbed' /\ Destroyed'
  BY DEF IInv, SInv, Undisturbed, Sending, Destroyed
<1>4. AbortedIsCanceled => Delivered'
  BY DEF IInv, Delivered, Printed
<1> QED
  BY <1>1, <1>2, <1>3, <1>4 DEF IInv, SInv

\* A new job begins with nothing sent.
LEMMA StartStep ==
  ASSUME IInv, StartJob
  PROVE  IInv'
<1> USE DEF StartJob, device, threads, output, printer
<1>1. NewJob \in Jobs /\ NewJob.pages = 0 /\ NewJob.state = "ACCEPTED"
      /\ ~NewJob.sent
  BY ServiceAssumption DEF NewJob, Jobs, JobStates, RetryClasses
<1>2. TypeOK'
  <2>1. n' \in 0..JobLimit /\ job' \in Jobs
    BY <1>1, ServiceAssumption DEF IInv, SInv, TypeOK
  <2>2. at' \in Places /\ outcome' \in Outcomes /\ aborted' \in BOOLEAN
        /\ goal' \in {"prepare", "raster", "submit"}
    BY DEF IInv, SInv, TypeOK, Places, Outcomes
  <2>3. /\ state' \in DeviceStates /\ opened' \in BOOLEAN
        /\ imported' \in BOOLEAN
        /\ monitor' \in {"test", "sleep", "status", "stopped"}
        /\ service' \in {"runs", "stops", "gone"}
        /\ chunk' \in 0..ChunksPerPage
        /\ reason' \in {"none", "media", "fault", "offline"}
        /\ reconnected' \in BOOLEAN /\ reported' \in BOOLEAN
        /\ late' \in BOOLEAN /\ queue' \in Seq(Documents)
        /\ reports' \subseteq Documents
        /\ printed' \subseteq Documents /\ mistaken' \subseteq Documents
        /\ healthy' \in BOOLEAN
    BY DEF IInv, SInv, TypeOK
  <2>4. canceled' \in BOOLEAN /\ moved' \in BOOLEAN
    BY Zenon
  <2>5. overrun' \in 0..2
    OBVIOUS
  <2> QED
    BY <2>1, <2>2, <2>3, <2>4, <2>5 DEF TypeOK
<1>3. Course' /\ Leaving'
  BY <1>1 DEF IInv, SInv, TypeOK, Course, Announced, Sending, Leaving
<1>4. RecordIsHonest'
  BY <1>1 DEF RecordIsHonest
<1>5. Undisturbed' /\ Destroyed'
  BY DEF IInv, SInv, Undisturbed, Sending, Destroyed, stopping
<1>6. AbortedIsCanceled => Delivered'
  BY <1>1 DEF IInv, Delivered, Printed
<1> QED
  BY <1>2, <1>3, <1>4, <1>5, <1>6 DEF IInv, SInv

\* A poll hears that the page waited for was printed, or takes it for printed.
LEMMA HearingStep ==
  ASSUME TypeOK, Delivered, n' = n, job'.pages = job.pages, Counts,
         printed' = printed
  PROVE  /\ reports' \subseteq printed'
         /\ \A page \in 1..job'.pages :
              \/ Printed(page)'
              \/ page = job'.pages /\ at \in {"wait", "check"} /\ ~reported'
              \/ page = job'.pages /\ at \in {"end", "idle"} /\ aborted
         /\ ~LateReports => mistaken' = {}
<1>1. at \in {"wait", "check"} /\ ~reported /\ reported' => Printed(job.pages)'
  <2>1. Heard \subseteq printed
    BY DEF Heard, Delivered
  <2>2. CASE <<n, job.pages>> \in Heard
    BY <2>1, <2>2 DEF Printed
  <2>3. ASSUME at \in {"wait", "check"}, ~reported, reported',
               <<n, job.pages>> \notin Heard
        PROVE  Printed(job.pages)'
    <3>1. Heard # {} /\ mistaken' = mistaken \union Mistaken
      BY <2>3 DEF Counts
    <3>2. <<n, job.pages>> \in Mistaken
      BY <2>3, <3>1 DEF Mistaken
    <3> QED
      BY <3>1, <3>2 DEF Printed
  <2> QED
    BY <2>2, <2>3
<1>2. \A page : Printed(page) => Printed(page)'
  BY DEF Printed, Counts
<1>3. \A page \in 1..job'.pages :
        \/ Printed(page)'
        \/ page = job'.pages /\ at \in {"wait", "check"} /\ ~reported'
        \/ page = job'.pages /\ at \in {"end", "idle"} /\ aborted
  BY <1>1, <1>2 DEF Delivered
<1>4. ~LateReports => Mistaken = {}
  BY DEF Heard, Mistaken
<1> QED
  BY <1>3, <1>4 DEF Delivered, Counts

LEMMA MonitorStep ==
  ASSUME IInv, MonitorPrepares \/ MonitorPolls
  PROVE  IInv'
<1>2. /\ MutexFree /\ monitor # "stopped"
      /\ UNCHANGED <<service, control, job, pappl, late, ghosts, queue, printed,
                     healthy>>
      /\ Moved
      /\ monitor' \in {"test", "sleep", "status", "stopped"}
      /\ Counts
  <2>1. TypeOK
    BY DEF IInv, SInv
  <2>2. CASE MonitorPrepares
    <3>1. PICK e \in Possible(PrepareEndings) :
            Leave(e) /\ monitor' = IF e.category = "NONE" THEN "status" ELSE "test"
      BY <2>2 DEF MonitorPrepares
    <3>2. Moved /\ (reported' => reported)
      BY <2>1, <3>1, PrepareHolds, LeaveHolds, Zenon
    <3>3. monitor' \in {"test", "sleep", "status", "stopped"}
      BY <3>1
    <3> QED
      BY <2>2, <3>2, <3>3 DEF MonitorPrepares, printer, Counts
  <2>3. CASE MonitorPolls
    <3>1. PICK reasons : Poll(reasons)
      BY <2>3 DEF MonitorPolls
    <3>2. Moved /\ Counts /\ UNCHANGED <<queue, printed, healthy>>
      BY <2>1, <3>1, PollHolds
    <3> QED
      BY <2>3, <3>2 DEF MonitorPolls
  <2> QED
    BY <2>2, <2>3
<1>3. TypeOK'
  BY <1>2, MistakenHolds DEF IInv, SInv, TypeOK, Moved, Counts, control, pappl,
                             ghosts
<1>4. Course' /\ RecordIsHonest' /\ Leaving'
  BY <1>2, BystanderStep
<1>5. Undisturbed'
  BY <1>2 DEF MutexFree, Undisturbed, Sending, control
<1>6. Destroyed'
  BY <1>2 DEF IInv, SInv, Destroyed
<1>7. AbortedIsCanceled => Delivered'
  <2> SUFFICES ASSUME AbortedIsCanceled PROVE Delivered'
    OBVIOUS
  <2>1. TypeOK /\ Delivered
    BY DEF IInv, SInv
  <2>2. n' = n /\ job' = job /\ at' = at /\ aborted' = aborted /\ outcome' = outcome
    BY <1>2 DEF control, pappl
  <2> QED
    BY <1>2, <2>1, <2>2, HearingStep DEF Delivered
<1> QED
  BY <1>3, <1>4, <1>5, <1>6, <1>7 DEF IInv, SInv

-----------------------------------------------------------------------------
(* The steps of the job thread *)

\* Those that move no bytes leave the record honest,
LEMMA FollowingStep ==
  ASSUME IInv, Follows(job, job'), moved' = moved
  PROVE  RecordIsHonest' /\ job' \in Jobs
<1>1. (job.sent <=> moved) /\ Sound(job)
  BY Honesty DEF IInv, SInv
<1>2. job'.sent = job.sent /\ Sound(job') /\ job' \in Jobs
  BY <1>1 DEF Follows
<1>3. (job'.sent <=> moved') /\ Sound(job')
  BY <1>1, <1>2
<1> QED
  BY <1>2, <1>3 DEF RecordIsHonest, Sound

\* have these types,
ControlOK == /\ at \in Places /\ goal \in {"prepare", "raster", "submit"}
             /\ chunk \in 0..ChunksPerPage
             /\ reason \in {"none", "media", "fault", "offline"}
             /\ aborted \in BOOLEAN /\ outcome \in Outcomes

LEMMA ThreadTypes ==
  ASSUME TypeOK, UNCHANGED <<threads, n, canceled, printed, healthy>>,
         Moved, ControlOK', job' \in Jobs, late' \in BOOLEAN, moved' \in BOOLEAN,
         overrun' \in 0..2, queue' \in Seq(Documents), reports' \subseteq reports,
         mistaken' \subseteq Documents
  PROVE  TypeOK'
BY DEF TypeOK, threads, Moved, ControlOK

LEMMA StillMoved ==
  ASSUME TypeOK, UNCHANGED <<device, reconnected, reported>>
  PROVE  Moved
BY DEF TypeOK, device, Moved

LEMMA ControlHolds ==
  ASSUME TypeOK
  PROVE  /\ PageFails => ControlOK'
         /\ aborted' = TRUE /\ Over(TRUE) => ControlOK'
         /\ \A place \in Places : Goto(place) => ControlOK'
         /\ \A place \in {"raster", "submit"} : WaitUntilReady(place) => ControlOK'
<1>1. ASSUME PageFails PROVE ControlOK'
  <2>1. aborted' \in BOOLEAN
    BY <1>1, Zenon DEF PageFails
  <2> QED
    BY <1>1, <2>1 DEF PageFails, ControlOK, TypeOK, Places
<1>2. ASSUME aborted' = TRUE, Over(TRUE) PROVE ControlOK'
  <2>1. aborted' \in BOOLEAN
    BY <1>2, Zenon
  <2> QED
    BY <1>2, <2>1 DEF Over, ControlOK, TypeOK, Places, Outcomes
<1>3. ASSUME NEW place \in Places, Goto(place) PROVE ControlOK'
  BY <1>3 DEF Goto, pappl, ControlOK, TypeOK
<1>4. ASSUME NEW place \in {"raster", "submit"}, WaitUntilReady(place)
      PROVE  ControlOK'
  BY <1>4 DEF WaitUntilReady, pappl, ControlOK, TypeOK, Places
<1> QED
  BY <1>1, <1>2, <1>3, <1>4

\* and end like this when a page callback fails
LEMMA FailingStep ==
  ASSUME IInv, at \notin {"idle", "end"}, PageFails,
         job'.pages = job.pages, job'.state # "COMPLETED",
         UNCHANGED <<threads, overrun, reports, printed, mistaken>>
  PROVE  /\ Course' /\ Leaving' /\ Undisturbed' /\ Destroyed'
         /\ AbortedIsCanceled => Delivered'
<1> USE DEF PageFails, threads
<1>1. Course'
  BY DEF IInv, SInv, Course, Announced, Sending
<1>2. Leaving' /\ Undisturbed' /\ Destroyed'
  BY DEF IInv, SInv, Leaving, Undisturbed, Sending, Destroyed
<1>3. AbortedIsCanceled => Delivered'
  BY DEF IInv, Delivered, Printed
<1> QED
  BY <1>1, <1>2, <1>3

\* or hplj_rstartjob.
LEMMA AbandoningStep ==
  ASSUME IInv, at \notin {"idle", "end"}, aborted' = TRUE, Over(TRUE),
         job'.pages = job.pages, job'.state # "COMPLETED",
         UNCHANGED <<threads, overrun, reports, printed, mistaken>>
  PROVE  /\ Course' /\ Leaving' /\ Undisturbed' /\ Destroyed'
         /\ AbortedIsCanceled => Delivered'
<1> USE DEF Over, threads
<1>1. Course'
  BY DEF Course, Announced, Sending
<1>2. Leaving' /\ Undisturbed' /\ Destroyed'
  BY DEF IInv, SInv, Leaving, Undisturbed, Sending, Destroyed
<1>3. AbortedIsCanceled => Delivered'
  BY DEF IInv, Delivered, Printed
<1> QED
  BY <1>1, <1>2, <1>3

LEMMA NotReadyStep ==
  ASSUME IInv, NotReady
  PROVE  IInv'
<1>1. TypeOK /\ job \in Jobs /\ job.state # "COMPLETED"
  BY DEF IInv, SInv, TypeOK, Course, NotReady
<1>2. RecordIsHonest' /\ job' \in Jobs
  BY <1>1, FollowingStep, LifecycleFollows DEF NotReady, ghosts
<1>3. ControlOK' /\ UNCHANGED <<n, canceled>>
  BY <1>1, ControlHolds DEF NotReady, PageFails, Over
<1>4. TypeOK'
  BY <1>1, <1>2, <1>3, StillMoved, ThreadTypes
     DEF NotReady, output, ghosts, printer, TypeOK
<1>5. /\ Course' /\ Leaving' /\ Undisturbed' /\ Destroyed'
      /\ AbortedIsCanceled => Delivered'
  BY <1>1, FailingStep, AbandoningStep DEF NotReady, ghosts, printer
<1> QED
  BY <1>2, <1>4, <1>5 DEF IInv, SInv

\* A step of the job thread that is not one of a transfer keeps these, wherever
\* it goes;
LEMMA RunningStep ==
  ASSUME IInv, at # "idle", at' \notin {"idle", "chunk", "write"},
         UNCHANGED <<threads, overrun, canceled>>
  PROVE  Leaving' /\ Undisturbed' /\ Destroyed'
BY DEF IInv, SInv, Leaving, Undisturbed, Sending, Destroyed, threads

\* and where nothing of the document is waited for, every page counted was
\* printed.
LEMMA PrintedSoFar ==
  ASSUME Delivered, at \notin {"wait", "check", "end", "idle"},
         UNCHANGED <<n, printed, mistaken>>, job'.pages = job.pages,
         at' # "idle", reports' \subseteq reports
  PROVE  Delivered'
BY DEF Delivered, Printed

\* hplj_wait_for_ready prepares the device and looks at its status.
LEMMA PrepareDeviceStep ==
  ASSUME IInv, PrepareDevice
  PROVE  IInv'
<1> USE DEF PrepareDevice
<1>1. TypeOK /\ job \in Jobs
  BY DEF IInv, SInv, TypeOK
<1>2. PICK e \in Possible(PrepareEndings) :
        /\ Leave(e)
        /\ Goto(IF e.category = "NONE" THEN "ready_status" ELSE "ready")
  OBVIOUS
<1>3. Moved
  BY <1>1, <1>2, PrepareHolds, LeaveHolds, Zenon
<1>4. at' \in {"ready", "ready_status"} /\ UNCHANGED <<goal, chunk, reason, pappl>>
  BY <1>2 DEF Goto
<1>5. ControlOK'
  BY <1>1, <1>4 DEF ControlOK, TypeOK, Places, pappl
<1>6. TypeOK'
  BY <1>1, <1>3, <1>4, <1>5, ThreadTypes DEF TypeOK, ghosts, printer, pappl
<1>7. Course'
  BY <1>4 DEF IInv, SInv, Course, Announced, Sending, pappl
<1>8. RecordIsHonest'
  BY <1>1, FollowingStep, LifecycleFollows DEF ghosts
<1>9. Leaving' /\ Undisturbed' /\ Destroyed'
  BY <1>4, RunningStep DEF ghosts, pappl
<1>10. AbortedIsCanceled => Delivered'
  BY <1>4, PrintedSoFar DEF IInv, printer, pappl
<1> QED
  BY <1>6, <1>7, <1>8, <1>9, <1>10 DEF IInv, SInv

LEMMA ReadyStatusStep ==
  ASSUME IInv, ReadyStatus
  PROVE  IInv'
<1> USE DEF ReadyStatus
<1>1. TypeOK /\ job \in Jobs /\ job.state # "COMPLETED"
  BY DEF IInv, SInv, TypeOK, Course
<1>2. PICK reasons \in {"none", "media", "fault", "offline"} :
        /\ Poll(reasons)
        /\ Goto(IF reasons = "none" THEN goal ELSE "ready")
        /\ job' = IF goal = "prepare" THEN job
                  ELSE IF reasons = "none" THEN MediaResumed(job)
                  ELSE WaitingForMedia(job, reasons)
  OBVIOUS
<1>3. Follows(job, job')
  BY <1>1, <1>2, LifecycleFollows
<1>4. /\ Moved /\ reports' \subseteq reports
      /\ UNCHANGED <<queue, printed, mistaken, healthy>>
  <2>1. Moved /\ Counts /\ UNCHANGED <<queue, printed, healthy>>
    BY <1>1, <1>2, PollHolds
  <2>2. Mistaken = {}
    BY MistakenHolds
  <2> QED
    BY <2>1, <2>2 DEF Counts
<1>5. /\ at' \in {"ready", goal} /\ UNCHANGED <<goal, chunk, reason, pappl>>
      /\ goal \in {"prepare", "raster", "submit"}
  BY <1>1, <1>2 DEF Goto, TypeOK
<1>6. ControlOK'
  BY <1>1, <1>5 DEF ControlOK, TypeOK, Places, pappl
<1>7. RecordIsHonest' /\ job' \in Jobs
  BY <1>3, FollowingStep DEF ghosts
<1>8. TypeOK'
  BY <1>1, <1>4, <1>5, <1>6, <1>7, ThreadTypes DEF TypeOK, ghosts, pappl
<1>9. Course'
  BY <1>1, <1>3, <1>5 DEF IInv, SInv, Course, Announced, Sending, pappl, Follows
<1>10. Leaving' /\ Undisturbed' /\ Destroyed'
  BY <1>5, RunningStep DEF ghosts, pappl
<1>11. AbortedIsCanceled => Delivered'
  BY <1>3, <1>4, <1>5, PrintedSoFar DEF IInv, pappl, Follows
<1> QED
  BY <1>7, <1>8, <1>9, <1>10, <1>11 DEF IInv, SInv

\* hplj_job_prepare holds or fails the job, without a byte sent.
LEMMA PrepareJobStep ==
  ASSUME IInv, PrepareJob
  PROVE  IInv'
<1> USE DEF PrepareJob
<1>1. TypeOK /\ job \in Jobs /\ job.state # "COMPLETED"
  BY DEF IInv, SInv, TypeOK, Course
<1>2. CASE canceled
  <2>1. /\ job' = Failed(job, "CANCELLED", "NEVER", 0)
        /\ aborted' = TRUE /\ Over(TRUE)
        /\ UNCHANGED <<device, reconnected, reported>>
    BY <1>2
  <2>4. "NEVER" \in RetryClasses
    BY DEF RetryClasses
  <2>5. Follows(job, job')
    BY <1>1, <2>1, <2>4, FailedFollows
  <2>6. job'.state # "COMPLETED"
    BY <1>1, <2>5 DEF Follows
  <2>2. RecordIsHonest' /\ job' \in Jobs
    BY <2>5, FollowingStep DEF ghosts
  <2>3. TypeOK'
    BY <1>1, <2>1, <2>2, ControlHolds, StillMoved, ThreadTypes
       DEF TypeOK, ghosts, printer, Over
  <2> QED
    BY <2>1, <2>2, <2>3, <2>5, <2>6, AbandoningStep
       DEF IInv, SInv, Follows, ghosts, printer
<1>3. CASE ~canceled
  <2>1. PICK e \in Possible(JobPrepareEndings) :
          /\ Leave(e)
          /\ \/ /\ e.category = "NONE"
                /\ job' = Prepared(job)
                /\ Goto("page")
             \/ /\ e.category # "NONE"
                /\ job' = HeldOrFailed(e)
                /\ aborted' = TRUE /\ Over(TRUE)
    BY <1>3
  <2>2. Result(e) /\ e.bytes = 0
    BY <1>1, JobPrepareHolds
  <2>3. Moved
    BY <1>1, <2>1, <2>2, LeaveHolds, Zenon
  <2>4. e.retry \in RetryClasses
    BY <2>2 DEF Result
  <2>5. Follows(job, HeldOrFailed(e))
    BY <1>1, <2>2, <2>4, InStateFollows, FailedFollows DEF HeldOrFailed
  <2>6. Follows(job, job')
    BY <1>1, <2>1, <2>5, LifecycleFollows
  <2>10. job'.state # "COMPLETED"
    BY <1>1, <2>6 DEF Follows
  <2>7. RecordIsHonest' /\ job' \in Jobs
    BY <2>6, FollowingStep DEF ghosts
  <2>8. CASE Goto("page")
    <3>1. at' = "page" /\ UNCHANGED <<goal, chunk, reason, pappl>>
      BY <2>8 DEF Goto
    <3>2. ControlOK'
      BY <1>1, <2>8, ControlHolds DEF Places
    <3>3. TypeOK'
      BY <1>1, <2>3, <2>7, <3>1, <3>2, ThreadTypes DEF TypeOK, ghosts, printer, pappl
    <3>4. Course'
      BY <2>10, <3>1 DEF IInv, SInv, Course, Announced, Sending, pappl
    <3>5. Leaving' /\ Undisturbed' /\ Destroyed'
      BY <3>1, RunningStep DEF ghosts, pappl
    <3>6. AbortedIsCanceled => Delivered'
      BY <2>6, <3>1, PrintedSoFar DEF IInv, pappl, printer, Follows
    <3> QED
      BY <2>7, <3>3, <3>4, <3>5, <3>6 DEF IInv, SInv
  <2>9. CASE aborted' = TRUE /\ Over(TRUE)
    <3>1. TypeOK'
      BY <1>1, <2>3, <2>7, <2>9, ControlHolds, ThreadTypes
         DEF TypeOK, ghosts, printer, Over
    <3> QED
      BY <2>6, <2>7, <2>9, <2>10, <3>1, AbandoningStep
         DEF IInv, SInv, Follows, ghosts, printer
  <2> QED
    BY <2>1, <2>8, <2>9
<1> QED
  BY <1>2, <1>3

\* A page begins, or the document ends; rows arrive.
LEMMA PageStep ==
  ASSUME IInv, NextPage \/ Raster
  PROVE  IInv'
<1>1. /\ at \in {"page", "raster"} /\ UNCHANGED <<device, threads, job, output,
                                               ghosts, printer>>
      /\ TypeOK /\ job \in Jobs /\ job.state # "COMPLETED"
  BY DEF NextPage, Raster, IInv, SInv, TypeOK, Course
<1>2. RecordIsHonest' /\ job' \in Jobs
  BY <1>1, FollowingStep, LifecycleFollows DEF ghosts
<1>3. ASSUME ControlOK', n' = n, canceled' = canceled PROVE TypeOK'
  BY <1>1, <1>2, <1>3, StillMoved, ThreadTypes DEF TypeOK, output, ghosts, printer
<1>4. CASE PageFails
  <2>1. TypeOK'
    BY <1>1, <1>3, <1>4, ControlHolds DEF PageFails
  <2> QED
    BY <1>1, <1>2, <1>4, <2>1, FailingStep DEF IInv, SInv, ghosts, printer
<1>5. CASE \E place \in {"raster", "submit"} :
             job.pages < PagesLimit /\ WaitUntilReady(place)
  <2>1. PICK place \in {"raster", "submit"} : WaitUntilReady(place)
    BY <1>5
  <2>2. ControlOK' /\ at' = "ready" /\ UNCHANGED pappl
    BY <1>1, <2>1, ControlHolds DEF WaitUntilReady
  <2>3. TypeOK'
    BY <1>3, <2>2 DEF pappl
  <2>4. Course'
    BY <1>1, <1>5, <2>2 DEF IInv, SInv, Course, Announced, Sending, pappl
  <2>5. Leaving' /\ Undisturbed' /\ Destroyed'
    BY <1>1, <2>2, RunningStep DEF ghosts, pappl
  <2>6. AbortedIsCanceled => Delivered'
    BY <1>1, <2>2, PrintedSoFar DEF IInv, printer, pappl
  <2> QED
    BY <1>2, <2>3, <2>4, <2>5, <2>6 DEF IInv, SInv
<1>6. CASE at = "page" /\ Goto("end")
  <2>1. ControlOK' /\ at' = "end" /\ UNCHANGED pappl
    BY <1>1, <1>6, ControlHolds DEF Goto, Places
  <2>2. TypeOK'
    BY <1>3, <2>1 DEF pappl
  <2>3. Course'
    BY <1>1, <2>1 DEF IInv, SInv, Course, Announced, Sending, pappl
  <2>4. Leaving' /\ Undisturbed' /\ Destroyed'
    BY <1>1, <2>1, RunningStep DEF ghosts, pappl
  <2>5. AbortedIsCanceled => Delivered'
    BY <1>1, <1>6, <2>1, PrintedSoFar DEF IInv, printer, pappl
  <2> QED
    BY <1>2, <2>2, <2>3, <2>4, <2>5 DEF IInv, SInv
<1>7. at = "raster" => job.pages < PagesLimit
  BY DEF IInv, SInv, Course, Announced
<1> QED
  BY <1>4, <1>5, <1>6, <1>7 DEF NextPage, Raster

\* hplj_rendpage takes its snapshot, and the page is transmitted or refused.
LEMMA SubmitPageStep ==
  ASSUME IInv, SubmitPage
  PROVE  IInv'
<1>1. /\ TypeOK /\ job \in Jobs /\ job.state # "COMPLETED" /\ at = "submit"
      /\ UNCHANGED <<device, threads, late, ghosts, printer, n, canceled>>
      /\ reconnected' = FALSE /\ reported' = FALSE
  BY DEF SubmitPage, IInv, SInv, TypeOK, Course, PageFails, pappl
<1>2. Moved
  <2>1. reconnected' \in BOOLEAN /\ reported' \in BOOLEAN
    BY <1>1, Zenon
  <2> QED
    BY <1>1, <2>1 DEF Moved, TypeOK, device
<1>3. ASSUME ControlOK', job' \in Jobs PROVE TypeOK'
  BY <1>1, <1>2, <1>3, ThreadTypes DEF TypeOK, ghosts, printer
<1>4. CASE PageFails
  <2>1. {"SAFE_AUTOMATIC", "NEVER"} \subseteq RetryClasses
    BY DEF RetryClasses
  <2>2. \/ job' = job
        \/ job' = Failed(job, "CANCELLED", "NEVER", 0)
        \/ job' = Failed(job, "ENCODING_FAILED", "SAFE_AUTOMATIC", 0)
    BY <1>4 DEF SubmitPage, PageFails
  <2>3. Follows(job, job')
    BY <1>1, <2>1, <2>2, LifecycleFollows, FailedFollows
  <2>4. RecordIsHonest' /\ job' \in Jobs
    BY <1>1, <2>3, FollowingStep DEF ghosts
  <2>5. job'.pages = job.pages /\ job'.state # "COMPLETED"
    BY <1>1, <2>3 DEF Follows
  <2>6. TypeOK'
    BY <1>1, <1>3, <1>4, <2>4, ControlHolds
  <2> QED
    BY <1>1, <1>4, <2>4, <2>5, <2>6, FailingStep DEF IInv, SInv, ghosts, printer
<1>5. CASE ~PageFails
  <2>1. /\ ~canceled /\ job' = Transmitting(job)
        /\ at' = "chunk" /\ chunk' = 0 /\ UNCHANGED <<goal, reason, pappl>>
    BY <1>5 DEF SubmitPage
  <2>2. Follows(job, job') /\ job'.state = "TRANSMITTING"
    BY <1>1, <2>1, LifecycleFollows
  <2>3. RecordIsHonest' /\ job' \in Jobs
    BY <1>1, <2>2, FollowingStep DEF ghosts
  <2>4. ControlOK'
    BY <1>1, <2>1, ServiceAssumption DEF ControlOK, TypeOK, Places, pappl
  <2>5. Course'
    BY <1>1, <2>1, <2>2, ServiceAssumption
       DEF IInv, SInv, Course, Announced, Sending, pappl, Follows
  <2>6. Leaving' /\ Undisturbed' /\ Destroyed'
    BY <1>1, <2>1 DEF IInv, SInv, Leaving, Undisturbed, Sending, Destroyed,
                      threads, ghosts
  <2>7. AbortedIsCanceled => Delivered'
    BY <1>1, <2>1, <2>2, PrintedSoFar DEF IInv, pappl, printer, Follows
  <2> QED
    BY <1>3, <2>3, <2>4, <2>5, <2>6, <2>7 DEF IInv, SInv
<1> QED
  BY <1>4, <1>5

\* A chunk is begun only without a cancellation before it.
LEMMA TestCancelStep ==
  ASSUME IInv, TestCancel
  PROVE  IInv'
<1>1. /\ TypeOK /\ job \in Jobs /\ job.state # "COMPLETED" /\ at = "chunk"
      /\ UNCHANGED <<device, threads, output, ghosts, printer, n, canceled>>
  BY DEF TestCancel, IInv, SInv, TypeOK, Course, PageFails, Goto, pappl
<1>2. ASSUME ControlOK', job' \in Jobs PROVE TypeOK'
  BY <1>1, <1>2, StillMoved, ThreadTypes DEF TypeOK, output, ghosts, printer
<1>3. CASE canceled
  <2>1. "NEVER" \in RetryClasses
    BY DEF RetryClasses
  <2>2. PageFails /\ Follows(job, job')
    BY <1>1, <1>3, <2>1, FailedFollows DEF TestCancel
  <2>3. RecordIsHonest' /\ job' \in Jobs
    BY <1>1, <2>2, FollowingStep DEF ghosts
  <2>4. job'.pages = job.pages /\ job'.state # "COMPLETED"
    BY <1>1, <2>2 DEF Follows
  <2>5. TypeOK'
    BY <1>1, <1>2, <2>2, <2>3, ControlHolds
  <2> QED
    BY <1>1, <2>2, <2>3, <2>4, <2>5, FailingStep DEF IInv, SInv, ghosts, printer
<1>4. CASE ~canceled
  <2>1. Goto("write") /\ job' = job
    BY <1>4 DEF TestCancel
  <2>2. at' = "write" /\ UNCHANGED <<goal, chunk, reason, pappl>>
    BY <2>1 DEF Goto
  <2>3. TypeOK'
    BY <1>1, <1>2, <2>1, ControlHolds DEF Places
  <2>4. Course'
    BY <1>1, <2>1, <2>2 DEF IInv, SInv, Course, Announced, Sending, pappl
  <2>5. RecordIsHonest'
    BY <1>1, <2>1, FollowingStep, LifecycleFollows DEF ghosts
  <2>6. Leaving'
    BY <1>1, <1>4, <2>2 DEF IInv, SInv, TypeOK, Leaving, ghosts, pappl
  <2>7. Undisturbed' /\ Destroyed'
    BY <1>1, <2>2 DEF IInv, SInv, Undisturbed, Sending, Destroyed, threads,
                      device, output
  <2>8. AbortedIsCanceled => Delivered'
    BY <1>1, <2>1, <2>2, PrintedSoFar DEF IInv, pappl, printer
  <2> QED
    BY <2>3, <2>4, <2>5, <2>6, <2>7, <2>8 DEF IInv, SInv
<1> QED
  BY <1>3, <1>4

\* The record of a job whose transfer was accepted
LEMMA SentHolds ==
  ASSUME NEW j \in Jobs
  PROVE  LET k == [j EXCEPT !.sent = TRUE]
         IN  k \in Jobs /\ k.sent /\ k.pages = j.pages /\ k.state = j.state
<1>1. [j EXCEPT !.sent = TRUE] \in Jobs
  BY DEF Jobs
<1> QED
  BY <1>1 DEF Jobs

LEMMA PageTransmittedHolds ==
  ASSUME NEW j \in Jobs, j.pages < PagesLimit
  PROVE  LET k == PageTransmitted(j)
         IN  /\ k \in Jobs /\ k.sent = j.sent /\ k.pages = j.pages + 1
             /\ k.state = "PREPARING"
<1> PagesLimit \in Nat
  BY ServiceAssumption
<1> DEFINE i == InState(j, "PREPARING", "SAFE_AUTOMATIC")
<1>1. "PREPARING" \in JobStates /\ "SAFE_AUTOMATIC" \in RetryClasses
  BY DEF JobStates, RetryClasses
<1>2. i \in Jobs /\ i.pages = j.pages /\ i.state = "PREPARING"
  BY <1>1, InStateHolds
<1>3. i.sent = j.sent
  BY <1>1, InStateHolds
<1>4. PageTransmitted(j) = [i EXCEPT !.pages = i.pages + 1]
  BY <1>2 DEF PageTransmitted, Jobs
<1> HIDE DEF i
<1>5. i.pages + 1 \in 0..PagesLimit
  BY <1>2 DEF Jobs
<1>6. PageTransmitted(j) \in Jobs
  BY <1>2, <1>4, <1>5 DEF Jobs
<1>7. PageTransmitted(j).sent = i.sent
  BY <1>2, <1>4 DEF Jobs
<1>8. PageTransmitted(j).pages = i.pages + 1 /\ PageTransmitted(j).state = i.state
  BY <1>2, <1>4 DEF Jobs
<1> QED
  BY <1>2, <1>3, <1>6, <1>7, <1>8

\* A transfer that is accepted, and the last one of a page
LEMMA ChunkSentStep ==
  ASSUME IInv, at = "write", state = "READY", ChunkSent, Moved,
         NEW e \in Possible(SendEndings), e.category = "NONE", Leave(e),
         UNCHANGED <<threads, reports, printed, mistaken, healthy>>
  PROVE  IInv'
<1> DEFINE sent == [job EXCEPT !.sent = TRUE]
<1> USE DEF ChunkSent
<1>1. /\ TypeOK /\ job \in Jobs /\ job.pages < PagesLimit /\ ~reconnected
      /\ ~reported /\ overrun = 0 /\ n > 0 /\ outcome = "none" /\ ~aborted
      /\ job.state = "TRANSMITTING" /\ chunk < ChunksPerPage
      /\ service # "gone"
  BY DEF IInv, SInv, TypeOK, Course, Announced, Sending, Leaving, Undisturbed,
         Destroyed
<1>2. /\ state' = "READY" /\ opened' = TRUE /\ ~reconnected' /\ ~reported'
  <2>1. Result(e) /\ e.status = "READY" /\ e.held
    BY SendHolds
  <2>2. reconnected' = reconnected /\ reported' = reported
    BY <1>1, <2>1, LeaveHolds
  <2>3. e.held = TRUE
    BY <2>1 DEF Result
  <2> QED
    BY <1>1, <2>1, <2>2, <2>3 DEF Leave
<1>3. sent \in Jobs /\ sent.sent /\ sent.pages = job.pages /\ sent.state = job.state
  BY <1>1, SentHolds
<1>4. UNCHANGED <<goal, reason, n, canceled, aborted, outcome>>
  BY DEF pappl
<1>5. /\ overrun' \in {0, 1} /\ (overrun' = 1 => canceled)
      /\ moved' = TRUE
  BY <1>1
<1>6. moved' \in BOOLEAN
  BY <1>5, Zenon
<1> HIDE DEF sent
<1>9. chunk \in Nat /\ ChunksPerPage \in Nat
  BY <1>1, ServiceAssumption DEF TypeOK
<1>7. CASE chunk + 1 < ChunksPerPage
  <2>1. /\ job' = sent /\ chunk' = chunk + 1 /\ at' = "chunk"
        /\ UNCHANGED <<queue, late>>
    BY <1>7, <1>9 DEF sent
  <2>2. ControlOK'
    BY <1>1, <1>4, <1>7, <2>1, ServiceAssumption DEF ControlOK, TypeOK, Places
  <2>3. TypeOK'
    BY <1>1, <1>3, <1>4, <1>5, <1>6, <2>1, <2>2, ThreadTypes DEF TypeOK
  <2>4. Course'
    BY <1>1, <1>3, <1>4, <1>7, <2>1, ServiceAssumption
       DEF Course, Announced, Sending, TypeOK
  <2>5. RecordIsHonest'
    BY <1>1, <1>3, <1>5, <2>1 DEF RecordIsHonest
  <2>6. Leaving' /\ Undisturbed' /\ Destroyed'
    BY <1>1, <1>2, <1>4, <1>5, <2>1
       DEF Leaving, Undisturbed, Sending, Destroyed, threads
  <2>7. AbortedIsCanceled => Delivered'
    BY <1>3, <1>4, <2>1, PrintedSoFar DEF IInv
  <2> QED
    BY <2>3, <2>4, <2>5, <2>6, <2>7 DEF IInv, SInv
<1>8. CASE chunk + 1 = ChunksPerPage
  <2>1. /\ job' = PageTransmitted(sent) /\ chunk' = 0 /\ at' = "wait"
        /\ queue' = Append(queue, <<n, job.pages + 1>>)
        /\ late' = FALSE
    BY <1>8, <1>9 DEF sent
  <2>2. /\ job' \in Jobs /\ job'.pages = job.pages + 1
        /\ job'.state = "PREPARING"
    BY <1>1, <1>3, <2>1, PageTransmittedHolds
  <2>3. job'.sent
    BY <1>1, <1>3, <2>1, PageTransmittedHolds
  <2>4. ControlOK'
    BY <1>1, <1>4, <2>1, ServiceAssumption DEF ControlOK, TypeOK, Places
  <2>5. late' \in BOOLEAN
    BY <2>1, Zenon
  <2>6. queue' \in Seq(Documents)
    <3>1. n \in 1..JobLimit /\ job.pages + 1 \in 1..PagesLimit
      BY <1>1, ServiceAssumption DEF TypeOK, Jobs
    <3>2. <<n, job.pages + 1>> \in Documents
      BY <3>1 DEF Documents
    <3>3. queue \in Seq(Documents)
      BY <1>1 DEF TypeOK
    <3> QED
      BY <2>1, <3>2, <3>3
  <2>7. TypeOK'
    BY <1>1, <1>4, <1>5, <1>6, <2>2, <2>4, <2>5, <2>6, ThreadTypes DEF TypeOK
  <2>8. job.pages \in Nat
    BY <1>1 DEF Jobs
  <2>9. Course'
    BY <1>1, <1>4, <2>1, <2>2, <2>8 DEF Course, Announced, Sending
  <2>10. RecordIsHonest'
    BY <1>5, <2>2, <2>3 DEF RecordIsHonest
  <2>11. Leaving' /\ Undisturbed' /\ Destroyed'
    BY <1>1, <1>4, <1>5, <2>1 DEF Leaving, Undisturbed, Sending, Destroyed, threads
  <2>12. AbortedIsCanceled => Delivered'
    <3> SUFFICES ASSUME AbortedIsCanceled PROVE Delivered'
      OBVIOUS
    <3>1. \A page \in 1..job.pages : <<n, page>> \in printed \union mistaken
      BY DEF IInv, Delivered, Printed
    <3>2. reports \subseteq printed /\ (~LateReports => mistaken = {})
      BY DEF IInv, Delivered
    <3> QED
      BY <1>2, <1>4, <2>1, <2>2, <2>8, <3>1, <3>2 DEF Delivered, Printed
  <2> QED
    BY <2>7, <2>9, <2>10, <2>11, <2>12 DEF IInv, SInv
<1> QED
  BY <1>7, <1>8

\* One that is not ends the job, with the bytes it has moved counted.
LEMMA SendChunkStep ==
  ASSUME IInv, SendChunk
  PROVE  IInv'
<1>1. /\ TypeOK /\ job \in Jobs /\ job.state # "COMPLETED" /\ at = "write"
      /\ UNCHANGED <<threads, reports, printed, mistaken, healthy>>
  BY DEF SendChunk, IInv, SInv, TypeOK, Course
<1>2. CASE state # "READY"
  <2>1. /\ job' = Failed(job, "INVALID_STATE", "NEVER", 0) /\ PageFails
        /\ UNCHANGED <<device, output, ghosts, queue>>
    BY <1>2 DEF SendChunk
  <2>2. "NEVER" \in RetryClasses
    BY DEF RetryClasses
  <2>3. Follows(job, job')
    BY <1>1, <2>1, <2>2, FailedFollows
  <2>4. RecordIsHonest' /\ job' \in Jobs
    BY <2>1, <2>3, FollowingStep DEF ghosts
  <2>5. job'.pages = job.pages /\ job'.state # "COMPLETED"
    BY <1>1, <2>3 DEF Follows
  <2>6. TypeOK'
    BY <1>1, <2>1, <2>4, ControlHolds, StillMoved, ThreadTypes
       DEF TypeOK, output, ghosts, PageFails
  <2> QED
    BY <1>1, <2>1, <2>4, <2>5, <2>6, FailingStep DEF IInv, SInv, ghosts
<1>3. CASE state = "READY"
  <2>1. PICK e \in Possible(SendEndings) :
          /\ Leave(e)
          /\ \/ e.category = "NONE" /\ ChunkSent
             \/ e.category # "NONE" /\ ChunkFailed(e)
    BY <1>3 DEF SendChunk
  <2>2. Moved
    BY <1>1, <2>1, SendHolds, LeaveHolds, Zenon
  <2>3. CASE e.category = "NONE" /\ ChunkSent
    BY <1>1, <1>3, <2>1, <2>2, <2>3, ChunkSentStep
  <2>4. CASE ChunkFailed(e)
    <3>1. /\ job' = Failed(job, e.category, e.retry, e.bytes) /\ PageFails
          /\ UNCHANGED <<overrun, queue, late>>
          /\ moved' = (moved \/ e.bytes > 0)
      BY <2>4 DEF ChunkFailed
    <3>2. e.retry \in RetryClasses /\ e.bytes \in Nat
      BY SendHolds DEF Result
    <3>3. /\ job' \in Jobs /\ job'.pages = job.pages
          /\ job'.sent <=> job.sent \/ e.bytes > 0
          /\ Sound(job') /\ job'.state # "COMPLETED"
      BY <1>1, <3>1, <3>2, FailedHolds
    <3>4. moved' \in BOOLEAN
      BY <3>1
    <3>5. RecordIsHonest'
      <4>1. job.sent <=> moved
        BY DEF IInv, SInv, RecordIsHonest
      <4>2. job'.sent <=> moved'
        BY <3>1, <3>3, <4>1
      <4> QED
        BY <3>3, <4>2 DEF RecordIsHonest, Sound
    <3>6. TypeOK'
      BY <1>1, <2>2, <3>1, <3>3, <3>4, ControlHolds, ThreadTypes
         DEF TypeOK, PageFails
    <3> QED
      BY <1>1, <3>1, <3>3, <3>5, <3>6, FailingStep DEF IInv, SInv
  <2> QED
    BY <2>1, <2>3, <2>4
<1> QED
  BY <1>2, <1>3

\* hplj_wait_for_output polls until it is told to stop,
LEMMA PollOutputStep ==
  ASSUME IInv, PollOutput
  PROVE  IInv'
<1>1. /\ TypeOK /\ job \in Jobs /\ job.state # "COMPLETED" /\ at = "wait"
      /\ UNCHANGED <<threads, late, ghosts>>
  BY DEF PollOutput, IInv, SInv, TypeOK, Course
<1>2. CASE GivesUp
  <2>1. /\ job' = Canceled(job) /\ PageFails
        /\ UNCHANGED <<device, reconnected, reported, printer>>
    BY <1>2 DEF PollOutput
  <2>2. Follows(job, job')
    BY <1>1, <2>1, LifecycleFollows
  <2>3. RecordIsHonest' /\ job' \in Jobs
    BY <1>1, <2>2, FollowingStep DEF ghosts
  <2>4. job'.pages = job.pages /\ job'.state # "COMPLETED"
    BY <1>1, <2>2 DEF Follows
  <2>5. TypeOK'
    BY <1>1, <2>1, <2>3, ControlHolds, StillMoved, ThreadTypes
       DEF TypeOK, ghosts, printer, PageFails
  <2> QED
    BY <1>1, <2>1, <2>3, <2>4, <2>5, FailingStep DEF IInv, SInv, ghosts, printer
<1>3. CASE ~GivesUp
  <2>1. /\ Poll(reason') /\ reason' \in {"none", "media", "fault", "offline"}
        /\ at' = "check" /\ UNCHANGED <<job, goal, chunk, pappl>>
    BY <1>3 DEF PollOutput
  <2>2. Moved /\ Counts /\ UNCHANGED <<queue, printed, healthy>>
    BY <1>1, <2>1, PollHolds
  <2>3. ControlOK'
    BY <1>1, <2>1 DEF ControlOK, TypeOK, Places, pappl
  <2>9. reports' \subseteq reports /\ mistaken' \subseteq Documents
    BY <1>1, <2>2, MistakenHolds DEF Counts, TypeOK
  <2>4. TypeOK'
    BY <1>1, <2>1, <2>2, <2>3, <2>9, ThreadTypes DEF TypeOK, ghosts, pappl
  <2>5. Course'
    BY <1>1, <2>1 DEF IInv, SInv, Course, Announced, Sending, pappl
  <2>6. RecordIsHonest'
    BY <1>1, <2>1, FollowingStep, LifecycleFollows DEF ghosts
  <2>7. Leaving' /\ Undisturbed' /\ Destroyed'
    BY <1>1, <2>1, RunningStep DEF ghosts, pappl
  <2>8. AbortedIsCanceled => Delivered'
    <3> SUFFICES ASSUME AbortedIsCanceled PROVE Delivered'
      OBVIOUS
    <3>1. Delivered /\ n' = n /\ job'.pages = job.pages
      BY <2>1 DEF IInv, pappl
    <3> QED
      BY <1>1, <2>1, <2>2, <3>1, HearingStep DEF Delivered
  <2> QED
    BY <2>4, <2>5, <2>6, <2>7, <2>8 DEF IInv, SInv
<1> QED
  BY <1>2, <1>3

\* and goes on to the next page when the connection has lasted and a report was
\* heard.
LEMMA CheckOutputStep ==
  ASSUME IInv, CheckOutput
  PROVE  IInv'
<1>1. /\ TypeOK /\ job \in Jobs /\ job.state # "COMPLETED" /\ at = "check"
      /\ UNCHANGED <<device, threads, reconnected, reported, ghosts, printer>>
  BY DEF CheckOutput, IInv, SInv, TypeOK, Course
<1>2. /\ Follows(job, job')
      /\ \/ PageFails /\ UNCHANGED late
         \/ reported /\ Goto("page") /\ UNCHANGED late
         \/ Goto("wait") /\ (late' = FALSE \/ UNCHANGED late)
  <2>1. MediaResumed(job) \in Jobs
    BY <1>1, LifecycleFollows DEF Follows
  <2>2. Follows(job, OutputFailed(MediaResumed(job)))
    <3>1. /\ Follows(job, MediaResumed(job))
          /\ Follows(MediaResumed(job), OutputFailed(MediaResumed(job)))
      BY <1>1, <2>1, LifecycleFollows
    <3> QED
      BY <3>1 DEF Follows
  <2> QED
    BY <1>1, <2>2, LifecycleFollows DEF CheckOutput, OutputUnverified
<1>3. RecordIsHonest' /\ job' \in Jobs
  BY <1>1, <1>2, FollowingStep DEF ghosts
<1>4. job'.pages = job.pages /\ job'.state # "COMPLETED"
  BY <1>1, <1>2 DEF Follows
<1>5. late' \in BOOLEAN
  <2>1. CASE late' = FALSE
    BY <2>1, Zenon
  <2>2. CASE UNCHANGED late
    BY <1>1, <2>2 DEF TypeOK
  <2> QED
    BY <1>2, <2>1, <2>2
<1>6. ASSUME ControlOK', n' = n, canceled' = canceled PROVE TypeOK'
  BY <1>1, <1>3, <1>5, <1>6, StillMoved, ThreadTypes DEF TypeOK, ghosts, printer
<1>7. CASE PageFails
  <2>1. TypeOK'
    BY <1>1, <1>6, <1>7, ControlHolds DEF PageFails
  <2> QED
    BY <1>1, <1>3, <1>4, <1>7, <2>1, FailingStep DEF IInv, SInv, ghosts, printer
<1>8. CASE (reported /\ Goto("page")) \/ Goto("wait")
  <2>1. /\ at' \in {"page", "wait"} /\ (at' = "page" => reported)
        /\ UNCHANGED <<goal, chunk, reason, pappl>>
    BY <1>8 DEF Goto
  <2>2. TypeOK'
    BY <1>1, <1>6, <1>8, <2>1, ControlHolds DEF Places, pappl
  <2>3. Course'
    BY <1>1, <1>4, <2>1 DEF IInv, SInv, Course, Announced, Sending, pappl
  <2>4. Leaving' /\ Undisturbed' /\ Destroyed'
    BY <1>1, <2>1, RunningStep DEF ghosts, pappl
  <2>5. AbortedIsCanceled => Delivered'
    BY <1>1, <1>4, <2>1 DEF IInv, Delivered, Printed, pappl, printer
  <2> QED
    BY <1>3, <2>2, <2>3, <2>4, <2>5 DEF IInv, SInv
<1> QED
  BY <1>2, <1>7, <1>8

\* hplj_rendjob: only a job that was neither aborted nor cancelled completes.
LEMMA EndJobStep ==
  ASSUME IInv, EndJob
  PROVE  IInv'
<1>1. /\ TypeOK /\ job \in Jobs /\ job.state # "COMPLETED" /\ at = "end"
      /\ service # "gone"
      /\ UNCHANGED <<device, threads, aborted, output, ghosts, printer>>
      /\ Over(aborted \/ job'.state # "COMPLETED")
  BY DEF EndJob, IInv, SInv, TypeOK, Course, Destroyed
<1>2. /\ job' \in Jobs /\ job'.pages = job.pages /\ job'.sent = job.sent
      /\ Sound(job) => Sound(job')
      /\ job'.state = "COMPLETED" => ~IsCanceled /\ job'.pages > 0
  <2>1. CASE IsCanceled
    BY <1>1, <2>1, LifecycleFollows DEF EndJob, Follows
  <2>2. CASE ~IsCanceled
    BY <1>1, <2>2, CompletedHolds DEF EndJob
  <2> QED
    BY <2>1, <2>2
<1>3. RecordIsHonest'
  <2>1. (job.sent <=> moved) /\ Sound(job)
    BY Honesty DEF IInv, SInv
  <2>2. (job'.sent <=> moved') /\ Sound(job')
    BY <1>1, <1>2, <2>1 DEF ghosts
  <2> QED
    BY <2>2 DEF RecordIsHonest, Sound
<1>4. ControlOK'
  BY <1>1 DEF Over, ControlOK, TypeOK, Places, Outcomes
<1>5. TypeOK'
  BY <1>1, <1>2, <1>4, StillMoved, ThreadTypes
     DEF TypeOK, output, ghosts, printer, Over
<1>6. Course' /\ Leaving' /\ Undisturbed' /\ Destroyed'
  BY <1>1 DEF IInv, SInv, Over, Course, Announced, Leaving, Undisturbed, Sending,
              Destroyed, ghosts, threads
<1>7. AbortedIsCanceled => Delivered'
  <2> SUFFICES ASSUME AbortedIsCanceled PROVE Delivered'
    OBVIOUS
  <2>1. job'.state = "COMPLETED" => ~aborted /\ job'.pages > 0
    BY <1>2 DEF IsCanceled
  <2>2. outcome' = "completed" => job'.state = "COMPLETED"
    BY <1>1 DEF Over
  <2> QED
    BY <1>1, <1>2, <2>1, <2>2 DEF IInv, Over, Delivered, Printed, printer
<1> QED
  BY <1>2, <1>3, <1>5, <1>6, <1>7 DEF IInv, SInv

-----------------------------------------------------------------------------
(* The theorems *)

LEMMA Invariance == Spec => []IInv
<1>1. ASSUME IInv, [Next]_vars PROVE IInv'
  <2>1. CASE Next
    BY <1>1, <2>1, QuietStep, CancelStep, PrintStep, DestroyStep, StartStep,
       MonitorStep, NotReadyStep, PrepareDeviceStep, ReadyStatusStep,
       PrepareJobStep, PageStep, SubmitPageStep, TestCancelStep, SendChunkStep,
       PollOutputStep, CheckOutputStep, EndJobStep
       DEF Next, Monitor, JobThread, Environment
  <2>2. CASE UNCHANGED vars
    <3>1. /\ UNCHANGED <<device, threads, control, job, pappl, output, ghosts,
                         printer>>
      BY <2>2 DEF vars
    <3>2. TypeOK'
      BY <1>1, <3>1 DEF IInv, SInv, TypeOK, device, threads, control, pappl,
                        output, ghosts, printer
    <3>3. Destroyed'
      BY <1>1, <3>1 DEF IInv, SInv, Destroyed, device, threads, control
    <3> QED
      BY <1>1, <3>1, <3>2, <3>3, DistantStep
         DEF IInv, SInv, device, output, printer
  <2> QED
    BY <1>1, <2>1, <2>2
<1> QED
  BY <1>1, Initially, PTL DEF Spec

\* Every variable has its type, whatever the threads and the printer do
\* (pappl_runtime.c, job.c).
THEOREM TypeCorrect == Spec => []TypeOK
<1>1. IInv => TypeOK
  BY DEF IInv, SInv
<1> QED
  BY <1>1, Invariance, PTL

\* JOB-006, JOB-007: the record counts the bytes that left, and a failure after
\* bytes asks for an explicit retry (job.c:74-89, 215-220).
THEOREM RecordsHonest == Spec => []RecordIsHonest
<1>1. IInv => RecordIsHonest
  BY DEF IInv, SInv
<1> QED
  BY <1>1, Invariance, PTL

\* At most the transfer under way leaves after a cancellation (job.c:196-204).
THEOREM CancelStops == Spec => []CancelStopsTransmission
<1>1. IInv => CancelStopsTransmission
  BY DEF IInv, SInv, Leaving, CancelStopsTransmission
<1> QED
  BY <1>1, Invariance, PTL

\* device_mutex is held from the first transfer of a page to its last, and
\* hplj_backend_destroy comes after both threads.
THEOREM OneUser == Spec => []DeviceHasOneUser
<1>1. IInv => DeviceHasOneUser
  BY DEF IInv, SInv, Undisturbed, Sending, Destroyed, DeviceHasOneUser
<1> QED
  BY <1>1, Invariance, PTL

\* IMPLEMENTATION-SPEC:87, as far as the code keeps it: of a completed job each
\* page was printed, but for one whose wait was ended by the report of an
\* earlier document (pappl_runtime.c:478), if PAPPL's is_canceled holds for an
\* aborted job. A printer that never reports late leaves no exception.
THEOREM CompletedPrinted ==
  ASSUME AbortedIsCanceled
  PROVE  /\ Spec => []CompletedUnlessMistaken
         /\ ~LateReports /\ Spec => []CompletedMeansPrinted
<1>1. ASSUME IInv, job.state = "COMPLETED" \/ outcome = "completed"
      PROVE  /\ ~aborted /\ job.pages > 0
             /\ \A page \in 1..job.pages : <<n, page>> \in printed \union mistaken
             /\ ~LateReports => mistaken = {}
  <2>1. Delivered
    BY <1>1 DEF IInv
  <2>2. at = "idle"
    BY <1>1 DEF IInv, SInv, Course
  <2>3. ~aborted /\ job.pages > 0
    BY <1>1, <2>1, <2>2 DEF Delivered
  <2> QED
    BY <2>1, <2>2, <2>3 DEF Delivered, Printed
<1>2. IInv => CompletedUnlessMistaken
  BY <1>1 DEF CompletedUnlessMistaken
<1>3. Spec => []CompletedUnlessMistaken
  BY <1>2, Invariance, PTL
<1>4. ASSUME ~LateReports
      PROVE  Spec => []CompletedMeansPrinted
  <2>1. IInv => CompletedMeansPrinted
    BY <1>1, <1>4 DEF CompletedMeansPrinted
  <2> QED
    BY <2>1, Invariance, PTL
<1> QED
  BY <1>3, <1>4

=============================================================================
