# HP LaserJet 1020 driver: TLA+ verification project

This directory holds TLA+ models of the host-based HP LaserJet 1020 driver,
the TLC configurations that check them and the TLAPS proofs about them. Every
definition is translated from the code (the `map` of `PROJECT.json` names the
lines); the documents under `docs/` are used only as the source of the
statements the code is compared with.

## 1. The system

A Mac prints over IPP to a local PAPPL service which rasterises, encodes each
page as one ZjStream document and sends it over libusb to a printer that boots
without firmware: the service must upload a user-supplied image after every
power cycle of the printer. The parts, with the state each keeps:

| part | source | state | operations |
| --- | --- | --- | --- |
| device state machine | `src/device.c` | `struct hplj_device`: state, opened, firmware version | connect, bootstrap_firmware, send, send_once, revalidate, get_status, disconnect, suspend |
| job lifecycle | `src/job.c` | `struct hplj_job`: state, bytes sent, pages, error with its retry class | prepare, submit_page, complete, retry, wait_for_media, resume_media, output_failed, cancel, shutdown |
| service backend | `src/pappl_runtime.c` | device + `device_mutex`, USB transport, list of active jobs, `stopping`, printer reasons, cached firmware | PAPPL callbacks (rstartjob, rstartpage, rwriteline, rendpage, rendjob), the monitor thread, shutdown |
| USB transport | `src/usb_libusb.c`, `src/pjl_status.c` | handle, claimed interface, the parser's buffer and what it has understood (conditions, code, finished documents), output generation | the callbacks of `struct hplj_device_ops`; poll the status, parse frames |
| encoder and media rules | `src/encoder.c`, `src/media.c`, `third_party/foo2zjs` | none | raster page to ZjStream document |
| firmware store | `src/firmware.c`, `src/firmware_store.c` | imported image and manifest on disk | import, load |
| command line, PAPPL configuration, diagnostics | `src/main.c`, `src/pappl.c`, `src/diagnostics.c`, `src/error.c`, `src/version.c` | bounded event files | start the service, map errors to IPP reasons, record events |
| manual duplex | `src/duplex_helper.c`, `scripts/manual_duplex.py` | the workflow's phase | odd pass, confirmation, even pass |
| service supervisor | `packaging/HP-LJ-1020.app/.../hplj1020-service-supervisor` | attempt counter, crash-loop marker | bounded restarts |
| installation and update | `scripts/personal_install.py`, `scripts/personal_update.py` | files, accounts, launchd job, update journal | install, disable, enable, uninstall, update, rollback |
| release promotion and evidence | `scripts/personal_release.py`, `scripts/update_capability_matrix.py`, `scripts/seal_lifecycle_evidence.py`, `scripts/validation_gate.py` | an archive of runs with one record per stage, sealed bundles, tags; the matrix of evidence and its manifests | prepare and the five later stages; refresh, seal, gate |
| build and repository checks | `scripts/check_implementation_spec.py`, `scripts/output_measurement.py`, ... | none | checks of documents |
| PAPPL patches | `patches/pappl/*.patch` | PAPPL's job list | job admission, history cap, raster failures |

### How the parts interact

- Two threads of the service use the device: PAPPL's job thread (one job at a
  time) through the raster callbacks, and the monitor thread, which every
  second tries to make the device ready and reads its status. Both hold
  `device_mutex` for the length of a device call; between two calls either may
  go first.
- The job lifecycle calls the device API, never the transport. The device API
  calls the transport through callbacks and is the only caller.
- The printer, its cable and its power belong to nobody: they change between
  any two callbacks.
- PAPPL sets a job's cancellation flag at any time; the callbacks poll it.
- Shutdown sets `stopping` and cancels the active jobs, polled the same way.
- The manual-duplex controller is another process. It reaches the service only
  through the helper, one request at a time, each of which may be lost, late or
  answered by a service that was restarted since the last one.
- Installation, update and release are helpers run by hand. They share with the
  rest what is on disk: launchd's registration and override, the update journal,
  the checkout, its tags and the evidence.

### What is hard, and what makes each part correct

- **Device.** Retries, reconnections and firmware boot delays with one USB
  handle: no handle may leak or be used after the printer is gone, READY may
  only rest on a firmware version read over the handle still held, firmware
  may not be uploaded to a running printer, and no print byte may be sent
  twice.
- **Jobs and service.** Cancellation, shutdown, printer faults and the monitor
  thread race with a transfer. A job may be reported complete only when every
  page of it was accepted and printed; bytes sent are the only retry boundary.
- **PJL status.** Reports arrive cut anywhere, over transfers, polls and
  reconnections, some too long, mixed with others; a request for paper stands
  while the printer says it is processing. What the service takes for the
  printer's condition or for the end of its page must be the stream's meaning
  and this connection's.
- **Update.** A journal written in steps with a crash possible between any two
  of them must leave a consistent installation to recover from.
- **Manual duplex.** No back side before a confirmation, every back on its own
  front whatever jobs earlier runs have left in the queue, and "completed" only
  for the whole document.
- **Installation.** Any of some twenty commands may fail or be stopped in the
  middle: what is left must be told truthfully, must not be started, and must
  still be recognised as the product's own by the next uninstall. What belongs
  to others under the same names must not be touched.
- **Release.** A promotion runs over days, is killed and resumed, and others
  edit the checkout, refresh the evidence and make tags meanwhile: a tag must
  rest on one commit, its own build and evidence that has not expired.
- **Firmware store.** An import replaces two files by one rename while the
  service may be reading them, and its last sync, the undoing of the rename or
  the machine may fail: what was committed before must not be lost, and no pair
  may be mixed.

The `hazards` of `PROJECT.json` name each of these at its line, with the
properties that cover it or the plan for it.

## 2. The modules

| module | models | its state in the code | its actions |
| --- | --- | --- | --- |
| `DeviceEndings` | how a call of the device API may end | `struct hplj_device_result` | none: sets of endings |
| `DeviceContract` | abstract specification of the device API | device state between two calls, handle, last result | begin a call, end it in one of its endings |
| `HpljDevice` | `src/device.c` | `struct hplj_device`, the local variables of the running call, the transport's handle, the printer | one per transport callback (`Discover`, `Open`, `Claim`, `Identify`, `Upload`, `Verify`, `Write`, `Reread`, `ReadStatus`), one per call that starts, and what happens to the printer |
| `JobLifecycle` | the operations of `src/job.c` on a job record | `struct hplj_job_metadata` | none: one operator per function |
| `HpljService` | `src/pappl_runtime.c` around the two above | device state, both threads, the job, PAPPL's flags, the documents in the printer | one per section of a raster callback or of the monitor between two points where others can act |
| `PjlStatus` | `src/pjl_status.c`, the status half of `src/usb_libusb.c`, `hplj_wait_for_output` | what the printer has said; connection and generation, buffer and status; the poll and its last transfer; the waiting page's snapshot | one per report said, claim, release, start and end of a poll, transfer, unit fed, snapshot, judgement and giving up |
| `HpljUpdate` | `scripts/personal_update.py` | journal, snapshots, pointer, startup gate, live artifacts, launchd, CUPS; the steps the helper still has to do | one per durable write or command, failure, crash, reboot, and the commands, jobs and restarts of others |
| `ManualDuplex` | `scripts/manual_duplex.py`, the calls of `duplex_helper.c` | tray, output and their sheets; the service's jobs and instance; the controller's next call, pass, active job, deadline | one per call and per decision, failures of calls, the user, the printer, the service's restart, a kill |
| `HpljInstall` | `scripts/personal_install.py` | ten artifacts (absent, ours, torn, foreign), the queue's hold, launchd's override and job; the steps the helper still has to do, each with what its failure means | run, skip or fail a command, ask a question, decide; kill, reboot |
| `EvidenceGate` | `update_capability_matrix.py`, `seal_lifecycle_evidence.py`, `validation_gate.py` | checkout, matrix, last validation run, last manifest | refresh, exercise, mark, seal, spoil, edit, checkout |
| `PersonalRelease` | `scripts/personal_release.py`, over `EvidenceGate` | runs with their records, bundles, tags; the operation that holds the archive's lock | one per check or durable write of a stage, rejection, kill, and what others do to checkout, evidence, checks and tags |
| `FirmwareStore` | `src/firmware_store.c` behind `src/firmware.c`; `hplj_load_firmware` | the active generation and what a power loss may leave of it; each import's step, staging directory and how it got in place; what the service has read and loaded | one per file-system call of an import that matters, success or failure; the two reads of the service; kill, restart, power loss |
| `MC...` | instances for TLC | | |
| `HpljDevice_proofs` | theorems about `HpljDevice`, and that it implements `DeviceContract` | | |
| `ManualDuplex_proofs` | theorems about `ManualDuplex` | | |
| `FirmwareStore_proofs` | theorems about `FirmwareStore` | | |
| `HpljService_proofs` | theorems about `HpljService` | | |
| `HpljUpdate_proofs` | theorems about `HpljUpdate` | | |
| `HpljInstall_proofs` | theorems about `HpljInstall` | | |
| `PjlStatus_proofs` | theorems about `PjlStatus` | | |
| `PersonalRelease_proofs` | theorems about `PersonalRelease` | | |

`HpljService` takes the device from `DeviceEndings`, not from `HpljDevice`: a
section under `device_mutex` is one step that ends as the contract says, and
the proof that `HpljDevice` implements `DeviceContract` is what entitles it to
that. `HpljService` extends `JobLifecycle`. `HpljUpdate` meets the service only
as a provider that runs or not and admits jobs or not
(`hplj_backend_configure_policy` reads the startup gate). `ManualDuplex` meets
it as a queue of jobs under IPP's states, printed one after the other.
`PersonalRelease` extends `EvidenceGate`: the stages call the gate and the
check of the matrix while the evidence goes on changing. `HpljInstall` and
`HpljUpdate` share no step; the one place where they meet, `enable` during an
update, is an action of `HpljUpdate`. `FirmwareStore` shares nothing with the
other modules: the service loads before it prepares the device, and keeps what
it has loaded. `PjlStatus` is what stands behind the two things
`HpljService` takes from the printer's reports, that a report of this
connection has been heard and that the printer is free of conditions; the job
there is only the comparison.

How the modules abstract is said in the comment at the head of each. In short:
firmware versions are model values; a print buffer is a small number of bytes;
a page is a number of transfers and one document for the printer; in
`HpljService` the PJL stream is the count of finished documents relative to the
snapshot of `hplj_rendpage`, in `PjlStatus` it is a sequence of lines (the
parser and a transfer only go on inside a line); a payload is its version, and the six data directories are one
artifact with the version that ran on it last. A sheet of paper is the sequence
of the pages printed on it. A digest is what it is of, a scope of the sources is
its content, and what a row of the matrix copies of a validation run is the
commit of that run. A firmware image stands for its bytes and its metadata.

## 3. What is checked

| run | question | size |
| --- | --- | --- |
| `device` | With every fault of the transport, a printer that is unplugged, replaced and power-cycled between any two callbacks, and every order of calls: handle discipline, what READY rests on, which printer images and print bytes can reach, whether a result accounts for the bytes of all its attempts; the contract is implemented; calls return | 73 000 states |
| `service` | Two jobs of up to two pages of two transfers, all interleavings with monitor, cancellation, shutdown and faults, on a printer that may report a document late: when a job may be called complete, what is recorded about its bytes, who touches the device | 2.8 million |
| `service_liveness` | Do cancelled jobs, shutdowns and jobs on a printer that recovers end? | 93 000 |
| `service_traps` | Do jobs recover if the printer is unplugged during an upload? (violated) | |
| `update` | Three transactions with failures, crashes and restarts between any two steps: is what launchd can start always whole, can the old installation always be restored, are jobs safe, is admission closed before and open after, is the outcome true, does repeated recovery end? | 235 000 |
| `update_stuck` | Does it end for every journal? (violated) | |
| `duplex` | Two invocations with failing calls, lost answers, cancelled and forgotten jobs, a restart of the service, late users and kills: is the document right when the workflow says so, does every back meet its front, are documents sent to the right instance, is what still prints after a run told to stop, does every invocation end? | 192 000 |
| `install` | Five operations with failing and half-done commands, kills and restarts, on a Mac where somebody else may own a name: is "clean" true, is what is incomplete kept from starting, is what belongs to others left alone, does removal stay possible, also when `rm -rf` is stopped half way, and does it converge? | 102 000 |
| `install_stuck` | Does uninstall converge from every partial state? (violated) | |
| `release` | Two runs for one version with rejections, kills and an unexpected event: is a tag backed, are records true, is expired evidence refused, is what is released immutable, is a failed run dead, is an interrupted promotion taken up to its tag? | 308 000 |
| `store` | Three imports of two images, one after the other, with failing calls, kills and power losses between any two steps, and a service that loads meanwhile: is what was committed kept whole, and is it found without a restart? | 8 600 |
| `pjl` | Three reports, cut anywhere by transfers, the limit of a poll and reconnections, while a page waits: does the status mean what was heard, does "nothing wrong" rest on everything there was, is the page judged by reports of its own? | 1.5 million |

Type invariants that TLAPS proves (`HpljDevice`, `HpljService`, `HpljUpdate`,
`ManualDuplex`, `FirmwareStore`, `PersonalRelease`, `PjlStatus`) are not run
again; that of `HpljInstall` is part of its run.

Each property has a mutant of a mapped definition, a plausible bug, under which
TLC finds it violated; the mutants stand before the definitions they change.

### Violated runs

- `JobsRecover` with a trap: FIRMWARE_TRANSFER_FAILED is left by no call, so
  every later job waits until the service restarts (JOB-009 says it need not).
- `PendingAlwaysRecovers`: when release fails for a journal in phase
  `admission`, the stop that answers it makes each later recovery fail, and
  `enable` refuses to help.
- `UninstallConverges`: an install that is stopped between the copy of the app
  and its change of owner, or between the commands that make the account,
  leaves what `validate_path_owner` and `validate_account_state` refuse for ever
  (INST-007).

The passing runs carry the complements: `service_liveness` holds without traps,
`PendingRecovers` wherever admission is not to be opened at a service that is
off, `RemovalConverges` from every state that is sound.

### Known divergences without a run

These statements of the documents are contradicted by the code as well. The
property stands in the module, and TLC violates it under the configuration of
the run named first, changed as said.

| property | from run, with | what happens |
| --- | --- | --- |
| `OneUploadPerPowerCycle` | `device` | The reconnection after a completed upload fails, and the next bootstrap, finding no FWVER yet, uploads again (`device.c:251-258`); so does a bootstrap whose transfer failed although the printer has taken the image whole (`device.c:279-285`). What the code keeps is `UploadReachesBlankPrinter` (the specification has bootstrap idempotent per power cycle, IMPLEMENTATION-SPEC:176). |
| `CompletedMeansPrinted` | `service` | Any growth of the report counter is taken for the job's own document (`pappl_runtime.c:478`, `pjl_status.c:18-25`; IMPLEMENTATION-SPEC:87). `CompletedUnlessMistaken` says that nothing else makes a completion untrue. |
| `RollbackGoesBack` | `update` | A crash between `previous.json` and the commit leaves a pointer to a snapshot of what is installed (`personal_update.py:389-390`; REL-003). |
| `DisabledWhileReplacing` | `update`, `Meanwhile = {"enable"}` | `enable` tests for the journal once and takes no lock (`personal_install.py:950-952`; `personal_update.py:173-177`). |
| `CancelStaysWithInstance` | `duplex` | The except clause asks for the instance and cancels in another call; a restart in between sends the cancellation to the new service (`manual_duplex.py:119-120`; docs/manual-duplex-validation.md:85). |
| `InstallConverges` | `install_stuck`, `Again = "install"` | `install` refuses as soon as there is an app, the second thing it makes (`personal_install.py:647-654`; IMPLEMENTATION-SPEC:136). |
| `ReportIsTrue` | `install`, `Deaf <- QueuesUnseen` | `lpstat` is asked with `check=False` and only its output is read: without an answer there is no queue, and the removal is called clean (`personal_install.py:532-537`, `856-858`; IMPLEMENTATION-SPEC:29). |
| `UninstallConverges` | `install_stuck`, `Divisible = {"remove_root"}`, `MaxRuns = 2` | `rm -rf` of the product root, stopped in the middle of the app, leaves one that `codesign` refuses, and with it every later uninstall (`personal_install.py:487`, `738-742`; INST-007). `RemovalStaysPossible` says that this is the only way an uninstall makes the next one impossible. |
| `PartlyRemovedIsDisabled` | `install` | `uninstall` clears the override before it removes the plist; stopped in between, launchd starts what is left (`personal_install.py:770-783`; INST-010). |
| `FirmwareIsKept` | `store`, `Importers = {a, b}` | Two first imports at once: the one whose directory sync fails removes `active`, which by then is the other's, committed and reported (`firmware_store.c:138-139`; nothing locks the store). |
| `AcceptedIsCurrent` | `release` | A validation run of one commit is marked and sealed after another was checked out and the matrix refreshed; its scopes are those of the second (`seal_lifecycle_evidence.py:222-247`; VAL-005). A release is not affected: there the manifest must be of the commit that is released (`TaggedIsBacked`). |

One divergence is not a property: any rejected operation marks its run as failed
(`personal_release.py:192-210`, `517-529`), also the stage `tagged`, where
the table of IMPLEMENTATION-SPEC (about line 303) has an explicit retry; a new
run of the same version then meets the bundle of the first as "conflicting
sealed version" (378-380). `FailedIsFinal` and `ReleasesAreImmutable` show
both halves.

### Bounds

- `MaxAttempts = 3` is `HPLJ_MAX_AUTOMATIC_ATTEMPTS`. `ChunkBytes = 2` tells a
  full, a partial and an empty transfer apart, and one that claims too much;
  the service needs only "none or some" (`1`). Two firmware versions: expected
  and other.
- `JobLimit = 2`: a job can meet what one before it has left behind; a third
  meets nothing new, as only the device, the printer's queue and the reports
  survive a job. Two pages make the difference between `hplj_device_send` and
  `hplj_device_send_once`, and between first and later pages; two transfers make
  a place for cancellation between them. The liveness run has one job and
  transfer, as each wait is reached in it, and no late reports, which only end a wait
  earlier.
- `update`, `MaxRuns = 3`: an update, an update over it, and the rollback; the
  second update meets data that are migrated already, and a failed one meets a
  pointer that is set. Two are enough for the violated run.
- `duplex`: three pages make two sheets, the order of which can be wrong, and a
  blank back; two invocations let jobs of the first print into the second; one
  restart tells two instances apart, and nothing in the code looks further back
  than one. Larger documents are the matter of the proofs.
- `install`, `MaxRuns = 5`: an operation that is stopped, one that meets what it
  has left, and so on: an `enable` of what an uninstall has left without a root,
  and the removal of what that makes, come up with the fifth. Then uninstall for
  ever. The names that somebody
  else may hold are those of which the code treats each kind: queue, half an
  account, a whole one, plist and logs.
- `release`: two runs of one version are the conflict the code guards against;
  two commits, one of them merged, that differ in one scope; one unexpected
  event: an edit, a kill or a foreign tag. Evidence is renewed without bound.
  What several events and more runs do to safety is the matter of the proofs,
  which have no such bounds.
- `pjl`: the buffer fits the longest report and not one line more
  (`Capacity = 5`), so a longer one is cut in its last line; transfers of one or
  two lines cut every report in every place; a poll of two transfers (256 in the
  code) ends in the middle of a report. Three reports are a request, what may
  settle it and what follows; two connections tell one generation from the next.
  Any frames, sizes and limits are the matter of the proofs.
- `store`: an import that commits, one that fails over it and a third that meets
  what the second has left; two images tell old and new apart. Kills, power losses,
  restarts and failing reads are not bounded.
- `overrun` and `uploads` saturate; no other value is bounded by a guard
  except the transactions, invocations and operations begun, the jobs submitted,
  the restarts of `duplex` and the unexpected events (`changes`) of a release.

### Fairness

- `HpljDevice`: weak fairness of the running call. A callback is synchronous,
  and every USB transfer has a timeout (`HPLJ_USB_TIMEOUT_MS`). Nothing is
  assumed of callers or the printer.
- `HpljService`: weak fairness of each thread, of the final destruction and of
  the clock: the waits poll every 100 ms, and a section under the mutex ends
  because device calls do. Nothing is assumed of the printer; `JobsRecover` has
  its health as a premise.
- `HpljUpdate`: weak fairness of the helper and of recovery being invoked while a
  journal is left (the README's instruction to the administrator). That commands
  work again is the premise `calm` of the property.
- `ManualDuplex`: weak fairness of the controller and of the clock: the helper's
  calls and the prompt have timeouts (`manual_duplex.py:45-52`, `103-113`).
  Nothing is assumed of the user, the printer or the service.
- `HpljInstall`: weak fairness of the helper (every command has a timeout), of the
  provider's start and end, and of the moment from which nothing fails any more
  and the administrator repeats one operation (`calm`), the premise of
  convergence.
- `PersonalRelease`: weak fairness of an operation that has begun, strong
  fairness of the maintainer asking for the next stage of a run: they come back
  whenever the archive is free, which it is infinitely often.
- `FirmwareStore`: strong fairness of the service's two reads: preparation calls
  `hplj_load_firmware` every second while nothing is loaded, and a file that can
  be read now and again is read in the end. Nothing is assumed of imports.

`PjlStatus` states no fairness: nothing makes a printer speak, and that a job
does not wait for ever is a matter of `HpljService`.

`CHECK_DEADLOCK FALSE` is set where the system may stop: after a shutdown and
the last job the service is gone; a printer that has said its last report and
is connected no more says nothing; after the last invocation nobody starts the
workflow again; when nothing of the product is left an uninstall changes
nothing.

## 4. What is proved

`HpljDevice_proofs` proves, for every set of versions, attempt limit and
buffer size (`DeviceAssumption`), type correctness and each safety property of
the run `device`, and two that no run repeats: `PrintOnlyWhenReady` and
`PartialTransferDisconnects`. They are not inductive alone. The inductive invariant `IInv` adds three parts:

- `Control`: which callback can be next in which call, and what the locals are
  then (at an upload the device is in PRE_FIRMWARE or AWAITING_FIRMWARE and
  the bootstrap has completed no upload; a write happens in READY; no byte has
  moved when a callback starts, so a retry repeats none);
- `HandleHistory`: what the device state says about the handle and the identity
  last read on it (an identity without FWVER in PRE_FIRMWARE and
  AWAITING_FIRMWARE, the stored version in FIRMWARE_PRESENT);
- `LiveHandle`: what a live handle says about the printer, and what of it still
  holds when the printer has lost power since it was last asked.

`ReadyIsVouched` follows with `HandleHistory`, because READY is entered from a
fresh identity or from FIRMWARE_PRESENT; `PrintOnlyWhenReady` is a consequence
of `Control` and `HandleDiscipline`. `UploadReachesBlankPrinter` and
`PrintReachesVerifiedPrinter` speak of the printer at the other end and follow
from `LiveHandle`, with `HandleHistory` for the one and `ReadyIsVouched` for the
other. `TransferResultIsHonest` is about the calls that have returned and is
carried along; that a call starts with nothing moved, and so does each attempt
in it, is what it rests on. Each part has a step lemma with one step per action.
No theorem says that an image is sent only once: it is not so (divergence
`OneUploadPerPowerCycle`).

The last part of `HpljDevice_proofs` proves that `HpljDevice` implements
`DeviceContract` under the refinement mapping that shows the device state and
handle only between calls: initial states map to initial states, and under
`IInv` every step is a step of the contract or hidden.

`HpljService_proofs` proves, for every number of jobs, pages and transfers
(`ServiceAssumption`), type correctness and the four safety properties of the run
`service`, for every order of the two threads, cancellation and shutdown. It
rests on lemmas about the record (`Follows`: an operation of `JobLifecycle`
keeps bytes and pages and only `hplj_job_complete` makes a success;
`FailedHolds`) and about the endings of device calls (a preparation moves no
bytes, a transfer that succeeds keeps the handle). The invariant adds: what the
job has come to at each place of its thread (`Course`), that a transfer begins
only before a cancellation (`Leaving`), that no poll or release falls between the
snapshot of `hplj_rendpage` and the last transfer (`Undisturbed`), and that every
page counted is printed, or taken for printed on the report of an earlier
document (the ghost `mistaken`), but the one waited for (`Delivered`). The printer
may report any document late. This last part, and `CompletedUnlessMistaken` with
it, has one premise, named in the theorem: PAPPL's `is_canceled` holds for an
aborted job, as the run has it too. The theorem says besides what the divergence
costs: with a printer that reports no earlier document late the statement of
the documents, `CompletedMeansPrinted`, holds as it stands.

`ManualDuplex_proofs` proves, for every number of pages, invocations and restarts
(`DuplexAssumption`), type correctness and the four safety properties of the
run `duplex`. `PlanIsRight` is about the plan alone: each back, appended to the
sheet of the turned stack in whose turn it comes, makes the sheet of the whole
document. The invariant `IInv` then follows the paper: between the confirmed
prompt and the document of the backs nothing prints (`Rest`), because a pass
ends only when its job is completed, that job is the last one (`Newest`), and
the printer takes jobs in their order (`Queue`); so the tray is the turned stack
when the backs begin (`Turned`), no other job prints beside them (`Alone`), and
every side brings the next sheet to what it should be (`Backing`). `Ages` has
the job number belong to one instance, `Own` that the active job is the only
open one of the run. Jobs that end are treated once, in the lemma `Fading`.
A cancellation ends at once only a job that still waits. The one that is being
printed is told to stop and may print more sides after the run has said
"incomplete" (`JobStops`), into the paper of a later run as well; that none of the
safety properties needs it to stop is part of what is proved. What the run owes is that
it was told (`WhatPrintsIsToldToStop`), also when the request for its document, or the
whole pass, has timed out; a run that is killed, or whose last calls do not reach
the service, owes nothing (the ghost `unreached`).

`FirmwareStore_proofs` proves, for every set of images and number of imports
(`StoreAssumption`), type correctness and, by `LoadedIsAPair`, that the service
never loads a mixture, whatever imports overlap. `FirmwareIsKept` is proved for
imports that do not overlap (`OneAtATime`), which is what the divergence above
shows to be needed. Its invariant adds what is staged on the way to the rename
(`Staged`), that the active generation is the import's own from there to its
end (`Placed`), and that once something is committed an import that fails has an
earlier whole generation to put back and never retracts (`Keeps`).

`PersonalRelease_proofs` proves, for every set of commits, versions, builds,
scopes and scenarios and any number of unexpected events (`EvidenceAssumption`,
`ReleaseAssumption`), type correctness and the five safety properties of the
run `release`. The archive's part of the invariant says
what a run has by the stages it has passed (`RunHolds`), that a bundle is the
one of a run of its version that was validated (`ReleaseHolds`) and that a tag
was made for it (`TagHolds`). The operation's part carries what its checks have
established to the write they are for: at each step what has been recorded so
far (`Advancing`, `Recording`), and that the checkout has moved exactly if it is
the candidate no more (`MovedAway`), which is what lets a stage that saw the
candidate record it although others edit meanwhile. `ExpiredHolds` is the part
for the evidence: what has expired carries the change that expired it until it
is marked again.

`PjlStatus_proofs` proves, for every set of frames, buffer and transfer size
and limit of a poll (`PjlAssumption`), type correctness (with it that the buffer
is never overrun) and the three properties of the run `pjl`. Most of it is about
streams that grow by one line: the frames of a stream have beginnings (`Marked`;
the maxima in the definitions are choices, and this says that there is
something to choose), earlier frames stay what they are (`FrameStays`), and each
set of reports grows at most by the frame that a form feed ends. Three lemmas
then say that a line which ends no report leaves the meaning alone
(`MeaningStays`), the report of an end adds one (`MeaningOfEnd`) and a report of
the device follows the rule of standing requests (`MeaningOfReport`). The
invariant ties the parser to the stream (`Buffering`: it holds what came since
the last form feed unless that does not fit; `Right`: the status is the
stream's), the poll to what the printer had said when it began (`Owing`) and the
waiting page to its connection (`Waiting`).

`HpljUpdate_proofs` proves, for any number of transactions and every set of
steps that fail or are ignored (`UpdateAssumption`), type correctness and the
five safety properties of the run `update`. All have one premise, `OneAtATime`:
an administrator's `enable` does not come in the middle of a transaction. The code
takes no lock that would see to it (divergence `DisabledWhileReplacing`), so
nothing is proved of a transaction that an `enable` comes into. The helper being
a sequence of steps left, the invariant says which sequences there are by
adjacency: a plan (`Plans`: its mode, run, source and outcome) has steps that
are its own (`Belongs`) and follow each other (`Follows`); that the blocks of
`execute` and `recover` are such sequences is proved once, stretch by stretch,
and what is left after a step is one again (`RestOfPlan`). To this come what a
journal entry vouches for (`JournalHolds`: files, snapshot, gate and host in each
phase), whoever reads it, and what is so at the step that is next (`Ready`). An
action then makes the helper ready for each step that may follow and keeps what
the journal says; a crash needs no argument of its own, as `JournalHolds` does not
mention the helper, and the failure record is written from a record that vouches
for as much as the journal it replaces (`RememberedHolds`). Before it was proved
the invariant was checked by TLC on the instance of the run.

`HpljInstall_proofs` proves, for any number of operations, any collisions and any
commands that fail or stay half done (`InstallAssumption`), type correctness and
the three safety properties of the run `install`. Type correctness has no premise;
the others have these, which the run has as well:

- `Hearing` (`Deaf = {}`): every question is answered. All three are proved from
  it; the table of divergences shows what becomes of `ReportIsTrue` without.
- `Heeded`: `launchctl disable` works, which only the third clause of
  `ReportIsTrue` needs; `CleanAndDisabledAreSo` has the first two without it.

The argument goes by adjacency as in `HpljUpdate_proofs`, with modes for plans:
an operation, the cleanup after one, or what uninstall has decided to do; each
has steps (`Does`), their order (`After`) and what their failure means
(`OnFailure`), and the programs are shown to be such sequences one stretch after
the other. `Ready` says what is so when the helper comes to a step: nothing is
anybody else's where something is going to be changed, the app is not there
when it is copied, nothing serves where accounts are made or files removed, each
step of `Disable` has been reached or noted in `failures`, and only plist and
receipt are left when the override is cleared. `HostHolds` adds what relates the
artifacts: there is something foreign only where nothing is ours, data only below
a root, and a service that listens only over whole files. A step `Keeps` the one
and `Reaches` the other, and then each step that may come next is ready
(`IsReady`); a failure, a question and a decision add only where they end. What
commands do to the host is one lemma for those that are done (`CommandHost`) and one
for those left half done (`HalfHost`), and what uninstall's order keeps is
another (`RemovalKeeps`: the data go before the account that owns them, the plist
goes last, once the override is cleared). `RemovalStaysPossible` has no premise
about `rm -rf` of the product root: it may stop with any part of marker, app and
data gone and the app itself in pieces. `HalfRemovalKeeps` says that the evidence
outlives this, and that an app in pieces is all that the next uninstall can
then object to. Before it was proved the
invariant was checked by TLC with five operations, and with two where every
command may fail, every name may be somebody else's and removals stay half done.

Only model-checked: all liveness, which TLAPS cannot prove.

## 5. The plan

In this order; a name in parentheses is the abstract specification or the
argument.

1. `Supervisor`: attempts, signals and the crash-loop marker.
2. `JobHistory` (patch 0003) and `Diagnostics` (log rotation): capacity and age
   bounds, and that a full history opens again.

## 6. What is not modelled, and why

- The encoder, the media tables and the vendored JBIG code are pure functions of
  bitmaps; no property here looks into a document.
- PAPPL, libusb, CUPS and launchd are external. The models take from them only
  what the code uses, and say so: how PAPPL settles a raster job and whether an
  aborted job counts as canceled (`AbortedIsCanceled`), that a handle may or may
  not survive a power cycle (`PowerCycle`), that launchd starts what is
  enabled after a restart. PAPPL's forced shutdown after its grace period is
  not modelled: `Destroy` waits for the job.
- `hplj_job_retry` and `hplj_job_shutdown` are not called by the service, and
  `hplj_local_remove_all` by nothing in the product.
- In `PjlStatus` a report is said whole and ends with a form feed, as does what
  is too long; a transfer that times out has
  brought all there was, and so has an empty one. Trimming of
  lines and the bytes inside them are left out, as are the search for the
  interface and the identity request. The printer's other states than those the
  parser tells apart are lines without a meaning.
- In `FirmwareStore` the file system keeps the order of changes to a directory; a
  file that was synced is whole. Staging directories that a kill leaves behind are
  not followed: nothing reads or removes them.
- Reasons and messages that PAPPL publishes, logs, option parsing and validation
  of raster headers are left out; a rejected page is a page callback that fails.
- Checks of repository documents (`check_implementation_spec.py` and the like)
  and the diagnostic bundle are sequential and keep no state. Of the gate the
  model has what it decides about a scenario; schemas, privacy checks,
  measurements and repetition counts are left out.
- In `ManualDuplex` the rotation of the backs and the rendering before the first
  job are left out, and jobs of other clients, which the user is told to keep
  out; the user confirms only a stack that is as the prompt asks.
- In `HpljInstall` two operations do not overlap: the code does not lock them
  against each other and no document promises anything about it.
- In `PersonalRelease` nobody moves the checkout away and back within one
  preparation (`Preparing`): the code looks at it before and after the build
  only. The build is one step.
- In `HpljUpdate`, inventories are what they decide: a snapshot counts once its
  inventory is written. A corrupted snapshot is outside the model: the code
  refuses it and needs a repair by hand. Jobs that wait in CUPS are not
  replaced and not followed.
