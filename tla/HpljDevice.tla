----------------------------- MODULE HpljDevice -----------------------------
(***************************************************************************)
(* The device state machine of src/device.c: discovery, firmware           *)
(* bootstrap, the print transfer, revalidation and status, one step per    *)
(* call of a transport callback (struct hplj_device_ops), interleaved with *)
(* what happens to the printer between two callbacks.                      *)
(*                                                                         *)
(* A call runs under the backend's device mutex, so at most one runs at a  *)
(* time: op names it, at says which callback comes next, and the printer,  *)
(* its cable and its power are free to change in every intermediate state. *)
(*                                                                         *)
(* Abstractions:                                                           *)
(* - a firmware version is a member of Versions; the empty string of       *)
(*   firmware_version is NoVersion;                                        *)
(* - the transport's categories are represented by one member of each      *)
(*   class device.c tells apart: DEVICE_ACCESS_DENIED is handled exactly   *)
(*   like DEVICE_TIMEOUT and is left out;                                  *)
(* - human actions and detail texts are left out;                          *)
(* - one firmware is imported per service lifetime (the runtime caches it),*)
(*   so the only expected version is ExpectedVersion; without an image the *)
(*   runtime passes a version no printer reports, like the empty one;      *)
(* - a print buffer is ChunkBytes indistinguishable bytes.                 *)
(***************************************************************************)
EXTENDS Naturals

CONSTANTS
  Versions,          \* the firmware versions a printer can report as FWVER
  NoVersion,         \* the empty firmware_version string
  ExpectedVersion,   \* the version-build of the imported, allow-listed firmware
  Unread,            \* ghost value of seen: no such identity
  MaxAttempts,       \* HPLJ_MAX_AUTOMATIC_ATTEMPTS
  ChunkBytes         \* byte_count of a print transfer

ASSUME DeviceAssumption ==
  /\ NoVersion \notin Versions
  /\ ExpectedVersion \in Versions
  /\ Unread \notin Versions \union {NoVersion}
  /\ MaxAttempts \in Nat \ {0}
  /\ ChunkBytes \in Nat \ {0}

VARIABLES
  \* struct hplj_device
  state, opened, version,
  \* the running call: its name, its next callback, its loop counter and the
  \* local upload_completed of bootstrap
  op, at, attempt, uploadCompleted,
  \* the result of the last finished call
  outcome,
  \* the transport: the handle, whether it still reaches the attached printer,
  \* and (ghost) the FWVER of the last identity read on it since an image went
  \* over it
  link, live, seen,
  \* (ghost) print bytes that left the host during the running or last call
  moved,
  \* the printer: on the bus?, what it is, the firmware it runs, whether it
  \* holds a complete image, and (ghosts) the completed uploads of this power
  \* cycle, saturating at 2, and whether it has lost power behind a handle
  \* over which no identity was asked for since
  printer

device    == <<state, opened, version>>
call      == <<op, at, attempt, uploadCompleted>>
transport == <<link, live, seen>>
vars      == <<device, call, outcome, transport, moved, printer>>

DeviceStates == {"DISCONNECTED", "PRE_FIRMWARE", "AWAITING_FIRMWARE",
                 "FIRMWARE_TRANSFER_FAILED", "FIRMWARE_UNVERIFIED",
                 "FIRMWARE_PRESENT", "READY", "UNSUPPORTED"}
Ops   == {"connect", "bootstrap", "send", "send_once", "revalidate",
          "get_status"}
Steps == {"discover", "open", "claim", "identify", "upload", "verify",
          "write", "reread", "status"}

\* "sibling": the reference USB ids, but another IEEE 1284 identity.
\* "foreign": another USB descriptor.
Kinds == {"reference", "sibling", "foreign"}

Faults     == {"DEVICE_TIMEOUT", "DEVICE_PROTOCOL", "DEVICE_DISCONNECTED"}
Categories == Faults \union
  {"NONE", "INVALID_STATE", "CANCELLED", "UNSUPPORTED_DEVICE",
   "TRANSFER_INCOMPLETE", "FIRMWARE_MISSING", "FIRMWARE_UNVERIFIED",
   "FIRMWARE_TRANSFER_FAILED"}
Retries    == {"SAFE_AUTOMATIC", "EXPLICIT", "NEVER"}

Outcomes == [op: Ops \union {"none"}, category: Categories, retry: Retries,
             bytes: 0..ChunkBytes + 1, attempts: 0..MaxAttempts]
Printers == [attached: BOOLEAN, kind: Kinds,
             running: Versions \union {NoVersion},
             loaded: BOOLEAN, uploads: 0..2, unnoticed: BOOLEAN]

TypeOK ==
  /\ state \in DeviceStates
  /\ opened \in BOOLEAN
  /\ version \in Versions \union {NoVersion}
  /\ op \in Ops \union {"none"}
  /\ at \in Steps \union {"idle"}
  /\ attempt \in 0..MaxAttempts
  /\ uploadCompleted \in BOOLEAN
  /\ outcome \in Outcomes
  /\ link \in {"none", "open", "claimed"}
  /\ live \in BOOLEAN
  /\ seen \in Versions \union {NoVersion, Unread}
  /\ moved \in 0..ChunkBytes + 1
  /\ printer \in Printers

Init ==
  /\ state = "DISCONNECTED"
  /\ opened = FALSE
  /\ version = NoVersion
  /\ op = "none" /\ at = "idle" /\ attempt = 0
  /\ uploadCompleted = FALSE
  /\ outcome = [op |-> "none", category |-> "NONE",
                retry |-> "SAFE_AUTOMATIC", bytes |-> 0, attempts |-> 0]
  /\ link = "none" /\ live = FALSE /\ seen = Unread
  /\ moved = 0
  /\ printer \in {p \in Printers : ~p.loaded /\ p.uploads = 0
                                      /\ ~p.unnoticed}

-----------------------------------------------------------------------------
(* Parts shared by the calls *)

\* Mutant: the hplj_release is forgotten.
CloseWithoutRelease(newState) ==
  state' = newState /\ UNCHANGED <<opened, transport>>

\* hplj_release followed by device->state = newState
Close(newState) ==
  /\ state' = newState
  /\ opened' = FALSE
  /\ IF opened
     THEN link' = "none" /\ live' = FALSE /\ seen' = Unread
     ELSE UNCHANGED transport

\* The call returns an hplj_device_result.
Return(category, retry, bytes) ==
  /\ outcome' = [op |-> op, category |-> category, retry |-> retry,
                 bytes |-> bytes, attempts |-> attempt]
  /\ op' = "none" /\ at' = "idle" /\ attempt' = 0
  /\ uploadCompleted' = FALSE
  /\ moved' = moved + bytes

\* The call goes on: its next callback is step.
Continue(step) ==
  /\ at' = step
  /\ UNCHANGED <<op, attempt, uploadCompleted, outcome, moved>>

\* A call that settles before its first callback.
Settle(name, category, retry) ==
  /\ outcome' = [op |-> name, category |-> category, retry |-> retry,
                 bytes |-> 0, attempts |-> 0]
  /\ moved' = 0
  /\ UNCHANGED call

\* A call that reaches its first callback.
Begin(name, step) ==
  /\ op' = name /\ at' = step /\ attempt' = 1
  /\ moved' = 0
  /\ UNCHANGED <<uploadCompleted, outcome>>

\* What a failing callback can report on the current handle.
Fault(category) ==
  IF live THEN category \in {"DEVICE_TIMEOUT", "DEVICE_PROTOCOL"}
          ELSE category = "DEVICE_DISCONNECTED"

\* Mutant: any reported version will do.
MatchesAny(have, want) == want # NoVersion /\ have # NoVersion

\* hplj_firmware_version_matches
Matches(have, want) == want # NoVersion /\ have = want

-----------------------------------------------------------------------------
(* The retry loops of hplj_device_connect and bootstrap_firmware *)

\* The attempt failed with the handle already released: the loop reconnects.
AnotherAttempt ==
  /\ attempt < MaxAttempts
  /\ attempt' = attempt + 1
  /\ at' = "discover"
  /\ Close("DISCONNECTED")
  /\ UNCHANGED <<op, uploadCompleted, outcome, moved>>

\* Both loops end: connect stays DISCONNECTED, bootstrap gives up for good.
LastAttempt(category) ==
  /\ attempt = MaxAttempts
  /\ \/ /\ op = "connect"
        /\ Close("DISCONNECTED")
        /\ Return(category, "EXPLICIT", 0)
     \/ /\ op = "bootstrap" /\ uploadCompleted
        /\ Close("FIRMWARE_UNVERIFIED")
        /\ Return("FIRMWARE_UNVERIFIED", "EXPLICIT", 0)
     \/ /\ op = "bootstrap" /\ ~uploadCompleted
        /\ Close("FIRMWARE_TRANSFER_FAILED")
        /\ Return("FIRMWARE_TRANSFER_FAILED", "EXPLICIT", 0)

\* How connect_once's callers take its failure: two categories return at
\* once, the others use up an attempt.
ConnectFailed(category) ==
  \/ /\ category = "DEVICE_PROTOCOL"
     /\ Close("DISCONNECTED")
     /\ Return(category, "SAFE_AUTOMATIC", 0)
  \/ /\ category # "DEVICE_PROTOCOL"
     /\ AnotherAttempt \/ LastAttempt(category)

-----------------------------------------------------------------------------
(* hplj_connect_once: discover, open, claim, identify *)

Discover ==
  /\ at = "discover"
  /\ \/ /\ printer.attached /\ printer.kind # "foreign"
        /\ live' = TRUE
        /\ Continue("open")
        /\ UNCHANGED <<device, link, seen>>
     \/ /\ printer.attached /\ printer.kind = "foreign"
        /\ state' = "UNSUPPORTED"
        /\ Return("UNSUPPORTED_DEVICE", "EXPLICIT", 0)
        /\ UNCHANGED <<opened, transport>>
     \/ /\ ~printer.attached
        /\ ConnectFailed("DEVICE_DISCONNECTED")
     \/ ConnectFailed("DEVICE_PROTOCOL")
  /\ UNCHANGED <<version, printer>>

Open ==
  /\ at = "open"
  /\ \/ /\ live
        /\ opened' = TRUE
        /\ link' = "open"
        /\ Continue("claim")
        /\ UNCHANGED <<state, live, seen>>
     \/ \E c \in Faults : Fault(c) /\ ConnectFailed(c)
  /\ UNCHANGED <<version, printer>>

Claim ==
  /\ at = "claim"
  /\ \/ /\ live
        /\ link' = "claimed"
        /\ Continue("identify")
        /\ UNCHANGED <<device, live, seen>>
     \/ \E c \in Faults : Fault(c) /\ ConnectFailed(c) /\ UNCHANGED version
  /\ UNCHANGED printer

\* Where bootstrap goes on with a reconnected printer that shows no firmware.
Resume == IF uploadCompleted THEN "verify" ELSE "upload"

\* What the callers of connect_once do once it has succeeded.
Connected ==
  \/ /\ op = "connect"
     /\ state' = IF version' # NoVersion THEN "FIRMWARE_PRESENT"
                                         ELSE "PRE_FIRMWARE"
     /\ Return("NONE", "SAFE_AUTOMATIC", 0)
  \/ /\ op = "bootstrap" /\ version' # NoVersion /\ Matches(version', ExpectedVersion)
     /\ state' = "READY"
     /\ Return("NONE", "SAFE_AUTOMATIC", 0)
  \/ /\ op = "bootstrap" /\ version' # NoVersion /\ ~Matches(version', ExpectedVersion)
     /\ state' = "FIRMWARE_UNVERIFIED"
     /\ Return("FIRMWARE_UNVERIFIED", "EXPLICIT", 0)
  \/ /\ op = "bootstrap" /\ version' = NoVersion
     /\ state' = "PRE_FIRMWARE"
     /\ Continue(Resume)

\* (ghost) With an answer the handle is vouched for again, without it is gone.
Asked == [printer EXCEPT !.unnoticed = FALSE]

Identify ==
  /\ at = "identify"
  /\ \/ /\ live /\ printer.kind = "reference"
        /\ version' = printer.running
        /\ seen' = printer.running
        /\ Connected
        /\ UNCHANGED <<opened, link, live>>
     \/ /\ live /\ printer.kind # "reference"
        /\ Close("UNSUPPORTED")
        /\ Return("UNSUPPORTED_DEVICE", "EXPLICIT", 0)
        /\ UNCHANGED version
     \/ /\ live                                    \* malformed identity
        /\ Close("DISCONNECTED")
        /\ Return("DEVICE_PROTOCOL", "EXPLICIT", 0)
        /\ UNCHANGED version
     \/ \E c \in Faults : Fault(c) /\ ConnectFailed(c) /\ UNCHANGED version
  /\ printer' = Asked

Connect ==
  /\ op = "none" /\ state = "DISCONNECTED"
  /\ Begin("connect", "discover")
  /\ UNCHANGED <<device, transport, printer>>

-----------------------------------------------------------------------------
(* hplj_device_bootstrap_firmware *)

\* The part of the function before its loop.
Bootstrap(withImage, version0) ==
  /\ op = "none"
  /\ \/ /\ state \in {"READY", "FIRMWARE_PRESENT"}
        /\ Matches(version, version0)
        /\ state' = "READY"
        /\ Settle("bootstrap", "NONE", "SAFE_AUTOMATIC")
     \/ /\ state \in {"READY", "FIRMWARE_PRESENT"}
        /\ ~Matches(version, version0)
        /\ state' = "FIRMWARE_UNVERIFIED"
        /\ Settle("bootstrap", "FIRMWARE_UNVERIFIED", "EXPLICIT")
     \/ /\ state \in {"PRE_FIRMWARE", "AWAITING_FIRMWARE"}
        /\ ~withImage
        /\ state' = "AWAITING_FIRMWARE"
        /\ Settle("bootstrap", "FIRMWARE_MISSING", "NEVER")
     \/ /\ state \in {"PRE_FIRMWARE", "AWAITING_FIRMWARE"}
        /\ withImage /\ version0 = NoVersion
        /\ state' = "FIRMWARE_UNVERIFIED"
        /\ Settle("bootstrap", "FIRMWARE_UNVERIFIED", "EXPLICIT")
     \/ /\ state \in {"PRE_FIRMWARE", "AWAITING_FIRMWARE"}
        /\ withImage /\ version0 # NoVersion
        /\ Begin("bootstrap", "upload")
        /\ UNCHANGED state
  /\ UNCHANGED <<opened, version, transport, printer>>

AfterUpload == [printer EXCEPT !.loaded = TRUE]
CountUpload == [AfterUpload EXCEPT !.uploads = IF @ < 2 THEN @ + 1 ELSE 2]

\* Mutant: the handle survives a failed upload, and the next attempt uploads
\* over it without asking the printer again.
UploadFailedKeepsHandle(c) ==
  \/ /\ attempt < MaxAttempts
     /\ attempt' = attempt + 1
     /\ seen' = Unread
     /\ UNCHANGED <<state, opened, link, live, op, at, uploadCompleted, outcome,
                    moved>>
  \/ LastAttempt(c)

\* The upload failed: the loop reconnects, or gives up.
UploadFailed(c) == AnotherAttempt \/ LastAttempt(c)

\* The upload callback, between the two 10 s waits. A failing upload may
\* still have delivered the whole image.
Upload ==
  /\ at = "upload"
  /\ \/ /\ live
        /\ printer' = CountUpload
        /\ uploadCompleted' = TRUE
        /\ at' = "verify"
        /\ seen' = Unread
        /\ UNCHANGED <<device, link, live, op, attempt, outcome, moved>>
     \/ /\ \E c \in Faults : Fault(c) /\ UploadFailed(c)
        /\ printer' \in IF live THEN {printer, AfterUpload} ELSE {printer}
        /\ UNCHANGED version

\* hplj_verify_post_upload and what the loop makes of its result
Verify ==
  /\ at = "verify"
  /\ \/ /\ \E c \in Faults : Fault(c)
                             /\ (AnotherAttempt \/ LastAttempt(c))
        /\ UNCHANGED version
     \/ /\ live                                    \* malformed identity
        /\ Close("FIRMWARE_UNVERIFIED")
        /\ Return("DEVICE_PROTOCOL", "EXPLICIT", 0)
        /\ UNCHANGED version
     \/ /\ live /\ printer.kind # "reference"
        /\ Close("UNSUPPORTED")
        /\ Return("UNSUPPORTED_DEVICE", "EXPLICIT", 0)
        /\ UNCHANGED version
     \/ /\ live /\ printer.kind = "reference"
        /\ version' = printer.running
        /\ \/ /\ version' = NoVersion /\ attempt < MaxAttempts
              /\ state' = "PRE_FIRMWARE"
              /\ seen' = NoVersion
              /\ attempt' = attempt + 1
              /\ UNCHANGED <<opened, link, live, op, at, uploadCompleted,
                             outcome, moved>>
           \/ /\ version' = NoVersion /\ LastAttempt("FIRMWARE_UNVERIFIED")
           \/ /\ version' # NoVersion /\ ~Matches(version', ExpectedVersion)
              /\ Close("FIRMWARE_UNVERIFIED")
              /\ Return("FIRMWARE_UNVERIFIED", "EXPLICIT", 0)
           \/ /\ version' # NoVersion /\ Matches(version', ExpectedVersion)
              /\ state' = "READY"
              /\ seen' = version'
              /\ Return("NONE", "SAFE_AUTOMATIC", 0)
              /\ UNCHANGED <<opened, link, live>>
  /\ printer' = Asked

-----------------------------------------------------------------------------
(* hplj_device_send and hplj_device_send_once *)

SendLimit == IF op = "send" THEN MaxAttempts ELSE 1

Send(name) ==
  /\ op = "none" /\ name \in {"send", "send_once"}
  /\ state = "READY"
  /\ \/ Begin(name, "write")
     \/ Settle(name, "CANCELLED", "NEVER")
  /\ UNCHANGED <<device, transport, printer>>

\* What the write callback can report: any category with any byte count on a
\* live handle, nothing but a disconnection on a dead one.
Transfers ==
  IF live
  THEN [category: {"NONE", "DEVICE_TIMEOUT", "DEVICE_PROTOCOL",
                   "DEVICE_DISCONNECTED", "TRANSFER_INCOMPLETE"},
        bytes: 0..ChunkBytes + 1]
  ELSE [category: {"DEVICE_DISCONNECTED"}, bytes: {0}]

OrIncomplete(category) ==
  IF category = "NONE" THEN "TRANSFER_INCOMPLETE" ELSE category

\* One iteration of the loop of hplj_device_send_attempts, in the order of its
\* tests.
Ambiguous(t) ==
  /\ t.bytes > ChunkBytes
  /\ Close("DISCONNECTED")
  /\ Return("DEVICE_PROTOCOL", "EXPLICIT", t.bytes)

Accepted(t) ==
  /\ t.category = "NONE" /\ t.bytes = ChunkBytes
  /\ Return("NONE", "SAFE_AUTOMATIC", t.bytes)
  /\ UNCHANGED <<state, opened, transport>>

CutShort(t) ==
  /\ t.bytes \in 1..ChunkBytes
  /\ ~(t.category = "NONE" /\ t.bytes = ChunkBytes)
  /\ Close("DISCONNECTED")
  /\ Return(OrIncomplete(t.category), "EXPLICIT", t.bytes)

Lost == {"DEVICE_DISCONNECTED", "DEVICE_PROTOCOL"}

LostUnsent(t) ==
  /\ t.bytes = 0 /\ t.category \in Lost
  /\ Close("DISCONNECTED")
  /\ Return(t.category, "SAFE_AUTOMATIC", 0)

\* Mutants: a partial transfer is retried, and attempts are not counted.
TryAgainAfterBytes(t) ==
  /\ t.bytes \in 0..ChunkBytes /\ t.category \notin Lost
  /\ attempt < SendLimit
  /\ attempt' = attempt + 1
  /\ moved' = moved + t.bytes
  /\ UNCHANGED <<state, opened, transport, op, at, uploadCompleted, outcome>>
TryAgainForever(t) ==
  /\ t.bytes = 0 /\ t.category \notin Lost
  /\ attempt' = IF attempt < SendLimit THEN attempt + 1 ELSE 1
  /\ UNCHANGED <<state, opened, transport, op, at, uploadCompleted, outcome,
                 moved>>

TryAgain(t) ==
  /\ t.bytes = 0 /\ t.category \notin Lost
  /\ attempt < SendLimit
  /\ attempt' = attempt + 1
  /\ moved' = moved + t.bytes
  /\ UNCHANGED <<state, opened, transport, op, at, uploadCompleted, outcome>>

GiveUp(t) ==
  /\ t.bytes = 0 /\ t.category \notin Lost
  /\ attempt = SendLimit
  /\ Return(OrIncomplete(t.category), "EXPLICIT", 0)
  /\ UNCHANGED <<state, opened, transport>>

Transfer(t) == \/ Ambiguous(t) \/ Accepted(t) \/ CutShort(t)
               \/ LostUnsent(t) \/ TryAgain(t) \/ GiveUp(t)

Write ==
  /\ at = "write"
  /\ \E t \in Transfers : Transfer(t)
  /\ UNCHANGED <<version, printer>>

-----------------------------------------------------------------------------
(* hplj_device_revalidate, hplj_device_get_status, hplj_device_disconnect *)

Revalidate ==
  /\ op = "none" /\ state = "READY" /\ opened
  /\ Begin("revalidate", "reread")
  /\ UNCHANGED <<device, transport, printer>>

\* Mutant: only the version is forgotten.
DisconnectedKeepsHandle ==
  version' = NoVersion /\ UNCHANGED <<state, opened, transport>>

\* hplj_device_disconnect, inside another call or on its own
Disconnected == version' = NoVersion /\ Close("DISCONNECTED")

Reread ==
  /\ at = "reread"
  /\ \/ /\ \E c \in Faults : Fault(c) /\ Return(c, "SAFE_AUTOMATIC", 0)
        /\ Disconnected
     \/ /\ live                                    \* malformed identity
        /\ Return("DEVICE_PROTOCOL", "SAFE_AUTOMATIC", 0)
        /\ Disconnected
     \/ /\ live /\ printer.kind # "reference"
        /\ Return("UNSUPPORTED_DEVICE", "EXPLICIT", 0)
        /\ version' = NoVersion /\ Close("UNSUPPORTED")
     \/ /\ live /\ printer.kind = "reference"
        /\ version' = printer.running
        /\ \/ /\ version' = NoVersion
              /\ state' = "PRE_FIRMWARE"
              /\ seen' = NoVersion
              /\ Return("FIRMWARE_MISSING", "SAFE_AUTOMATIC", 0)
              /\ UNCHANGED <<opened, link, live>>
           \/ /\ version' # NoVersion /\ ~Matches(version', ExpectedVersion)
              /\ Close("FIRMWARE_UNVERIFIED")
              /\ Return("FIRMWARE_UNVERIFIED", "EXPLICIT", 0)
           \/ /\ version' # NoVersion /\ Matches(version', ExpectedVersion)
              /\ seen' = version'
              /\ Return("NONE", "SAFE_AUTOMATIC", 0)
              /\ UNCHANGED <<state, opened, link, live>>
  /\ printer' = Asked

GetStatus ==
  /\ op = "none" /\ state = "READY" /\ opened
  /\ Begin("get_status", "status")
  /\ UNCHANGED <<device, transport, printer>>

ReadStatus ==
  /\ at = "status"
  /\ \/ /\ live
        /\ Return("NONE", "SAFE_AUTOMATIC", 0)
        /\ UNCHANGED <<device, transport>>
     \/ /\ \E c \in Faults : Fault(c) /\ Return(c, "SAFE_AUTOMATIC", 0)
        /\ Disconnected
  /\ UNCHANGED printer

\* hplj_device_disconnect and hplj_device_suspend called on their own
Disconnect ==
  /\ op = "none"
  /\ Disconnected
  /\ UNCHANGED <<call, outcome, moved, printer>>

\* Every call refuses a state it is not meant for.
Refused(name) ==
  \/ name = "connect" /\ state # "DISCONNECTED"
  \/ /\ name = "bootstrap"
     /\ state \notin {"READY", "FIRMWARE_PRESENT", "PRE_FIRMWARE",
                      "AWAITING_FIRMWARE"}
  \/ name \in {"send", "send_once"} /\ state # "READY"
  \/ name \in {"revalidate", "get_status"} /\ (state # "READY" \/ ~opened)

Refuse(name) ==
  /\ op = "none" /\ Refused(name)
  /\ Settle(name, "INVALID_STATE", "NEVER")
  /\ UNCHANGED <<device, transport, printer>>

-----------------------------------------------------------------------------
(* The printer, its cable and its power (outside the program) *)

Attach(kind) ==
  /\ ~printer.attached
  /\ printer' = IF kind = printer.kind
                THEN [printer EXCEPT !.attached = TRUE]
                ELSE [attached |-> TRUE, kind |-> kind, running |-> NoVersion,
                      loaded |-> FALSE, uploads |-> 0, unnoticed |-> FALSE]
  /\ UNCHANGED <<device, call, outcome, transport, moved>>

\* The cable is pulled, or the host sleeps: every handle goes stale.
Detach ==
  /\ printer.attached
  /\ printer' = [printer EXCEPT !.attached = FALSE]
  /\ live' = FALSE
  /\ UNCHANGED <<device, call, outcome, link, seen, moved>>

\* The printer re-enumerates without its firmware. The open handle may
\* survive, the case hplj_device_revalidate is written for.
PowerCycle ==
  /\ live' \in {FALSE, live}
  /\ printer' = [printer EXCEPT !.running = NoVersion, !.loaded = FALSE,
                                !.uploads = 0, !.unnoticed = live']
  /\ UNCHANGED <<device, call, outcome, link, seen, moved>>

\* The printer starts the image it received, some time after the upload.
Boot(v) ==
  /\ printer.loaded /\ printer.running = NoVersion
  /\ printer' = [printer EXCEPT !.running = v]
  /\ UNCHANGED <<device, call, outcome, transport, moved>>

-----------------------------------------------------------------------------
Callback == \/ Discover \/ Open \/ Claim \/ Identify
            \/ Upload \/ Verify
            \/ Write
            \/ Reread \/ ReadStatus

\* The calls the service makes while it serves.
Serving == \/ Connect
           \/ \E withImage \in BOOLEAN, v \in {ExpectedVersion, NoVersion} :
                Bootstrap(withImage, v)
           \/ \E name \in {"send", "send_once"} : Send(name)
           \/ Revalidate
           \/ GetStatus
           \/ \E name \in Ops : Refuse(name)

Environment == \/ \E kind \in Kinds : Attach(kind)
               \/ Detach
               \/ PowerCycle
               \/ \E v \in Versions : Boot(v)

Next == Callback \/ Serving \/ Disconnect \/ Environment

Spec == Init /\ [][Next]_vars

\* One service process that is not shut down: no Disconnect of its own.
ServingSpec == Init /\ [][Callback \/ Serving \/ Environment]_vars

\* A callback returns: every transfer of usb_libusb.c has a 5 s timeout.
FairSpec == Spec /\ WF_vars(Callback)
-----------------------------------------------------------------------------
(* Safety *)

\* src/device.c keeps one handle at most and forgets none: opened says
\* whether the transport holds one, connect_once never opens a second one, and
\* a device that is disconnected, unsupported or whose transfer failed holds
\* none.
HandleDiscipline ==
  /\ opened <=> link # "none"
  /\ at \in {"discover", "open"} => ~opened
  /\ state \in {"DISCONNECTED", "UNSUPPORTED", "FIRMWARE_TRANSFER_FAILED"}
       => \/ ~opened
          \/ at \in {"claim", "identify"}

\* A READY device holds a claimed handle, and the last identity read on that
\* very handle reported the expected firmware version: no path of bootstrap or
\* revalidate leaves READY standing on a version read elsewhere or before.
ReadyIsVouched ==
  state = "READY" =>
    /\ link = "claimed"
    /\ seen = ExpectedVersion
    /\ version = ExpectedVersion

\* FW-002: the firmware is uploaded only over a claimed handle over which the
\* printer has shown no FWVER since the last image went over it, and never
\* again in a bootstrap one of whose uploads has completed.
UploadOnlyWhenAbsent ==
  at = "upload" => /\ link = "claimed"
                   /\ seen = NoVersion
                   /\ ~uploadCompleted

\* FW-002 as the printer sees it. An image that can arrive goes to an HP
\* LaserJet 1020, over a handle on which it has shown no firmware since the
\* last image, whatever retries, reconnections and exchanges of the printer lie
\* between. One that runs firmware all the same has started it, from an image
\* that was sent in this power cycle, since it was asked: no printer that came
\* with firmware is sent any. (That a printer may be sent its image twice, see
\* OneUploadPerPowerCycle.)
UploadReachesBlankPrinter ==
  /\ UploadOnlyWhenAbsent
  /\ at = "upload" /\ live =>
       /\ printer.kind = "reference"
       /\ printer.running # NoVersion => printer.loaded

\* FW-003: a print byte leaves only while the device is READY (and so vouched
\* for), over the handle that was vouched for.
PrintOnlyWhenReady ==
  at = "write" => state = "READY" /\ opened

\* FW-003 as the printer sees it. Print bytes that can arrive arrive at an HP
\* LaserJet 1020 that runs the expected firmware at that moment, unless it has
\* lost power since its last identity and the handle has survived that.
PrintReachesVerifiedPrinter ==
  at = "write" /\ live /\ ~printer.unnoticed =>
    printer.kind = "reference" /\ printer.running = ExpectedVersion

\* FW-008: the result of a transfer tells the truth about the retry boundary.
\* It accounts for every byte that left the host in any of the call's attempts:
\* a success is the whole buffer, once, and a failure that may be retried
\* automatically has moved nothing.
TransferResultIsHonest ==
  op = "none" /\ outcome.op \in {"send", "send_once"} =>
    /\ moved = outcome.bytes
    /\ outcome.category = "NONE" => outcome.bytes = ChunkBytes
    /\ outcome.category # "NONE" /\ outcome.bytes > 0
         => outcome.retry = "EXPLICIT"

\* A transfer that ends in failure after bytes were sent never leaves a usable
\* device behind: the next job starts from discovery.
PartialTransferDisconnects ==
  [][(op \in {"send", "send_once"} /\ op' = "none"
        /\ outcome'.category # "NONE" /\ outcome'.bytes > 0)
     => state' = "DISCONNECTED" /\ ~opened']_vars

\* FW-004 (docs/IMPLEMENTATION-SPEC.md:176): "Firmware bootstrap MUST be
\* idempotent per printer power cycle", and the transition table's "transfer
\* once". The code does not keep this: see the README.
OneUploadPerPowerCycle == printer.uploads <= 1

-----------------------------------------------------------------------------
(* Liveness *)

\* The loops are bounded: every call of the device API returns, whatever the
\* printer does meanwhile.
CallsReturn == op # "none" ~> op = "none"

-----------------------------------------------------------------------------
(* Refinement *)

\* The contract hides what a call does until it returns.
Contract == INSTANCE DeviceContract WITH
  status  <- IF op = "none" THEN state ELSE "BUSY",
  held    <- op = "none" /\ opened,
  running <- op,
  result  <- [op |-> outcome.op, category |-> outcome.category,
              retry |-> outcome.retry, bytes |-> outcome.bytes]

\* src/device.c keeps the contract the job lifecycle and the service rely on:
\* each call ends in one of the listed combinations of state, handle and
\* result, however the printer misbehaves during it.
ImplementsContract == Contract!Spec
=============================================================================
