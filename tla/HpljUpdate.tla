----------------------------- MODULE HpljUpdate -----------------------------
(***************************************************************************)
(* Updates and rollbacks of the installed service (class Transaction and   *)
(* MacRuntime of scripts/personal_update.py): a helper that runs one       *)
(* command after the other, each of which may fail, and that may be killed *)
(* between any two; the journal it leaves behind; and the installed        *)
(* service, which launchd restarts and users send jobs to meanwhile.       *)
(*                                                                         *)
(* The helper is a program counter in the form of the steps it still has   *)
(* to do. A step that raises hands over to the except clause around it:    *)
(* the forward steps to recover, the steps of recover to stop.             *)
(*                                                                         *)
(* Abstractions:                                                           *)
(* - a payload is its version: 1 at first, r + 1 in the update of run r;   *)
(* - the six DATA directories are one artifact: the version that ran on it *)
(*   last, its state-version and its unfinished jobs, at most one;         *)
(* - a durable_json, a rename and a command is one step; a copy goes to a  *)
(*   fresh place and counts when its inventory is written;                 *)
(* - a failing command has no effect: having had one is the same as the    *)
(*   failure of the next step;                                             *)
(* - jobs waiting in CUPS, outside the replaced directories, are left out. *)
(***************************************************************************)
EXTENDS Integers, Sequences

CONSTANTS
  MaxRuns,      \* transactions begun
  Unreliable,   \* the steps that can fail although nothing is in their way
  Meanwhile     \* the other commands of the administrator that can come in
                \* the middle of a transaction

ASSUME UpdateAssumption ==
  /\ MaxRuns \in Nat \ {0}
  /\ Unreliable \subseteq STRING
  /\ Meanwhile \subseteq {"enable", "disable"}

VARIABLES
  \* the files: the installation, the snapshots "before" of each run,
  \* previous.json, pending.json, last-result.json, system.state.update-held
  live, before, previous, journal, result, held,
  \* the host: does CUPS accept, is the launchd job enabled, does the service
  \* run, and does it accept jobs
  cups, enabled, running, accepting,
  \* the helper: the steps left, the clause they are in, the record in memory
  todo, clause, record,
  \* transactions begun, an "enable" that has found no journal, (ghost) the
  \* payload before and after the last transaction, and (ghost) whether
  \* commands have stopped failing
  runs, enabling, origin, target, calm

files  == <<live, before, previous, journal, result, held>>
host   == <<cups, enabled, running, accepting>>
helper == <<todo, clause, record>>
ghosts == <<origin, target, calm>>
kept   == <<runs, enabling, ghosts>>
vars   == <<files, host, helper, kept>>

Absent  == 0
NoData  == [by |-> 0, schema |-> 0, jobs |-> 0]
Partial == [payload |-> Absent, data |-> NoData, plist |-> Absent]

Versions == 1..MaxRuns + 1
Phases == {"none", "preparing", "admission", "stopping", "backed-up",
           "migrating", "starting", "healthy", "committed", "restoring"}
Results == {"none", "updated", "rolled-back", "unchanged", "deferred",
            "prepare-failed", "update-complete", "rollback-complete"}
Records == [phase: Phases, run: 0..MaxRuns,
            operation: {"update", "rollback"}, outcome: Results]
Trees == [payload: Versions \union {Absent},
          data: [by: Versions \union {0}, schema: 0..1, jobs: 0..1],
          plist: Versions \union {Absent}]
Commands == {"phase", "commit", "stage", "mark", "reject", "close", "no_jobs",
             "disable", "bootout", "stopped", "copy", "inventory", "verify",
             "park", "install", "migrate", "enable", "bootstrap", "up",
             "health", "pointer", "unmark", "open", "accept", "ready",
             "finish", "record"}

\* A step: what to do, to what, and from which run's snapshot
Step(do, what, run) == [do |-> do, what |-> what, run |-> run]
Do(do)    == <<Step(do, "none", 0)>>
Phase(p)  == <<Step("phase", p, 0)>>
Commit(o) == <<Step("commit", o, 0)>>
Finish(o) == <<Step("finish", o, 0)>>

\* update-held is written where admission is closed and before a start.
Mark(where) == <<Step("mark", where, 0)>>

\* The steps there are: the data are installed from a snapshot only.
Steps ==
  [do: {"phase"}, what: Phases \ {"none"}, run: {0}]
  \union [do: {"commit", "finish"}, what: Results, run: {0}]
  \union [do: {"mark"}, what: {"admission", "start"}, run: {0}]
  \union [do: {"inventory", "verify"}, what: {"none"}, run: 1..MaxRuns]
  \union [do: {"park", "install"}, what: {"payload", "plist"}, run: 0..MaxRuns]
  \union [do: {"park", "install"}, what: {"data"}, run: 1..MaxRuns]
  \union [do: Commands \ {"phase", "commit", "finish", "mark", "inventory",
                          "verify", "park", "install"},
          what: {"none"}, run: {0}]

TypeOK ==
  /\ live \in Trees /\ before \in [1..MaxRuns -> Trees]
  /\ previous \in 0..MaxRuns /\ journal \in Records /\ result \in Results
  /\ held \in BOOLEAN /\ cups \in BOOLEAN /\ enabled \in BOOLEAN
  /\ running \in BOOLEAN /\ accepting \in BOOLEAN
  /\ todo \in Seq(Steps)
  /\ clause \in {"try", "except", "recover", "stop"}
  /\ record \in Records
  /\ runs \in 0..MaxRuns /\ enabling \in BOOLEAN /\ origin \in Versions /\ target \in Versions
  /\ calm \in BOOLEAN

NoRecord == [phase |-> "none", run |-> 0, operation |-> "update",
             outcome |-> "none"]

Init ==
  /\ live = [payload |-> 1, data |-> [by |-> 1, schema |-> 0, jobs |-> 0],
             plist |-> 1]
  /\ before = [r \in 1..MaxRuns |-> Partial]
  /\ previous = 0 /\ journal = NoRecord /\ result = "none" /\ held = FALSE
  /\ cups = TRUE /\ enabled = TRUE /\ running = TRUE /\ accepting = TRUE
  /\ todo = <<>> /\ clause = "try" /\ record = NoRecord
  /\ runs = 0 /\ enabling = FALSE /\ origin = 1 /\ target = 1 /\ calm = FALSE

-----------------------------------------------------------------------------
(* The steps of the helper, in order *)

\* Mutant: nothing tells a restarted service to stay closed.
CloseUntilRestart == Do("reject") \o Do("close") \o Do("no_jobs")

CloseAdmission == Mark("admission") \o Do("reject") \o Do("close") \o Do("no_jobs")

\* disable tries everything and then looks at what it has reached.
Stop == Do("disable") \o Do("bootout") \o Do("stopped")

Start == Mark("start") \o Do("enable") \o Do("bootstrap") \o Do("up")

Release == Do("unmark") \o Do("open") \o Do("accept") \o Do("ready")

\* verify follows snapshot wherever execute calls it.
Snapshot(r) == Do("copy") \o <<Step("inventory", "none", r),
                              Step("verify", "none", r)>>

\* Run 0 stands for the staged payload.
Replace(artifact, r) ==
  <<Step("park", artifact, r), Step("install", artifact, r)>>

\* Mutant: the state the newer payload has left is kept.
RestorePayload(r) ==
  <<Step("verify", "none", r)>> \o Replace("payload", r) \o Replace("plist", r)

Restore(r) == <<Step("verify", "none", r)>> \o Replace("payload", r)
              \o Replace("data", r) \o Replace("plist", r)

\* Mutant: the journal says backed-up before there is a backup.
JournalledEarly(r) == Phase("backed-up") \o Snapshot(r)

BackUp(r) == Snapshot(r) \o Phase("backed-up")

\* The try block of execute; source is the run whose snapshot a rollback
\* restores, 0 in an update.
Forward(r, source) ==
  Phase("preparing")
  \o (IF source = 0 THEN Do("stage") ELSE <<>>)
  \o Phase("admission") \o CloseAdmission
  \o Phase("stopping") \o Stop \o BackUp(r)
  \o (IF source = 0
      THEN Replace("payload", 0) \o Replace("plist", 0)
           \o Phase("migrating") \o Do("migrate")
      ELSE Restore(source))
  \o Phase("starting") \o Start \o Do("health")
  \o Phase("healthy") \o Do("pointer")
  \o Phase("committed") \o Release
  \o Finish(IF source = 0 THEN "updated" ELSE "rolled-back")

Completion(j) == IF j.outcome # "none" THEN j.outcome
                 ELSE IF j.operation = "update" THEN "update-complete"
                 ELSE "rollback-complete"

\* Recovery from a journal that says "stopping", and from every later one
\* before the commit
Restart == Stop \o Start \o Do("health") \o Commit("unchanged") \o Release
           \o Finish("unchanged")

Undo(r) == Stop \o Phase("restoring") \o Restore(r) \o Start \o Do("health")
           \o Commit("rolled-back") \o Release \o Finish("rolled-back")

\* Mutant: a committed transaction is undone as well.
UndoCommitted(j) ==
  CASE j.phase = "preparing" -> Finish("prepare-failed")
    [] j.phase = "admission" -> Release \o Finish("deferred")
    [] j.phase = "stopping"  -> Restart
    [] OTHER                 -> Undo(j.run)

\* Mutant: what is backed up is taken for untouched.
KeepReplacement(j) ==
  CASE j.phase = "committed" -> Do("health") \o Release \o Finish(Completion(j))
    [] j.phase = "preparing" -> Finish("prepare-failed")
    [] j.phase = "admission" -> Release \o Finish("deferred")
    [] j.phase \in {"stopping", "backed-up"} -> Restart
    [] OTHER                 -> Undo(j.run)

\* Mutant: a restoration that was interrupted is not begun again.
RestoreOnce(j) ==
  CASE j.phase = "committed" -> Do("health") \o Release \o Finish(Completion(j))
    [] j.phase = "preparing" -> Finish("prepare-failed")
    [] j.phase = "admission" -> Release \o Finish("deferred")
    [] j.phase = "stopping"  -> Restart
    [] j.phase = "restoring" -> Stop
    [] OTHER                 -> Undo(j.run)

\* recover
Recovery(j) ==
  CASE j.phase = "committed" -> Do("health") \o Release \o Finish(Completion(j))
    [] j.phase = "preparing" -> Finish("prepare-failed")
    [] j.phase = "admission" -> Release \o Finish("deferred")
    [] j.phase = "stopping"  -> Restart
    [] OTHER                 -> Undo(j.run)

-----------------------------------------------------------------------------
(* What a step does *)

Doing(do) == todo # <<>> /\ Head(todo).do = do

Current == Head(todo)

Return == todo' = <<>> /\ clause' = "try" /\ record' = NoRecord

Done == IF Len(todo) = 1 THEN Return
        ELSE todo' = Tail(todo) /\ UNCHANGED <<clause, record>>

\* A snapshot whose inventory was written
Complete(r) == before[r] # Partial

\* What must be the case for a step to succeed
Possible(s) ==
  /\ s.do = "no_jobs" => live.data.jobs = 0
  /\ s.do = "stopped" => ~enabled /\ ~running
  /\ s.do = "verify" => Complete(s.run)
  /\ s.do = "bootstrap" => enabled /\ ~running
  /\ s.do \in {"close", "open", "up", "health"} => running
  /\ s.do = "ready" => running /\ cups

\* The current step, one of these commands, succeeds.
Succeeds(do) == Doing(do) /\ Possible(Current)

\* Steps that only look, and copies to a place nothing refers to yet
Check ==
  /\ \E do \in {"stage", "no_jobs", "stopped", "copy", "verify", "up", "health",
                "ready"} : Succeeds(do)
  /\ Done /\ UNCHANGED <<files, host, kept>>

WritePhase ==
  /\ Doing("phase")
  /\ journal' = [record EXCEPT !.phase = Current.what]
  /\ todo' = Tail(todo) /\ record' = journal'
  /\ UNCHANGED <<live, before, previous, result, held, host, clause, kept>>

WriteCommit ==
  /\ Doing("commit")
  /\ journal' = [record EXCEPT !.phase = "committed", !.outcome = Current.what]
  /\ todo' = Tail(todo) /\ record' = journal'
  /\ UNCHANGED <<live, before, previous, result, held, host, clause, kept>>

WriteGate ==
  /\ \/ Doing("mark") /\ held' = TRUE
     \/ Doing("unmark") /\ held' = FALSE
  /\ Done /\ UNCHANGED <<live, before, previous, journal, result, host, kept>>

\* cupsreject; cupsenable and cupsaccept
SetQueue ==
  /\ \/ Doing("reject") /\ cups' = FALSE
     \/ Doing("accept") /\ cups' = TRUE
  /\ Done /\ UNCHANGED <<files, enabled, running, accepting, kept>>

\* Disable-Printer and Enable-Printer
SetAdmission ==
  /\ \/ Succeeds("close") /\ accepting' = FALSE
     \/ Succeeds("open") /\ accepting' = TRUE
  /\ Done /\ UNCHANGED <<files, cups, enabled, running, kept>>

\* cupsdisable and launchctl disable; launchctl enable
SetEnabled ==
  /\ \/ Doing("disable") /\ enabled' = FALSE /\ cups' = FALSE
     \/ Doing("enable") /\ enabled' = TRUE /\ UNCHANGED cups
  /\ Done /\ UNCHANGED <<files, running, accepting, kept>>

Bootout ==
  /\ Doing("bootout")
  /\ running' = FALSE /\ accepting' = FALSE
  /\ Done /\ UNCHANGED <<files, cups, enabled, kept>>

\* Nothing looks whether launchctl disable and bootout have worked.
Ignored ==
  /\ \E do \in {"disable", "bootout"} : Doing(do) /\ do \in Unreliable
  /\ ~calm
  /\ Done /\ UNCHANGED <<files, host, kept>>

\* The service comes up on the live data, behind the gate.
ServiceStarts ==
  /\ running' = TRUE /\ accepting' = ~held
  /\ live' = [live EXCEPT !.data.by = live.payload]

Bootstrap ==
  /\ Succeeds("bootstrap") /\ ServiceStarts
  /\ Done /\ UNCHANGED <<before, previous, journal, result, held, cups, enabled,
                         kept>>

WriteInventory ==
  /\ Doing("inventory")
  /\ before' = [before EXCEPT ![Current.run] = live]
  /\ Done /\ UNCHANGED <<live, previous, journal, result, held, host, kept>>

Park ==
  /\ Doing("park")
  /\ live' = [live EXCEPT ![Current.what] = Partial[Current.what]]
  /\ Done /\ UNCHANGED <<before, previous, journal, result, held, host, kept>>

\* The staged payload and the plist in it are those of the transaction.
Source(s) == IF s.run = 0 THEN target ELSE before[s.run][s.what]

Install ==
  /\ Doing("install")
  /\ live' = [live EXCEPT ![Current.what] = Source(Current)]
  /\ Done /\ UNCHANGED <<before, previous, journal, result, held, host, kept>>

\* migrate: version 0 becomes 1, version 1 stays.
Migrate ==
  /\ Doing("migrate")
  /\ live' = [live EXCEPT !.data.schema = 1]
  /\ Done /\ UNCHANGED <<before, previous, journal, result, held, host, kept>>

WritePointer ==
  /\ Doing("pointer")
  /\ previous' = record.run
  /\ Done /\ UNCHANGED <<live, before, journal, result, held, host, kept>>

FinishTransaction ==
  /\ Doing("finish")
  /\ result' = Current.what /\ journal' = NoRecord
  /\ Return /\ UNCHANGED <<live, before, previous, held, host, kept>>

\* The except clause of execute: the journal gets the phase of the record in
\* memory, and recover reads it again.
WriteFailure ==
  /\ Doing("record")
  /\ journal' = record
  /\ clause' = "recover" /\ todo' = Recovery(record) /\ UNCHANGED record
  /\ UNCHANGED <<live, before, previous, result, held, host, kept>>

\* phase changes the record before it writes it.
Remembered == IF Current.do = "phase"
              THEN [record EXCEPT !.phase = Current.what] ELSE record

\* A step raises: from the try block to its except clause, from recover to
\* stop unless the transaction is committed, and out of everything else.
Raise ==
  /\ todo # <<>>
  /\ \/ ~Possible(Current)
     \/ ~calm /\ Current.do \in Unreliable \ {"disable", "bootout"}
  /\ \/ clause = "try" /\ clause' = "except" /\ todo' = Do("record")
        /\ record' = Remembered
     \/ clause = "recover" /\ journal.phase # "committed"
        /\ clause' = "stop" /\ todo' = Stop /\ UNCHANGED record
     \/ clause = "recover" /\ journal.phase = "committed" /\ Return
     \/ clause \in {"except", "stop"} /\ Return
  /\ UNCHANGED <<files, host, kept>>

HelperStep ==
  \/ Check \/ WritePhase \/ WriteCommit \/ WriteGate \/ SetQueue
  \/ SetAdmission \/ SetEnabled \/ Bootout \/ Ignored \/ Bootstrap
  \/ WriteInventory \/ Park \/ Install \/ Migrate \/ WritePointer
  \/ FinishTransaction \/ WriteFailure \/ Raise

-----------------------------------------------------------------------------
(* Commands of the administrator, accidents and jobs *)

\* Nothing of this kind runs; the lock keeps out other transactions only.
Idle == todo = <<>> /\ ("enable" \in Meanwhile \/ ~enabling)

Begin(source, version) ==
  /\ Idle /\ journal.phase = "none" /\ runs < MaxRuns
  /\ running /\ accepting /\ cups /\ live.data.jobs = 0   \* preflight
  /\ runs' = runs + 1
  /\ todo' = Forward(runs + 1, source)
  /\ record' = [NoRecord EXCEPT !.run = runs + 1,
                  !.operation = IF source = 0 THEN "update" ELSE "rollback"]
  /\ origin' = live.payload /\ target' = version
  /\ UNCHANGED <<files, host, clause, enabling, calm>>

Update == Begin(0, runs + 2)

Rollback == /\ previous # 0 /\ Complete(previous)
            /\ Begin(previous, before[previous].payload)

Recover ==
  /\ Idle /\ journal.phase # "none"
  /\ clause' = "recover" /\ todo' = Recovery(journal) /\ record' = journal
  /\ UNCHANGED <<files, host, kept>>

\* The helper is killed.
Crash ==
  /\ ~calm /\ todo # <<>> /\ Return
  /\ UNCHANGED <<files, host, kept>>

\* The Mac restarts: launchd starts what is enabled (RunAtLoad).
Reboot ==
  /\ ~calm /\ Return /\ enabling' = FALSE
  /\ IF enabled THEN ServiceStarts
     ELSE running' = FALSE /\ accepting' = FALSE /\ UNCHANGED live
  /\ UNCHANGED <<before, previous, journal, result, held, cups, enabled, runs,
                 ghosts>>

\* The supervisor restarts a provider that has died, and gives up in the end.
ServiceRestarts ==
  /\ running /\ accepting' = ~held
  /\ UNCHANGED <<files, cups, enabled, running, helper, kept>>

ServiceDies ==
  /\ ~calm /\ running
  /\ running' = FALSE /\ accepting' = FALSE
  /\ UNCHANGED <<files, cups, enabled, helper, kept>>

JobArrives ==
  /\ running /\ accepting /\ live.data.jobs = 0
  /\ live' = [live EXCEPT !.data.jobs = 1]
  /\ UNCHANGED <<before, previous, journal, result, held, host, helper, kept>>

JobEnds ==
  /\ running /\ live.data.jobs = 1
  /\ live' = [live EXCEPT !.data.jobs = 0]
  /\ UNCHANGED <<before, previous, journal, result, held, host, helper, kept>>

\* personal_install disable asks for no journal.
UserDisable ==
  /\ ~calm
  /\ "disable" \in Meanwhile \/ (todo = <<>> /\ journal.phase = "none")
  /\ enabled' = FALSE /\ running' = FALSE /\ accepting' = FALSE /\ cups' = FALSE
  /\ UNCHANGED <<files, helper, kept>>

\* personal_install enable looks for a journal once, and then starts the
\* service: it takes no lock.
UserEnableChecks ==
  /\ ~enabling /\ journal.phase = "none"
  /\ "enable" \in Meanwhile \/ todo = <<>>
  /\ enabling' = TRUE
  /\ UNCHANGED <<files, host, helper, runs, ghosts>>

UserEnableStarts ==
  /\ enabling /\ live.payload # Absent /\ live.plist # Absent
  /\ enabling' = FALSE /\ enabled' = TRUE /\ cups' = TRUE /\ ServiceStarts
  /\ UNCHANGED <<before, previous, journal, result, held, helper, runs, ghosts>>

\* From here on commands, the service and the administrator are reliable.
Calm ==
  /\ ~calm /\ calm' = TRUE
  /\ UNCHANGED <<files, host, helper, runs, enabling, origin, target>>

Next ==
  \/ HelperStep \/ Update \/ Rollback \/ Recover \/ Crash \/ Reboot
  \/ ServiceRestarts \/ ServiceDies \/ JobArrives \/ JobEnds \/ UserDisable
  \/ UserEnableChecks \/ UserEnableStarts \/ Calm

Spec == Init /\ [][Next]_vars

\* A helper that runs goes on, and the administrator calls for recovery as
\* long as a journal is left.
FairSpec == Spec /\ WF_vars(HelperStep) /\ WF_vars(Recover)

-----------------------------------------------------------------------------
(* Properties *)

\* Whatever launchd may start is one whole installation: a payload, the plist
\* that came with it, and data no newer payload has written, migrated since
\* the first update (the reason for stop before every replacement).
EnabledIsWhole ==
  enabled \/ running =>
    /\ live.payload # Absent /\ live.plist = live.payload
    /\ live.data.by \in 1..live.payload
    /\ live.payload > 1 => live.data.schema = 1

\* From the journal entry "stopping" to the commit, no job is admitted, even
\* when the service comes up again in between (start, configure_policy); and
\* once no transaction is pending, nothing holds back a service that runs, now
\* or after a restart (release).
GateFollowsJournal ==
  /\ journal.phase \in {"stopping", "backed-up", "migrating", "starting",
                        "healthy", "restoring"}
       => ~(running /\ accepting)
  /\ journal.phase \in {"none", "preparing"} =>
       ~held /\ (running => accepting)

\* Between the backup and the commit the snapshot holds the installation the
\* transaction has found, and nothing live is missing at other times (snapshot,
\* replace, restore).
NothingLost ==
  /\ journal.phase \in {"backed-up", "migrating", "starting", "healthy",
                        "restoring"}
       => LET saved == before[journal.run]
          IN  saved.payload = origin /\ saved.plist = origin
              /\ saved.data.by \in 1..origin
  /\ live.payload = Absent \/ live.plist = Absent \/ live.data.by = 0
       => journal.phase \in {"backed-up", "migrating", "restoring"}

\* No unfinished job is in the data that are replaced, by an update, a
\* rollback or a recovery (the check of no_jobs after admission is closed, and
\* the first branch of recover).
NoJobOverwritten ==
  [][live'.data.by = 0 => live.data.jobs = 0]_vars

\* The outcome that is reported tells which installation is left.
OutcomeIsTrue ==
  [][journal.phase # "none" /\ journal'.phase = "none" =>
       live.payload =
         IF \/ result' \in {"updated", "update-complete", "rollback-complete"}
            \/ /\ result' = "rolled-back" /\ journal.outcome = "none"
               /\ journal.operation = "rollback"
         THEN target ELSE origin]_vars

\* When commands work again, recovery comes to its end, however often it was
\* interrupted before; unless admission is to be opened at a service that is
\* off (see PendingAlwaysRecovers).
PendingRecovers ==
  /\ calm /\ todo = <<>>
  /\ journal.phase # "none"
  /\ journal.phase \in {"admission", "committed"} => running
  ~> journal.phase = "none"

\* README.md: "Recovery can be repeated after another interruption. A failed
\* restoration leaves the service disabled and retains its journal for retry".
PendingAlwaysRecovers ==
  calm /\ journal.phase # "none" ~> journal.phase = "none"

\* REL-003: "Rollback MUST use the exact retained prior payload": what a
\* rollback puts in place is not what is there already.
RollbackGoesBack ==
  [][todo = <<>> /\ todo' # <<>> /\ record'.operation = "rollback"
       /\ record'.phase = "none" => target' # origin']_vars

\* Transaction: "launchd stays persistently disabled across every
\* payload/state replacement."
DisabledWhileReplacing ==
  [][live'.payload # live.payload => ~enabled]_vars
=============================================================================
