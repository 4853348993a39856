-------------------------- MODULE HpljUpdate_proofs --------------------------
(***************************************************************************)
(* Proofs about HpljUpdate: type correctness, the safety invariants and    *)
(* the action properties, for any number of transactions, whatever step    *)
(* fails, is interrupted or ignored, and however often.                    *)
(*                                                                         *)
(* The helper is a program counter in the form of the steps it has left,   *)
(* so an inductive invariant has to say what those steps can be. It does   *)
(* so by adjacency: a plan of the helper (Plans: what it does, in which    *)
(* transaction, from which snapshot, with which outcome) owns steps        *)
(* (Belongs), and of each step says which may come next (Follows); that    *)
(* the blocks of the program and what they are put together to are such    *)
(* sequences is proved once (the Stretch lemmas), and any rest of one is   *)
(* one again (RestOfPlan).                                                 *)
(*                                                                         *)
(* Besides, the invariant says what a journal entry vouches for, whether   *)
(* it is read by the helper that has written it or by a later one          *)
(* (JournalHolds), and what is so when the helper comes to a step (Ready). *)
(* An action is then one lemma: it makes the helper ready for every step   *)
(* that may follow, and it keeps what the journal says.                    *)
(***************************************************************************)
EXTENDS HpljUpdate, TLAPS

\* enable waits for the transaction that runs, for which the code takes no lock:
\* nothing here is about an enable in the middle of a transaction (for which see
\* DisabledWhileReplacing of HpljUpdate).
OneAtATime == "enable" \notin Meanwhile

-----------------------------------------------------------------------------
(* The inductive invariant *)

\* One whole installation: what EnabledIsWhole asks of what may be started
Whole(t) ==
  /\ t.payload # Absent /\ t.plist = t.payload
  /\ t.data.by \in 1..t.payload
  /\ t.payload > 1 => t.data.schema = 1

Off == ~enabled /\ ~running

Gated == {"stopping", "backed-up", "migrating", "starting", "healthy",
          "restoring"}
BackedUp == Gated \ {"stopping"}
Apart == {"backed-up", "migrating", "restoring"}

\* What a journal entry vouches for, whoever reads it and when
JournalHolds(j) ==
  /\ j.phase = "none" => j = NoRecord
  /\ j.phase # "none" => j.run # 0
  /\ j.outcome \in {"none", "unchanged", "rolled-back"}
  /\ j.outcome # "none" => j.phase = "committed"
  /\ j.phase \in {"none", "preparing"} => ~held /\ (running => accepting)
  /\ j.phase \in Gated => held /\ ~accepting /\ live.data.jobs = 0
  /\ j.phase \notin Apart => Whole(live)
  /\ j.phase \in {"backed-up", "migrating"} => Off
  /\ j.phase \in {"preparing", "admission", "stopping"} => live.payload = origin
  /\ j.phase \in {"starting", "healthy"} => live.payload = target
  /\ j.phase = "committed" =>
       live.payload = IF j.outcome = "none" THEN target ELSE origin
  /\ j.phase \in BackedUp => before[j.run].payload = origin

HostHolds ==
  /\ accepting => running
  /\ enabled \/ running => Whole(live)
  /\ enabling => todo = <<>> /\ journal.phase = "none"

\* Snapshots are whole, without jobs, and of the transactions begun.
SnapshotsHold ==
  \A r \in 1..MaxRuns :
    /\ r > runs => before[r] = Partial
    /\ before[r] # Partial => Whole(before[r]) /\ before[r].data.jobs = 0

\* A plan of the helper: what it does, in which transaction, from which
\* snapshot it restores, and the outcome it reports
Trying     == {"update", "rollback"}
Recovering == {"restart", "undo", "finalize", "defer", "abandon"}
Plans == [mode: Trying \union Recovering \union {"record", "stop"},
          run: 1..MaxRuns, source: 0..MaxRuns, outcome: Results]

Is(s, do, what) == s.do = do /\ s.what = what

\* Whether a step belongs to a plan
Belongs(p, s) ==
  /\ s.do = "record" <=> p.mode = "record"
  /\ s.do = "phase" =>
       p.mode \in CASE s.what = "restoring" -> {"undo"}
                    [] s.what = "migrating" -> {"update"}
                    [] OTHER                -> Trying
  /\ s.do \in {"copy", "inventory"} => p.mode \in Trying
  /\ s.do = "inventory" => s.run = p.run
  /\ s.do = "verify" => s.run \in {p.run, p.source}
  /\ s.do \in {"park", "install"} => /\ p.mode \in Trying \union {"undo"}
                                    /\ s.run = p.source
  /\ s.do = "commit" => /\ p.mode \in {"restart", "undo"}
                        /\ s.what = p.outcome
  /\ s.do = "finish" => s.what = p.outcome

\* Whether one step can follow another
Follows(p, s, t) ==
  /\ Is(s, "phase", "preparing") =>
       IF p.mode = "update" THEN t.do = "stage" ELSE Is(t, "phase", "admission")
  /\ s.do = "stage" => Is(t, "phase", "admission")
  /\ Is(s, "phase", "admission") => Is(t, "mark", "admission")
  /\ Is(s, "mark", "admission") => t.do = "reject"
  /\ s.do = "reject" => t.do = "close"
  /\ s.do = "close" => t.do = "no_jobs"
  /\ s.do = "no_jobs" => Is(t, "phase", "stopping")
  /\ Is(s, "phase", "stopping") => t.do = "disable"
  /\ s.do = "disable" => t.do = "bootout"
  /\ s.do = "bootout" => t.do = "stopped"
  /\ s.do = "stopped" =>
       \/ p.mode \in Trying /\ t.do = "copy"
       \/ p.mode = "restart" /\ Is(t, "mark", "start")
       \/ p.mode = "undo" /\ Is(t, "phase", "restoring")
  /\ s.do = "copy" => t.do = "inventory"
  /\ s.do = "inventory" => t.do = "verify" /\ t.run = p.run
  /\ s.do = "verify" =>
       IF p.mode \in Trying /\ s.run = p.run
         THEN Is(t, "phase", "backed-up") ELSE Is(t, "park", "payload")
  /\ Is(s, "phase", "backed-up") =>
       IF p.mode = "update" THEN Is(t, "park", "payload")
       ELSE t.do = "verify" /\ t.run # p.run
  /\ s.do = "park" => Is(t, "install", s.what)
  /\ Is(s, "install", "payload") =>
       Is(t, "park", IF p.mode = "update" THEN "plist" ELSE "data")
  /\ Is(s, "install", "data") => Is(t, "park", "plist")
  /\ Is(s, "install", "plist") =>
       \/ p.mode = "update" /\ Is(t, "phase", "migrating")
       \/ p.mode = "rollback" /\ Is(t, "phase", "starting")
       \/ p.mode = "undo" /\ Is(t, "mark", "start")
  /\ Is(s, "phase", "migrating") => t.do = "migrate"
  /\ s.do = "migrate" => Is(t, "phase", "starting")
  /\ Is(s, "phase", "starting") => Is(t, "mark", "start")
  /\ Is(s, "phase", "restoring") => t.do = "verify"
  /\ Is(s, "mark", "start") => t.do = "enable"
  /\ s.do = "enable" => t.do = "bootstrap"
  /\ s.do = "bootstrap" => t.do = "up"
  /\ s.do = "up" => t.do = "health"
  /\ s.do = "health" =>
       \/ p.mode \in Trying /\ Is(t, "phase", "healthy")
       \/ p.mode \in {"restart", "undo"} /\ t.do = "commit"
       \/ p.mode = "finalize" /\ t.do = "unmark"
  /\ Is(s, "phase", "healthy") => t.do = "pointer"
  /\ s.do = "pointer" => Is(t, "phase", "committed")
  /\ Is(s, "phase", "committed") \/ s.do = "commit" => t.do = "unmark"
  /\ s.do = "unmark" => t.do = "open"
  /\ s.do = "open" => t.do = "accept"
  /\ s.do = "accept" => t.do = "ready"
  /\ s.do = "ready" => t.do = "finish"

\* The steps left are the rest of a plan.
Carries(p, steps) ==
  /\ \A i \in 1..Len(steps) : Belongs(p, steps[i])
  /\ \A i \in 1..Len(steps) - 1 : Follows(p, steps[i], steps[i + 1])
  /\ steps[Len(steps)].do \in {"finish", "record", "stopped"}

\* The phase of a step that several plans have
InPhase(p, trying, undoing) ==
  journal.phase = CASE p.mode \in Trying  -> trying
                    [] p.mode = "restart" -> "stopping"
                    [] p.mode = "undo"    -> undoing
                    [] OTHER              -> "committed"

\* The payload a replacement is to end with
Goal(p) == IF p.mode \in Trying THEN target ELSE origin

\* Files are replaced while the service is off; an update has left the data.
Replacing(p) ==
  /\ Off /\ InPhase(p, "backed-up", "restoring")
  /\ p.mode = "update" => live.data.by \in 1..origin

DataReplaced(p) ==
  p.mode # "update" => /\ live.data.by \in 1..Goal(p)
                       /\ Goal(p) > 1 => live.data.schema = 1

PayloadReplaced(p) == live.payload = Goal(p)

Starting(p) ==
  /\ InPhase(p, "starting", "restoring")
  /\ p.mode = "undo" => Whole(live) /\ live.payload = origin

Releasing(p) ==
  /\ p.mode # "stop"
  /\ journal.phase = CASE p.mode = "defer"   -> "admission"
                       [] p.mode = "abandon" -> "preparing"
                       [] OTHER              -> "committed"

\* What is so when the helper comes to a step
ReadyToBegin(p, s) ==
  /\ Is(s, "phase", "preparing") => journal = NoRecord /\ live.payload = origin
  /\ s.do = "stage" \/ Is(s, "phase", "admission") =>
       journal.phase = "preparing"
  /\ Is(s, "mark", "admission") => journal.phase = "admission"
  /\ s.do \in {"reject", "close", "no_jobs"} \/ Is(s, "phase", "stopping") =>
       journal.phase = "admission" /\ held
  /\ s.do = "no_jobs" \/ Is(s, "phase", "stopping") => ~accepting
  /\ Is(s, "phase", "stopping") => live.data.jobs = 0

ReadyToStop(p, s) ==
  /\ s.do \in {"disable", "bootout", "stopped"} =>
       \/ p.mode = "stop"
       \/ p.mode = "undo" /\ journal.phase \in BackedUp
       \/ p.mode \in Trying \union {"restart"} /\ journal.phase = "stopping"
  /\ s.do \in {"copy", "inventory"} => journal.phase = "stopping" /\ Off
  /\ (s.do = "verify" /\ p.mode \in Trying /\ s.run = p.run)
       \/ Is(s, "phase", "backed-up") =>
       /\ journal.phase = "stopping" /\ Off
       /\ before[p.run].payload = origin
  /\ Is(s, "phase", "restoring") =>
       p.mode = "undo" /\ journal.phase \in BackedUp /\ Off

ReadyToReplace(p, s) ==
  /\ s.do = "verify" /\ ~(p.mode \in Trying /\ s.run = p.run) => Replacing(p)
  /\ s.do \in {"park", "install"} => Replacing(p)
  /\ s.do \in {"park", "install"} /\ s.what \in {"data", "plist"} =>
       PayloadReplaced(p)
  /\ s.do \in {"park", "install"} /\ s.what = "plist" => DataReplaced(p)
  /\ Is(s, "phase", "migrating") =>
       /\ Replacing(p) /\ PayloadReplaced(p) /\ live.plist = target
  /\ s.do = "migrate" =>
       /\ p.mode = "update" /\ Off /\ journal.phase = "migrating"
       /\ live.data.by \in 1..origin
       /\ live.payload = target /\ live.plist = target
  /\ Is(s, "phase", "starting") =>
       /\ journal.phase \in {"backed-up", "migrating"}
       /\ Whole(live) /\ live.payload = target

ReadyToEnd(p, s) ==
  /\ Is(s, "mark", "start")
       \/ s.do \in {"enable", "bootstrap", "up", "health", "commit"} =>
       Starting(p)
  /\ Is(s, "phase", "healthy") => journal.phase = "starting"
  /\ s.do = "pointer" \/ Is(s, "phase", "committed") =>
       journal.phase = "healthy"
  /\ s.do \in {"unmark", "open", "accept", "ready", "finish"} => Releasing(p)
  /\ s.do \in {"open", "accept", "ready", "finish"} => ~held
  /\ s.do \in {"accept", "ready", "finish"} => (running => accepting)

Ready(p, s) == /\ ReadyToBegin(p, s) /\ ReadyToStop(p, s)
               /\ ReadyToReplace(p, s) /\ ReadyToEnd(p, s)

\* How a plan belongs to the clause it is carried out in
TryHolds(p) ==
  /\ p.mode \in Trying /\ record.operation = p.mode /\ record.run = runs
  /\ record.outcome = "none"
  /\ \/ journal = record
     \/ /\ journal = NoRecord /\ record.phase = "none"
        /\ Is(todo[1], "phase", "preparing")
  /\ IF p.mode = "update"
       THEN p.source = 0 /\ origin <= target /\ p.outcome = "updated"
       ELSE /\ p.source \notin {0, p.run} /\ before[p.source].payload = target
            /\ p.outcome = "rolled-back"

RecoverHolds(p) ==
  /\ p.mode \in Recovering /\ record = journal
  /\ p.outcome = CASE p.mode = "restart"  -> "unchanged"
                   [] p.mode = "undo"     -> "rolled-back"
                   [] p.mode = "finalize" -> Completion(journal)
                   [] p.mode = "defer"    -> "deferred"
                   [] p.mode = "abandon"  -> "prepare-failed"
  /\ p.mode \in {"restart", "undo"} /\ journal.phase = "committed" =>
       journal.outcome = p.outcome
  /\ p.mode = "undo" => p.source = p.run

ClauseHolds(p) ==
  /\ p.run = record.run
  /\ clause = "try" => TryHolds(p)
  /\ clause = "except" => /\ p.mode = "record" /\ JournalHolds(record)
                          /\ record.phase # "none"
  /\ clause = "recover" => RecoverHolds(p)
  /\ clause = "stop" => p.mode = "stop"

HelperHolds ==
  IF todo = <<>> THEN clause = "try" /\ record = NoRecord
  ELSE \E p \in Plans : /\ Carries(p, todo) /\ ClauseHolds(p)
                        /\ Ready(p, todo[1])

VersionsHold ==
  /\ live.payload <= runs + 1 /\ target <= runs + 1
  /\ \A r \in 1..MaxRuns : before[r].payload <= runs + 1

Inv == /\ TypeOK /\ HostHolds /\ SnapshotsHold /\ VersionsHold
       /\ JournalHolds(journal) /\ HelperHolds

-----------------------------------------------------------------------------
(* The plans of the helper are what the program's blocks add up to *)

Stretch(p, steps, first, last) ==
  /\ steps \in Seq(Steps) /\ steps # <<>>
  /\ steps[1] = first /\ steps[Len(steps)] = last
  /\ \A i \in 1..Len(steps) : Belongs(p, steps[i])
  /\ \A i \in 1..Len(steps) - 1 : Follows(p, steps[i], steps[i + 1])

\* The steps of each kind are steps.
LEMMA StepTypes ==
  /\ \A do \in Commands \ {"phase", "commit", "finish", "mark", "inventory",
                           "verify", "park", "install"} :
       Step(do, "none", 0) \in Steps
  /\ \A what \in Phases \ {"none"} : Step("phase", what, 0) \in Steps
  /\ \A what \in Results : /\ Step("commit", what, 0) \in Steps
                           /\ Step("finish", what, 0) \in Steps
  /\ \A what \in {"admission", "start"} : Step("mark", what, 0) \in Steps
  /\ \A r \in 1..MaxRuns : /\ Step("inventory", "none", r) \in Steps
                           /\ Step("verify", "none", r) \in Steps
                           /\ Step("park", "data", r) \in Steps
                           /\ Step("install", "data", r) \in Steps
  /\ \A r \in 0..MaxRuns, what \in {"payload", "plist"} :
       Step("park", what, r) \in Steps /\ Step("install", what, r) \in Steps
BY DEF Step, Steps

LEMMA StepFields ==
  \A do, what, run : /\ Step(do, what, run).do = do
                     /\ Step(do, what, run).what = what
                     /\ Step(do, what, run).run = run
BY DEF Step

LEMMA Single ==
  ASSUME NEW p, NEW s \in Steps, Belongs(p, s)
  PROVE  Stretch(p, <<s>>, s, s)
BY DEF Stretch

\* One stretch of a plan after the other
LEMMA Join ==
  ASSUME NEW p, NEW a, NEW b, NEW first, NEW middle, NEW next, NEW last,
         Stretch(p, a, first, middle), Stretch(p, b, next, last),
         Follows(p, middle, next)
  PROVE  Stretch(p, a \o b, first, last)
<1> DEFINE c == a \o b
<1>1. /\ a \in Seq(Steps) /\ b \in Seq(Steps) /\ a # <<>> /\ b # <<>>
      /\ Len(a) \in Nat \ {0} /\ Len(b) \in Nat \ {0}
  BY DEF Stretch
<1>2. c \in Seq(Steps) /\ Len(c) = Len(a) + Len(b)
  BY <1>1
<1>3. /\ \A i \in 1..Len(a) : c[i] = a[i]
      /\ \A i \in Len(a) + 1..Len(c) : c[i] = b[i - Len(a)]
  BY <1>1, <1>2
<1>4. c # <<>>
  BY <1>1, <1>2
<1>5. c[1] = first
  BY <1>1, <1>3 DEF Stretch
<1>6. c[Len(c)] = last
  <2>1. Len(c) \in Len(a) + 1..Len(c) /\ Len(c) - Len(a) = Len(b)
    BY <1>1, <1>2
  <2> QED
    BY <2>1, <1>3 DEF Stretch
<1>7. ASSUME NEW i \in 1..Len(c)
      PROVE  Belongs(p, c[i])
  <2>1. CASE i <= Len(a)
    BY <2>1, <1>1, <1>3 DEF Stretch
  <2>2. CASE i > Len(a)
    <3>1. i \in Len(a) + 1..Len(c) /\ i - Len(a) \in 1..Len(b)
      BY <2>2, <1>1, <1>2
    <3> QED
      BY <3>1, <1>3 DEF Stretch
  <2> QED
    BY <2>1, <2>2, <1>1
<1>8. ASSUME NEW i \in 1..Len(c) - 1
      PROVE  Follows(p, c[i], c[i + 1])
  <2>1. CASE i < Len(a)
    <3>1. i \in 1..Len(a) - 1 /\ i \in 1..Len(a) /\ i + 1 \in 1..Len(a)
      BY <2>1, <1>1
    <3> QED
      BY <3>1, <1>3 DEF Stretch
  <2>2. CASE i = Len(a)
    <3>1. i \in 1..Len(a) /\ i + 1 \in Len(a) + 1..Len(c) /\ i + 1 - Len(a) = 1
      BY <2>2, <1>1, <1>2
    <3>2. c[i] = middle /\ c[i + 1] = next
      BY <3>1, <2>2, <1>3 DEF Stretch
    <3> QED
      BY <3>2
  <2>3. CASE i > Len(a)
    <3> DEFINE j == i - Len(a)
    <3>1. /\ j \in 1..Len(b) - 1 /\ i + 1 - Len(a) = j + 1
          /\ i \in Len(a) + 1..Len(c) /\ i + 1 \in Len(a) + 1..Len(c)
      BY <2>3, <1>1, <1>2
    <3>2. c[i] = b[j] /\ c[i + 1] = b[j + 1]
      BY <3>1, <1>3
    <3> HIDE DEF j
    <3> QED
      BY <3>1, <3>2 DEF Stretch
  <2> QED
    BY <2>1, <2>2, <2>3, <1>1
<1> QED
  BY <1>2, <1>4, <1>5, <1>6, <1>7, <1>8 DEF Stretch

LEMMA Extend ==
  ASSUME NEW p, NEW a, NEW first, NEW last, NEW s \in Steps,
         Stretch(p, a, first, last), Belongs(p, s), Follows(p, last, s)
  PROVE  Stretch(p, a \o <<s>>, first, s)
BY Single, Join

\* The blocks, in every plan they are part of

LEMMA CloseAdmissionStretch ==
  ASSUME NEW p \in Plans, p.mode # "record"
  PROVE  Stretch(p, CloseAdmission,
                 Step("mark", "admission", 0),
                 Step("no_jobs", "none", 0))
<1> DEFINE s1 == Step("mark", "admission", 0)
           s2 == Step("reject", "none", 0)
           s3 == Step("close", "none", 0)
           s4 == Step("no_jobs", "none", 0)
<1>1. s1 \in Steps /\ s2 \in Steps /\ s3 \in Steps /\ s4 \in Steps
  BY StepTypes DEF Commands
<1>2. Belongs(p, s1) /\ Belongs(p, s2) /\ Belongs(p, s3) /\ Belongs(p, s4)
  BY StepFields DEF Belongs
<1>3. Follows(p, s1, s2) /\ Follows(p, s2, s3) /\ Follows(p, s3, s4)
  <2>1. Follows(p, s1, s2)
    BY StepFields DEF Follows, Is
  <2>2. Follows(p, s2, s3)
    BY StepFields DEF Follows, Is
  <2>3. Follows(p, s3, s4)
    BY StepFields DEF Follows, Is
  <2> QED
    BY <2>1, <2>2, <2>3
<1>4. CloseAdmission = <<s1>> \o <<s2>> \o <<s3>> \o <<s4>>
  BY DEF CloseAdmission, Mark, Do
<1> HIDE DEF s1, s2, s3, s4
<1>5. Stretch(p, <<s1>>, s1, s1)
  BY <1>1, <1>2, Single
<1>6. Stretch(p, <<s1>> \o <<s2>>, s1, s2)
  BY <1>1, <1>2, <1>3, <1>5, Extend
<1>7. Stretch(p, <<s1>> \o <<s2>> \o <<s3>>, s1, s3)
  BY <1>1, <1>2, <1>3, <1>6, Extend
<1>8. Stretch(p, <<s1>> \o <<s2>> \o <<s3>> \o <<s4>>, s1, s4)
  BY <1>1, <1>2, <1>3, <1>7, Extend
<1> QED
  BY <1>4, <1>8 DEF s1, s4

LEMMA StopStretch ==
  ASSUME NEW p \in Plans, p.mode # "record"
  PROVE  Stretch(p, Stop,
                 Step("disable", "none", 0),
                 Step("stopped", "none", 0))
<1> DEFINE s1 == Step("disable", "none", 0)
           s2 == Step("bootout", "none", 0)
           s3 == Step("stopped", "none", 0)
<1>1. s1 \in Steps /\ s2 \in Steps /\ s3 \in Steps
  BY StepTypes DEF Commands
<1>2. Belongs(p, s1) /\ Belongs(p, s2) /\ Belongs(p, s3)
  BY StepFields DEF Belongs
<1>3. Follows(p, s1, s2) /\ Follows(p, s2, s3)
  <2>1. Follows(p, s1, s2)
    BY StepFields DEF Follows, Is
  <2>2. Follows(p, s2, s3)
    BY StepFields DEF Follows, Is
  <2> QED
    BY <2>1, <2>2
<1>4. Stop = <<s1>> \o <<s2>> \o <<s3>>
  BY DEF Stop, Do
<1> HIDE DEF s1, s2, s3
<1>5. Stretch(p, <<s1>>, s1, s1)
  BY <1>1, <1>2, Single
<1>6. Stretch(p, <<s1>> \o <<s2>>, s1, s2)
  BY <1>1, <1>2, <1>3, <1>5, Extend
<1>7. Stretch(p, <<s1>> \o <<s2>> \o <<s3>>, s1, s3)
  BY <1>1, <1>2, <1>3, <1>6, Extend
<1> QED
  BY <1>4, <1>7 DEF s1, s3

LEMMA StartStretch ==
  ASSUME NEW p \in Plans, p.mode # "record"
  PROVE  Stretch(p, Start,
                 Step("mark", "start", 0),
                 Step("up", "none", 0))
<1> DEFINE s1 == Step("mark", "start", 0)
           s2 == Step("enable", "none", 0)
           s3 == Step("bootstrap", "none", 0)
           s4 == Step("up", "none", 0)
<1>1. s1 \in Steps /\ s2 \in Steps /\ s3 \in Steps /\ s4 \in Steps
  BY StepTypes DEF Commands
<1>2. Belongs(p, s1) /\ Belongs(p, s2) /\ Belongs(p, s3) /\ Belongs(p, s4)
  BY StepFields DEF Belongs
<1>3. Follows(p, s1, s2) /\ Follows(p, s2, s3) /\ Follows(p, s3, s4)
  <2>1. Follows(p, s1, s2)
    BY StepFields DEF Follows, Is
  <2>2. Follows(p, s2, s3)
    BY StepFields DEF Follows, Is
  <2>3. Follows(p, s3, s4)
    BY StepFields DEF Follows, Is
  <2> QED
    BY <2>1, <2>2, <2>3
<1>4. Start = <<s1>> \o <<s2>> \o <<s3>> \o <<s4>>
  BY DEF Start, Mark, Do
<1> HIDE DEF s1, s2, s3, s4
<1>5. Stretch(p, <<s1>>, s1, s1)
  BY <1>1, <1>2, Single
<1>6. Stretch(p, <<s1>> \o <<s2>>, s1, s2)
  BY <1>1, <1>2, <1>3, <1>5, Extend
<1>7. Stretch(p, <<s1>> \o <<s2>> \o <<s3>>, s1, s3)
  BY <1>1, <1>2, <1>3, <1>6, Extend
<1>8. Stretch(p, <<s1>> \o <<s2>> \o <<s3>> \o <<s4>>, s1, s4)
  BY <1>1, <1>2, <1>3, <1>7, Extend
<1> QED
  BY <1>4, <1>8 DEF s1, s4

LEMMA ReleaseStretch ==
  ASSUME NEW p \in Plans, p.mode # "record"
  PROVE  Stretch(p, Release,
                 Step("unmark", "none", 0),
                 Step("ready", "none", 0))
<1> DEFINE s1 == Step("unmark", "none", 0)
           s2 == Step("open", "none", 0)
           s3 == Step("accept", "none", 0)
           s4 == Step("ready", "none", 0)
<1>1. s1 \in Steps /\ s2 \in Steps /\ s3 \in Steps /\ s4 \in Steps
  BY StepTypes DEF Commands
<1>2. Belongs(p, s1) /\ Belongs(p, s2) /\ Belongs(p, s3) /\ Belongs(p, s4)
  BY StepFields DEF Belongs
<1>3. Follows(p, s1, s2) /\ Follows(p, s2, s3) /\ Follows(p, s3, s4)
  <2>1. Follows(p, s1, s2)
    BY StepFields DEF Follows, Is
  <2>2. Follows(p, s2, s3)
    BY StepFields DEF Follows, Is
  <2>3. Follows(p, s3, s4)
    BY StepFields DEF Follows, Is
  <2> QED
    BY <2>1, <2>2, <2>3
<1>4. Release = <<s1>> \o <<s2>> \o <<s3>> \o <<s4>>
  BY DEF Release, Do
<1> HIDE DEF s1, s2, s3, s4
<1>5. Stretch(p, <<s1>>, s1, s1)
  BY <1>1, <1>2, Single
<1>6. Stretch(p, <<s1>> \o <<s2>>, s1, s2)
  BY <1>1, <1>2, <1>3, <1>5, Extend
<1>7. Stretch(p, <<s1>> \o <<s2>> \o <<s3>>, s1, s3)
  BY <1>1, <1>2, <1>3, <1>6, Extend
<1>8. Stretch(p, <<s1>> \o <<s2>> \o <<s3>> \o <<s4>>, s1, s4)
  BY <1>1, <1>2, <1>3, <1>7, Extend
<1> QED
  BY <1>4, <1>8 DEF s1, s4

LEMMA Pair ==
  ASSUME NEW p, NEW s \in Steps, NEW t \in Steps,
         Belongs(p, s), Belongs(p, t), Follows(p, s, t)
  PROVE  Stretch(p, <<s, t>>, s, t)
<1>1. \A i \in 1..Len(<<s, t>>) - 1 : i = 1
  OBVIOUS
<1>2. \A i \in 1..Len(<<s, t>>) : Belongs(p, <<s, t>>[i])
  OBVIOUS
<1> QED
  BY <1>1, <1>2 DEF Stretch

\* One artifact replaced from the source of the plan
LEMMA ReplaceStretch ==
  ASSUME NEW p \in Plans, p.mode \in Trying \union {"undo"},
         NEW what \in {"payload", "data", "plist"}, what = "data" => p.source # 0
  PROVE  Stretch(p, Replace(what, p.source), Step("park", what, p.source),
                 Step("install", what, p.source))
<1> DEFINE s == Step("park", what, p.source)
           t == Step("install", what, p.source)
<1>1. p.source \in 0..MaxRuns /\ (p.source # 0 => p.source \in 1..MaxRuns)
  BY DEF Plans
<1>2. s \in Steps /\ t \in Steps
  BY <1>1, StepTypes
<1>3. Belongs(p, s) /\ Belongs(p, t)
  BY StepFields DEF Belongs, Trying
<1>4. Follows(p, s, t)
  BY StepFields DEF Follows, Is
<1> HIDE DEF s, t
<1>5. Replace(what, p.source) = <<s, t>>
  BY DEF Replace, s, t
<1> QED
  BY <1>2, <1>3, <1>4, <1>5, Pair DEF s, t

\* A restoration from the source, after the verification of its snapshot
LEMMA RestoreStretch ==
  ASSUME NEW p \in Plans, p.source # 0, p.mode \in {"rollback", "undo"},
         p.mode \in Trying => p.source # p.run
  PROVE  Stretch(p, Restore(p.source), Step("verify", "none", p.source),
                 Step("install", "plist", p.source))
<1> DEFINE s == Step("verify", "none", p.source)
           r(what) == Replace(what, p.source)
           first(what) == Step("park", what, p.source)
           last(what) == Step("install", what, p.source)
<1>1. s \in Steps
  BY StepTypes DEF Plans
<1>2. Belongs(p, s)
  BY StepFields DEF Belongs, Trying
<1>3. Stretch(p, <<s>>, s, s)
  BY <1>1, <1>2, Single
<1>4. \A what \in {"payload", "data", "plist"} :
        Stretch(p, r(what), first(what), last(what))
  BY ReplaceStretch DEF Trying
<1>5. Follows(p, s, first("payload"))
  BY StepFields DEF Follows, Is
<1>6. Follows(p, last("payload"), first("data"))
  BY StepFields DEF Follows, Is
<1>7. Follows(p, last("data"), first("plist"))
  BY StepFields DEF Follows, Is
<1>8. Restore(p.source) = <<s>> \o r("payload") \o r("data") \o r("plist")
  BY DEF Restore
<1> HIDE DEF s, r, first, last
<1>9. Stretch(p, <<s>> \o r("payload"), s, last("payload"))
  BY <1>3, <1>4, <1>5, Join
<1>10. Stretch(p, <<s>> \o r("payload") \o r("data"), s, last("data"))
  BY <1>4, <1>6, <1>9, Join
<1>11. Stretch(p, <<s>> \o r("payload") \o r("data") \o r("plist"), s,
               last("plist"))
  BY <1>4, <1>7, <1>10, Join
<1> QED
  BY <1>8, <1>11 DEF s, last

LEMMA BackUpStretch ==
  ASSUME NEW p \in Plans, p.mode \in Trying
  PROVE  Stretch(p, BackUp(p.run), Step("copy", "none", 0),
                 Step("phase", "backed-up", 0))
<1> DEFINE s1 == Step("copy", "none", 0)
           s2 == Step("inventory", "none", p.run)
           s3 == Step("verify", "none", p.run)
           s4 == Step("phase", "backed-up", 0)
<1>1. s1 \in Steps /\ s2 \in Steps /\ s3 \in Steps /\ s4 \in Steps
  BY StepTypes DEF Plans, Commands, Phases
<1>2. Belongs(p, s1) /\ Belongs(p, s2) /\ Belongs(p, s3) /\ Belongs(p, s4)
  BY StepFields DEF Belongs, Trying
<1>3. Follows(p, s1, s2) /\ Follows(p, s2, s3) /\ Follows(p, s3, s4)
  <2>1. Follows(p, s1, s2)
    BY StepFields DEF Follows, Is
  <2>2. Follows(p, s2, s3)
    BY StepFields DEF Follows, Is
  <2>3. Follows(p, s3, s4)
    BY StepFields DEF Follows, Is
  <2> QED
    BY <2>1, <2>2, <2>3
<1>4. BackUp(p.run) = <<s1>> \o <<s2, s3>> \o <<s4>>
  BY DEF BackUp, Snapshot, Phase, Do
<1> HIDE DEF s1, s2, s3, s4
<1>5. Stretch(p, <<s1>>, s1, s1) /\ Stretch(p, <<s2, s3>>, s2, s3)
  BY <1>1, <1>2, <1>3, Single, Pair
<1>6. Stretch(p, <<s1>> \o <<s2, s3>>, s1, s3)
  BY <1>3, <1>5, Join
<1>7. Stretch(p, <<s1>> \o <<s2, s3>> \o <<s4>>, s1, s4)
  BY <1>1, <1>2, <1>3, <1>6, Extend
<1> QED
  BY <1>4, <1>7 DEF s1, s4

\* The try block of execute is a plan of either mode.
LEMMA ForwardStretch ==
  ASSUME NEW p \in Plans, p.mode \in Trying,
         p.mode = "update" <=> p.source = 0, p.source # p.run,
         p.outcome = IF p.source = 0 THEN "updated" ELSE "rolled-back"
  PROVE  Stretch(p, Forward(p.run, p.source), Step("phase", "preparing", 0),
                 Step("finish", p.outcome, 0))
<1> DEFINE phase(what) == Step("phase", what, 0)
           plain(do)   == Step(do, "none", 0)
           staging     == IF p.source = 0 THEN Do("stage") ELSE <<>>
           staged      == IF p.source = 0 THEN plain("stage")
                          ELSE phase("preparing")
           replacing   == IF p.source = 0
                          THEN Replace("payload", 0) \o Replace("plist", 0)
                               \o Phase("migrating") \o Do("migrate")
                          ELSE Restore(p.source)
           first       == IF p.source = 0 THEN Step("park", "payload", 0)
                          ELSE Step("verify", "none", p.source)
           last        == IF p.source = 0 THEN plain("migrate")
                          ELSE Step("install", "plist", p.source)
           finish      == Step("finish", p.outcome, 0)
<1>1. /\ \A what \in Phases \ {"none"} : phase(what) \in Steps
      /\ \A do \in {"stage", "health", "pointer", "migrate"} :
           plain(do) \in Steps
      /\ finish \in Steps
  BY StepTypes DEF Commands, Plans
<1>2. /\ \A what \in Phases \ {"none", "restoring", "migrating"} :
           Belongs(p, phase(what))
      /\ \A do \in {"stage", "health", "pointer", "migrate"} :
           Belongs(p, plain(do))
      /\ Belongs(p, finish)
  BY StepFields DEF Belongs, Trying
<1>3. /\ \A what : Phase(what) = <<phase(what)>>
      /\ \A do : Do(do) = <<plain(do)>>
      /\ Finish(IF p.source = 0 THEN "updated" ELSE "rolled-back") = <<finish>>
  BY DEF Phase, Do, Finish
<1>4. Stretch(p, <<phase("preparing")>> \o staging, phase("preparing"), staged)
  <2>1. phase("preparing") \in Steps /\ Belongs(p, phase("preparing"))
    BY <1>1, <1>2 DEF Phases
  <2>2. Stretch(p, <<phase("preparing")>>, phase("preparing"),
                phase("preparing"))
    BY <2>1, Single
  <2>3. CASE p.source = 0
    <3>1. Follows(p, phase("preparing"), plain("stage"))
      BY <2>3, StepFields DEF Follows, Is
    <3>2. staging = <<plain("stage")>> /\ staged = plain("stage")
      BY <2>3 DEF Do
    <3> HIDE DEF phase, plain, staging, staged
    <3> QED
      BY <1>1, <1>2, <2>2, <3>1, <3>2, Extend
  <2>4. CASE p.source # 0
    <3>1. staging = <<>> /\ staged = phase("preparing")
      BY <2>4
    <3> HIDE DEF phase, plain, staging, staged
    <3>2. \A s \in Steps : <<s>> \o <<>> = <<s>>
      OBVIOUS
    <3>3. <<phase("preparing")>> \o staging = <<phase("preparing")>>
      BY <2>1, <3>1, <3>2
    <3> QED
      BY <2>2, <3>1, <3>3
  <2> QED
    BY <2>3, <2>4
<1>5. Stretch(p, replacing, first, last)
  <2>1. CASE p.source = 0
    <3> DEFINE s1 == Step("park", "payload", 0)
               s2 == Step("install", "payload", 0)
               s3 == Step("park", "plist", 0)
               s4 == Step("install", "plist", 0)
               s5 == phase("migrating")
               s6 == plain("migrate")
    <3>1. /\ Stretch(p, Replace("payload", 0), s1, s2)
          /\ Stretch(p, Replace("plist", 0), s3, s4)
      BY <2>1, ReplaceStretch DEF Trying
    <3>2. Follows(p, s2, s3) /\ Follows(p, s4, s5) /\ Follows(p, s5, s6)
      <4>1. Follows(p, s2, s3)
        BY <2>1, StepFields DEF Follows, Is
      <4>2. Follows(p, s4, s5)
        BY <2>1, StepFields DEF Follows, Is
      <4>3. Follows(p, s5, s6)
        BY <2>1, StepFields DEF Follows, Is
      <4> QED
        BY <4>1, <4>2, <4>3
    <3>3. s5 \in Steps /\ s6 \in Steps /\ Belongs(p, s5) /\ Belongs(p, s6)
      <4>1. Belongs(p, s5)
        BY <2>1, StepFields DEF Belongs
      <4> QED
        BY <1>1, <1>2, <4>1 DEF Phases
    <3>4. replacing = Replace("payload", 0) \o Replace("plist", 0) \o <<s5>>
                      \o <<s6>> /\ first = s1 /\ last = s6
      BY <2>1 DEF Phase, Do
    <3> HIDE DEF s1, s2, s3, s4, s5, s6, first, last, replacing
    <3>5. Stretch(p, Replace("payload", 0) \o Replace("plist", 0), s1, s4)
      BY <3>1, <3>2, Join
    <3>6. Stretch(p, Replace("payload", 0) \o Replace("plist", 0) \o <<s5>>,
                  s1, s5)
      BY <3>2, <3>3, <3>5, Extend
    <3>7. Stretch(p, Replace("payload", 0) \o Replace("plist", 0) \o <<s5>>
                     \o <<s6>>, s1, s6)
      BY <3>2, <3>3, <3>6, Extend
    <3> QED
      BY <3>4, <3>7
  <2>2. CASE p.source # 0
    BY <2>2, RestoreStretch DEF Trying
  <2> QED
    BY <2>1, <2>2
<1>6. /\ Follows(p, staged, phase("admission"))
      /\ Follows(p, phase("backed-up"), first)
      /\ Follows(p, last, phase("starting"))
  <2>1. CASE p.source = 0
    <3>1. Follows(p, staged, phase("admission"))
      BY <2>1, StepFields DEF Follows, Is
    <3>2. Follows(p, phase("backed-up"), first)
      BY <2>1, StepFields DEF Follows, Is
    <3>3. Follows(p, last, phase("starting"))
      BY <2>1, StepFields DEF Follows, Is
    <3> QED
      BY <3>1, <3>2, <3>3
  <2>2. CASE p.source # 0
    <3>1. Follows(p, staged, phase("admission"))
      BY <2>2, StepFields DEF Follows, Is, Trying
    <3>2. Follows(p, phase("backed-up"), first)
      BY <2>2, StepFields DEF Follows, Is, Trying
    <3>3. Follows(p, last, phase("starting"))
      BY <2>2, StepFields DEF Follows, Is, Trying
    <3> QED
      BY <3>1, <3>2, <3>3
  <2> QED
    BY <2>1, <2>2
<1>7. /\ Follows(p, phase("admission"), Step("mark", "admission", 0))
      /\ Follows(p, plain("no_jobs"), phase("stopping"))
      /\ Follows(p, phase("stopping"), plain("disable"))
      /\ Follows(p, plain("stopped"), plain("copy"))
      /\ Follows(p, phase("starting"), Step("mark", "start", 0))
      /\ Follows(p, plain("up"), plain("health"))
      /\ Follows(p, plain("health"), phase("healthy"))
      /\ Follows(p, phase("healthy"), plain("pointer"))
      /\ Follows(p, plain("pointer"), phase("committed"))
      /\ Follows(p, phase("committed"), plain("unmark"))
      /\ Follows(p, plain("ready"), finish)
  <2>1. Follows(p, phase("admission"), Step("mark", "admission", 0))
    BY StepFields DEF Follows, Is
  <2>2. Follows(p, plain("no_jobs"), phase("stopping"))
    BY StepFields DEF Follows, Is
  <2>3. Follows(p, phase("stopping"), plain("disable"))
    BY StepFields DEF Follows, Is
  <2>4. Follows(p, plain("stopped"), plain("copy"))
    BY StepFields DEF Follows, Is
  <2>5. Follows(p, phase("starting"), Step("mark", "start", 0))
    BY StepFields DEF Follows, Is
  <2>6. Follows(p, plain("up"), plain("health"))
    BY StepFields DEF Follows, Is
  <2>7. Follows(p, plain("health"), phase("healthy"))
    BY StepFields DEF Follows, Is
  <2>8. Follows(p, phase("healthy"), plain("pointer"))
    BY StepFields DEF Follows, Is
  <2>9. Follows(p, plain("pointer"), phase("committed"))
    BY StepFields DEF Follows, Is
  <2>10. Follows(p, phase("committed"), plain("unmark"))
    BY StepFields DEF Follows, Is
  <2>11. Follows(p, plain("ready"), finish)
    BY StepFields DEF Follows, Is
  <2> QED
    BY <2>1, <2>2, <2>3, <2>4, <2>5, <2>6, <2>7, <2>8, <2>9, <2>10, <2>11
<1> DEFINE a1 == <<phase("preparing")>> \o staging
           a2 == a1 \o <<phase("admission")>>
           a3 == a2 \o CloseAdmission
           a4 == a3 \o <<phase("stopping")>>
           a5 == a4 \o Stop
           a6 == a5 \o BackUp(p.run)
           a7 == a6 \o replacing
           a8 == a7 \o <<phase("starting")>>
           a9 == a8 \o Start
           a10 == a9 \o <<plain("health")>>
           a11 == a10 \o <<phase("healthy")>>
           a12 == a11 \o <<plain("pointer")>>
           a13 == a12 \o <<phase("committed")>>
           a14 == a13 \o Release
           a15 == a14 \o <<finish>>
<1>8. Forward(p.run, p.source) = a15
  BY <1>3 DEF Forward
<1>9. /\ Stretch(p, CloseAdmission, Step("mark", "admission", 0),
                 plain("no_jobs"))
      /\ Stretch(p, Stop, plain("disable"), plain("stopped"))
      /\ Stretch(p, BackUp(p.run), plain("copy"), phase("backed-up"))
      /\ Stretch(p, Start, Step("mark", "start", 0), plain("up"))
      /\ Stretch(p, Release, plain("unmark"), plain("ready"))
  BY CloseAdmissionStretch, StopStretch, BackUpStretch, StartStretch,
     ReleaseStretch DEF Trying
<1> HIDE DEF phase, plain, staging, staged, replacing, first, last, finish
<1>10. Stretch(p, a1, phase("preparing"), staged)
  BY <1>4
<1>11. Stretch(p, a2, phase("preparing"), phase("admission"))
  BY <1>1, <1>2, <1>6, <1>10, Extend DEF Phases
<1>12. Stretch(p, a3, phase("preparing"), plain("no_jobs"))
  BY <1>7, <1>9, <1>11, Join
<1>13. Stretch(p, a4, phase("preparing"), phase("stopping"))
  BY <1>1, <1>2, <1>7, <1>12, Extend DEF Phases
<1>14. Stretch(p, a5, phase("preparing"), plain("stopped"))
  BY <1>7, <1>9, <1>13, Join
<1>15. Stretch(p, a6, phase("preparing"), phase("backed-up"))
  BY <1>7, <1>9, <1>14, Join
<1>16. Stretch(p, a7, phase("preparing"), last)
  BY <1>5, <1>6, <1>15, Join
<1>17. Stretch(p, a8, phase("preparing"), phase("starting"))
  BY <1>1, <1>2, <1>6, <1>16, Extend DEF Phases
<1>18. Stretch(p, a9, phase("preparing"), plain("up"))
  BY <1>7, <1>9, <1>17, Join
<1>19. Stretch(p, a10, phase("preparing"), plain("health"))
  BY <1>1, <1>2, <1>7, <1>18, Extend
<1>20. Stretch(p, a11, phase("preparing"), phase("healthy"))
  BY <1>1, <1>2, <1>7, <1>19, Extend DEF Phases
<1>21. Stretch(p, a12, phase("preparing"), plain("pointer"))
  BY <1>1, <1>2, <1>7, <1>20, Extend
<1>22. Stretch(p, a13, phase("preparing"), phase("committed"))
  BY <1>1, <1>2, <1>7, <1>21, Extend DEF Phases
<1>23. Stretch(p, a14, phase("preparing"), plain("ready"))
  BY <1>7, <1>9, <1>22, Join
<1>24. Stretch(p, a15, phase("preparing"), finish)
  BY <1>1, <1>2, <1>7, <1>23, Extend
<1> QED
  BY <1>8, <1>24 DEF phase, finish

\* The branches of recover are plans, one for each phase of the journal.
LEMMA RestartStretch ==
  ASSUME NEW p \in Plans, p.mode = "restart", p.outcome = "unchanged"
  PROVE  Stretch(p, Restart,
                 Step("disable", "none", 0),
                 Step("finish", p.outcome, 0))
<1> DEFINE f1 == Step("disable", "none", 0)
           l1 == Step("stopped", "none", 0)
           f2 == Step("mark", "start", 0)
           l2 == Step("up", "none", 0)
           s3 == Step("health", "none", 0)
           s4 == Step("commit", p.outcome, 0)
           f5 == Step("unmark", "none", 0)
           l5 == Step("ready", "none", 0)
           s6 == Step("finish", p.outcome, 0)
           a1 == Stop
           a2 == a1 \o Start
           a3 == a2 \o <<s3>>
           a4 == a3 \o <<s4>>
           a5 == a4 \o Release
           a6 == a5 \o <<s6>>
<1>1. s3 \in Steps /\ s4 \in Steps /\ s6 \in Steps
  BY StepTypes DEF Commands, Phases, Results, Plans
<1>2. Belongs(p, s3) /\ Belongs(p, s4) /\ Belongs(p, s6)
  BY StepFields DEF Belongs, Trying
<1>3. /\ Follows(p, l1, f2)
      /\ Follows(p, l2, s3)
      /\ Follows(p, s3, s4)
      /\ Follows(p, s4, f5)
      /\ Follows(p, l5, s6)
  <2>1. Follows(p, l1, f2)
    BY StepFields DEF Follows, Is, Trying
  <2>2. Follows(p, l2, s3)
    BY StepFields DEF Follows, Is, Trying
  <2>3. Follows(p, s3, s4)
    BY StepFields DEF Follows, Is, Trying
  <2>4. Follows(p, s4, f5)
    BY StepFields DEF Follows, Is, Trying
  <2>5. Follows(p, l5, s6)
    BY StepFields DEF Follows, Is, Trying
  <2> QED
    BY <2>1, <2>2, <2>3, <2>4, <2>5
<1>4. /\ Stretch(p, Stop, f1, l1)
      /\ Stretch(p, Start, f2, l2)
      /\ Stretch(p, Release, f5, l5)
  BY ReleaseStretch, StartStretch, StopStretch DEF Trying
<1>5. Restart = a6
  BY DEF Restart, Do, Commit, Finish
<1> HIDE DEF s3, s4, s6, f1, l1, f2, l2, f5, l5
<1>6. Stretch(p, a1, f1, l1)
  BY <1>4
<1>7. Stretch(p, a2, f1, l2)
  BY <1>3, <1>4, <1>6, Join
<1>8. Stretch(p, a3, f1, s3)
  BY <1>1, <1>2, <1>3, <1>7, Extend
<1>9. Stretch(p, a4, f1, s4)
  BY <1>1, <1>2, <1>3, <1>8, Extend
<1>10. Stretch(p, a5, f1, l5)
  BY <1>3, <1>4, <1>9, Join
<1>11. Stretch(p, a6, f1, s6)
  BY <1>1, <1>2, <1>3, <1>10, Extend
<1> QED
  BY <1>5, <1>11 DEF f1, s6

LEMMA UndoStretch ==
  ASSUME NEW p \in Plans, p.mode = "undo", p.outcome = "rolled-back",
         p.source # 0, p.source = p.run
  PROVE  Stretch(p, Undo(p.run),
                 Step("disable", "none", 0),
                 Step("finish", p.outcome, 0))
<1> DEFINE f1 == Step("disable", "none", 0)
           l1 == Step("stopped", "none", 0)
           s2 == Step("phase", "restoring", 0)
           f3 == Step("verify", "none", p.source)
           l3 == Step("install", "plist", p.source)
           f4 == Step("mark", "start", 0)
           l4 == Step("up", "none", 0)
           s5 == Step("health", "none", 0)
           s6 == Step("commit", p.outcome, 0)
           f7 == Step("unmark", "none", 0)
           l7 == Step("ready", "none", 0)
           s8 == Step("finish", p.outcome, 0)
           a1 == Stop
           a2 == a1 \o <<s2>>
           a3 == a2 \o Restore(p.source)
           a4 == a3 \o Start
           a5 == a4 \o <<s5>>
           a6 == a5 \o <<s6>>
           a7 == a6 \o Release
           a8 == a7 \o <<s8>>
<1>1. s2 \in Steps /\ s5 \in Steps /\ s6 \in Steps /\ s8 \in Steps
  BY StepTypes DEF Commands, Phases, Results, Plans
<1>2. Belongs(p, s2) /\ Belongs(p, s5) /\ Belongs(p, s6) /\ Belongs(p, s8)
  BY StepFields DEF Belongs, Trying
<1>3. /\ Follows(p, l1, s2)
      /\ Follows(p, s2, f3)
      /\ Follows(p, l3, f4)
      /\ Follows(p, l4, s5)
      /\ Follows(p, s5, s6)
      /\ Follows(p, s6, f7)
      /\ Follows(p, l7, s8)
  <2>1. Follows(p, l1, s2)
    BY StepFields DEF Follows, Is, Trying
  <2>2. Follows(p, s2, f3)
    BY StepFields DEF Follows, Is, Trying
  <2>3. Follows(p, l3, f4)
    BY StepFields DEF Follows, Is, Trying
  <2>4. Follows(p, l4, s5)
    BY StepFields DEF Follows, Is, Trying
  <2>5. Follows(p, s5, s6)
    BY StepFields DEF Follows, Is, Trying
  <2>6. Follows(p, s6, f7)
    BY StepFields DEF Follows, Is, Trying
  <2>7. Follows(p, l7, s8)
    BY StepFields DEF Follows, Is, Trying
  <2> QED
    BY <2>1, <2>2, <2>3, <2>4, <2>5, <2>6, <2>7
<1>4. /\ Stretch(p, Stop, f1, l1)
      /\ Stretch(p, Restore(p.source), f3, l3)
      /\ Stretch(p, Start, f4, l4)
      /\ Stretch(p, Release, f7, l7)
  BY ReleaseStretch, RestoreStretch, StartStretch, StopStretch DEF Trying
<1>5. Undo(p.run) = a8
  BY DEF Undo, Do, Commit, Finish, Phase
<1> HIDE DEF s2, s5, s6, s8, f1, l1, f3, l3, f4, l4, f7, l7
<1>6. Stretch(p, a1, f1, l1)
  BY <1>4
<1>7. Stretch(p, a2, f1, s2)
  BY <1>1, <1>2, <1>3, <1>6, Extend
<1>8. Stretch(p, a3, f1, l3)
  BY <1>3, <1>4, <1>7, Join
<1>9. Stretch(p, a4, f1, l4)
  BY <1>3, <1>4, <1>8, Join
<1>10. Stretch(p, a5, f1, s5)
  BY <1>1, <1>2, <1>3, <1>9, Extend
<1>11. Stretch(p, a6, f1, s6)
  BY <1>1, <1>2, <1>3, <1>10, Extend
<1>12. Stretch(p, a7, f1, l7)
  BY <1>3, <1>4, <1>11, Join
<1>13. Stretch(p, a8, f1, s8)
  BY <1>1, <1>2, <1>3, <1>12, Extend
<1> QED
  BY <1>5, <1>13 DEF f1, s8

LEMMA FinalizeStretch ==
  ASSUME NEW p \in Plans, p.mode = "finalize"
  PROVE  Stretch(p, Do("health") \o Release \o Finish(p.outcome),
                 Step("health", "none", 0),
                 Step("finish", p.outcome, 0))
<1> DEFINE s1 == Step("health", "none", 0)
           f2 == Step("unmark", "none", 0)
           l2 == Step("ready", "none", 0)
           s3 == Step("finish", p.outcome, 0)
           a1 == <<s1>>
           a2 == a1 \o Release
           a3 == a2 \o <<s3>>
<1>1. s1 \in Steps /\ s3 \in Steps
  BY StepTypes DEF Commands, Phases, Results, Plans
<1>2. Belongs(p, s1) /\ Belongs(p, s3)
  BY StepFields DEF Belongs, Trying
<1>3. /\ Follows(p, s1, f2)
      /\ Follows(p, l2, s3)
  <2>1. Follows(p, s1, f2)
    BY StepFields DEF Follows, Is, Trying
  <2>2. Follows(p, l2, s3)
    BY StepFields DEF Follows, Is, Trying
  <2> QED
    BY <2>1, <2>2
<1>4. /\ Stretch(p, Release, f2, l2)
  BY ReleaseStretch DEF Trying
<1>5. Do("health") \o Release \o Finish(p.outcome) = a3
  BY DEF Do, Finish
<1> HIDE DEF s1, s3, f2, l2
<1>6. Stretch(p, a1, s1, s1)
  BY <1>1, <1>2, Single
<1>7. Stretch(p, a2, s1, l2)
  BY <1>3, <1>4, <1>6, Join
<1>8. Stretch(p, a3, s1, s3)
  BY <1>1, <1>2, <1>3, <1>7, Extend
<1> QED
  BY <1>5, <1>8 DEF s1, s3

LEMMA DeferStretch ==
  ASSUME NEW p \in Plans, p.mode = "defer"
  PROVE  Stretch(p, Release \o Finish(p.outcome),
                 Step("unmark", "none", 0),
                 Step("finish", p.outcome, 0))
<1> DEFINE f1 == Step("unmark", "none", 0)
           l1 == Step("ready", "none", 0)
           s2 == Step("finish", p.outcome, 0)
           a1 == Release
           a2 == a1 \o <<s2>>
<1>1. s2 \in Steps
  BY StepTypes DEF Commands, Phases, Results, Plans
<1>2. Belongs(p, s2)
  BY StepFields DEF Belongs, Trying
<1>3. /\ Follows(p, l1, s2)
  <2>1. Follows(p, l1, s2)
    BY StepFields DEF Follows, Is, Trying
  <2> QED
    BY <2>1
<1>4. /\ Stretch(p, Release, f1, l1)
  BY ReleaseStretch DEF Trying
<1>5. Release \o Finish(p.outcome) = a2
  BY DEF Finish
<1> HIDE DEF s2, f1, l1
<1>6. Stretch(p, a1, f1, l1)
  BY <1>4
<1>7. Stretch(p, a2, f1, s2)
  BY <1>1, <1>2, <1>3, <1>6, Extend
<1> QED
  BY <1>5, <1>7 DEF f1, s2

RecoveryPlan(j) ==
  LET mode == CASE j.phase = "committed" -> "finalize"
                [] j.phase = "preparing" -> "abandon"
                [] j.phase = "admission" -> "defer"
                [] j.phase = "stopping"  -> "restart"
                [] OTHER                 -> "undo"
  IN  [mode |-> mode, run |-> j.run, source |-> j.run,
       outcome |-> CASE mode = "finalize" -> Completion(j)
                     [] mode = "abandon"  -> "prepare-failed"
                     [] mode = "defer"    -> "deferred"
                     [] mode = "restart"  -> "unchanged"
                     [] mode = "undo"     -> "rolled-back"]

FirstOfRecovery(j) ==
  CASE j.phase = "committed" -> Step("health", "none", 0)
    [] j.phase = "preparing" -> Step("finish", "prepare-failed", 0)
    [] j.phase = "admission" -> Step("unmark", "none", 0)
    [] OTHER                 -> Step("disable", "none", 0)

LEMMA RecoveryPlanType ==
  ASSUME NEW j \in Records, j.run # 0
  PROVE  RecoveryPlan(j) \in Plans
<1>1. j.run \in 1..MaxRuns /\ j.run \in 0..MaxRuns
  BY DEF Records
<1>2. Completion(j) \in Results
  BY DEF Completion, Records, Results
<1> QED
  BY <1>1, <1>2 DEF RecoveryPlan, Plans, Results, Recovering

LEMMA RecoveryStretch ==
  ASSUME NEW j \in Records, j.run # 0, j.phase # "none"
  PROVE  Stretch(RecoveryPlan(j), Recovery(j), FirstOfRecovery(j),
                 Step("finish", RecoveryPlan(j).outcome, 0))
<1> DEFINE p == RecoveryPlan(j)
<1>1. p \in Plans
  BY RecoveryPlanType
<1>2. CASE j.phase = "committed"
  <2>1. p.mode = "finalize" /\ p.outcome = Completion(j)
    BY <1>2 DEF RecoveryPlan
  <2>2. Recovery(j) = Do("health") \o Release \o Finish(p.outcome)
    BY <1>2, <2>1 DEF Recovery
  <2>3. FirstOfRecovery(j) = Step("health", "none", 0)
    BY <1>2 DEF FirstOfRecovery
  <2> HIDE DEF p
  <2> QED
    BY <1>1, <2>1, <2>2, <2>3, FinalizeStretch DEF p
<1>3. CASE j.phase = "preparing"
  <2>1. p.outcome = "prepare-failed"
    BY <1>3 DEF RecoveryPlan
  <2>2. p.mode = "abandon"
    BY <1>3 DEF RecoveryPlan
  <2> DEFINE s == Step("finish", "prepare-failed", 0)
  <2>3. Recovery(j) = <<s>> /\ FirstOfRecovery(j) = s
    BY <1>3 DEF Recovery, Finish, FirstOfRecovery
  <2>4. s \in Steps /\ Belongs(p, s)
    BY <2>1, <2>2, StepTypes, StepFields DEF Results, Belongs
  <2> HIDE DEF p, s
  <2> QED
    BY <2>1, <2>3, <2>4, Single DEF p, s
<1>4. CASE j.phase = "admission"
  <2>1. p.mode = "defer" /\ p.outcome = "deferred"
    BY <1>4 DEF RecoveryPlan
  <2>2. Recovery(j) = Release \o Finish(p.outcome)
    BY <1>4, <2>1 DEF Recovery
  <2>3. FirstOfRecovery(j) = Step("unmark", "none", 0)
    BY <1>4 DEF FirstOfRecovery
  <2> HIDE DEF p
  <2> QED
    BY <1>1, <2>1, <2>2, <2>3, DeferStretch DEF p
<1>5. CASE j.phase = "stopping"
  <2>1. p.mode = "restart" /\ p.outcome = "unchanged"
    BY <1>5 DEF RecoveryPlan
  <2>2. Recovery(j) = Restart
    BY <1>5 DEF Recovery
  <2>3. FirstOfRecovery(j) = Step("disable", "none", 0)
    BY <1>5 DEF FirstOfRecovery
  <2> HIDE DEF p
  <2> QED
    BY <1>1, <2>1, <2>2, <2>3, RestartStretch DEF p
<1>6. CASE j.phase \notin {"committed", "preparing", "admission", "stopping"}
  <2>1. /\ p.mode = "undo" /\ p.outcome = "rolled-back"
        /\ p.run = j.run /\ p.source = j.run
    BY <1>6 DEF RecoveryPlan
  <2>2. Recovery(j) = Undo(j.run)
    BY <1>6 DEF Recovery
  <2>3. FirstOfRecovery(j) = Step("disable", "none", 0)
    BY <1>6 DEF FirstOfRecovery
  <2> HIDE DEF p
  <2> QED
    BY <1>1, <2>1, <2>2, <2>3, UndoStretch DEF p
<1> QED
  BY <1>2, <1>3, <1>4, <1>5, <1>6

-----------------------------------------------------------------------------
(* A step of the helper *)

\* What is left after a step is the rest of the same plan.
LEMMA RestOfPlan ==
  ASSUME NEW p, NEW steps \in Seq(Steps), steps # <<>>, Carries(p, steps),
         Len(steps) # 1
  PROVE  /\ Tail(steps) \in Seq(Steps) /\ Tail(steps) # <<>>
         /\ Tail(steps)[1] = steps[2] /\ steps[2] \in Steps
         /\ Belongs(p, steps[2]) /\ Follows(p, steps[1], steps[2])
         /\ Carries(p, Tail(steps))
<1> DEFINE rest == Tail(steps)
<1>1. Len(steps) \in Nat /\ Len(steps) > 1 /\ 2 \in 1..Len(steps)
  <2>1. Len(steps) \in Nat /\ Len(steps) # 0
    OBVIOUS
  <2>2. \A n \in Nat : n # 0 /\ n # 1 => n > 1 /\ 2 \in 1..n
    OBVIOUS
  <2> QED
    BY <2>1, <2>2
<1>2. /\ rest \in Seq(Steps) /\ Len(rest) = Len(steps) - 1
      /\ \A i \in 1..Len(rest) : rest[i] = steps[i + 1]
  BY <1>1
<1>3. rest # <<>> /\ rest[1] = steps[2] /\ rest[Len(rest)] = steps[Len(steps)]
  <2>1. Len(rest) \in 1..Len(rest) /\ 1 \in 1..Len(rest)
    BY <1>1, <1>2
  <2>2. Len(rest) + 1 = Len(steps) /\ Len(rest) # 0
    BY <1>1, <1>2
  <2> HIDE DEF rest
  <2> QED
    BY <1>2, <2>1, <2>2
<1>4. steps[2] \in Steps
  BY <1>1
<1>5. Belongs(p, steps[2])
  BY <1>1 DEF Carries
<1>6. Follows(p, steps[1], steps[2])
  <2>1. 1 \in 1..Len(steps) - 1
    BY <1>1
  <2> QED
    BY <2>1 DEF Carries
<1> HIDE DEF rest
<1>7. \A i \in 1..Len(rest) : Belongs(p, rest[i])
  <2>1. ASSUME NEW i \in 1..Len(rest)
        PROVE  i + 1 \in 1..Len(steps)
    BY <1>1, <1>2
  <2> QED
    BY <1>2, <2>1 DEF Carries
<1>8. \A i \in 1..Len(rest) - 1 : Follows(p, rest[i], rest[i + 1])
  <2>1. ASSUME NEW i \in 1..Len(rest) - 1
        PROVE  /\ i \in 1..Len(rest) /\ i + 1 \in 1..Len(rest)
               /\ i + 1 \in 1..Len(steps) - 1
    BY <1>1, <1>2
  <2> QED
    BY <1>2, <2>1 DEF Carries
<1>9. rest[Len(rest)].do \in {"finish", "record", "stopped"}
  BY <1>3 DEF Carries
<1>10. Carries(p, rest)
  BY <1>7, <1>8, <1>9 DEF Carries
<1> QED
  BY <1>2, <1>3, <1>4, <1>5, <1>6, <1>10 DEF rest

\* A plan that has been built is carried out from its first step.
LEMMA StretchCarries ==
  ASSUME NEW p, NEW steps, NEW first, NEW last,
         Stretch(p, steps, first, last),
         last.do \in {"finish", "record", "stopped"}
  PROVE  /\ steps \in Seq(Steps) /\ steps # <<>> /\ steps[1] = first
         /\ Carries(p, steps) /\ Belongs(p, first) /\ first \in Steps
<1>1. Len(steps) \in Nat /\ 1 \in 1..Len(steps)
  BY DEF Stretch
<1> QED
  BY <1>1 DEF Stretch, Carries

\* The helper has a plan.
HasPlan(p) ==
  /\ p \in Plans /\ Carries(p, todo) /\ ClauseHolds(p) /\ Ready(p, todo[1])
  /\ todo[1] \in Steps /\ Belongs(p, todo[1])

LEMMA HelperPlan ==
  ASSUME TypeOK, HelperHolds, todo # <<>>
  PROVE  /\ \E p \in Plans : HasPlan(p)
         /\ Current = todo[1] /\ Head(todo) = todo[1]
<1>1. todo \in Seq(Steps) /\ Len(todo) \in Nat /\ 1 \in 1..Len(todo)
  BY DEF TypeOK
<1>2. todo[1] \in Steps
  BY <1>1
<1>3. PICK p \in Plans : /\ Carries(p, todo) /\ ClauseHolds(p)
                         /\ Ready(p, todo[1])
  BY DEF HelperHolds
<1>4. Belongs(p, todo[1])
  BY <1>1, <1>3 DEF Carries
<1>5. HasPlan(p)
  BY <1>2, <1>3, <1>4 DEF HasPlan
<1>6. Current = todo[1] /\ Head(todo) = todo[1]
  BY <1>1 DEF Current
<1> QED
  BY <1>3, <1>5, <1>6

\* When a helper with a plan goes on to the next step, it has that plan still,
\* if it is ready for every step that may come next.
LEMMA DoneHolds ==
  ASSUME TypeOK, todo # <<>>, NEW p, HasPlan(p), Done,
         UNCHANGED <<clause, record>> => ClauseHolds(p)',
         \A t \in Steps : Belongs(p, t) /\ Follows(p, todo[1], t)
                            => Ready(p, t)'
  PROVE  HelperHolds'
<1>1. CASE Len(todo) = 1
  BY <1>1 DEF Done, Return, HelperHolds
<1>2. CASE Len(todo) # 1
  <2>1. todo' = Tail(todo) /\ UNCHANGED <<clause, record>>
    BY <1>2 DEF Done
  <2>2. /\ Tail(todo) # <<>> /\ Tail(todo)[1] = todo[2] /\ todo[2] \in Steps
        /\ Belongs(p, todo[2]) /\ Follows(p, todo[1], todo[2])
        /\ Carries(p, Tail(todo))
    BY <1>2, RestOfPlan DEF TypeOK, HasPlan
  <2>3. todo' # <<>> /\ todo'[1] = todo[2]
    BY <2>1, <2>2
  <2>4. PICK t \in Steps : t = todo[2]
    BY <2>2
  <2>5. Ready(p, t)' /\ todo'[1] = t
    BY <2>2, <2>3, <2>4
  <2>6. Ready(p, todo[1])'
    BY <2>5 DEF Ready, ReadyToBegin, ReadyToStop, ReadyToReplace, ReadyToEnd
  <2> QED
    BY <2>1, <2>2, <2>3, <2>6 DEF HelperHolds, HasPlan
<1> QED
  BY <1>1, <1>2

LEMMA DoneTypes ==
  ASSUME TypeOK, todo # <<>>, Done
  PROVE  /\ todo' \in Seq(Steps) /\ record' \in Records
         /\ clause' \in {"try", "except", "recover", "stop"}
<1>1. <<>> \in Seq(Steps)
  OBVIOUS
<1>2. NoRecord \in Records
  BY UpdateAssumption DEF NoRecord, Records, Phases, Results
<1>3. Tail(todo) \in Seq(Steps)
  BY DEF TypeOK
<1> QED
  BY <1>1, <1>2, <1>3 DEF Done, Return, TypeOK

-----------------------------------------------------------------------------
(* The others: the service, its jobs and the administrator *)

Elsewhere == ServiceRestarts \/ ServiceDies \/ JobArrives \/ JobEnds
             \/ UserDisable \/ Calm

\* They leave the installation alone, but for the jobs in it, and they open
\* admission to a service that runs without the gate only.
LEMMA ElsewhereLeaves ==
  ASSUME TypeOK, HostHolds, Elsewhere
  PROVE  /\ UNCHANGED <<before, previous, journal, result, held, helper, runs,
                        enabling, origin, target>>
         /\ live'.payload = live.payload /\ live'.plist = live.plist
         /\ live'.data.by = live.data.by /\ live'.data.schema = live.data.schema
         /\ live'.data.jobs = live.data.jobs
              \/ (live.data.jobs = 0 /\ accepting) \/ live'.data.jobs = 0
         /\ enabled' => enabled
         /\ running' => running
         /\ accepting' => running' /\ (accepting \/ ~held)
         /\ (running => accepting) /\ ~held => (running' => accepting')
         /\ TypeOK'
<1> USE DEF TypeOK, HostHolds
<1>1. CASE ServiceRestarts
  BY <1>1 DEF ServiceRestarts, files, helper, kept, ghosts
<1>2. CASE ServiceDies
  BY <1>2 DEF ServiceDies, files, helper, kept, ghosts
<1>3. CASE JobArrives
  <2>1. live' = [live EXCEPT !.data.jobs = 1]
    BY <1>3 DEF JobArrives
  <2>2. /\ live' \in Trees /\ live'.payload = live.payload
        /\ live'.plist = live.plist /\ live'.data.by = live.data.by
        /\ live'.data.schema = live.data.schema
    BY <2>1 DEF Trees
  <2> QED
    BY <1>3, <2>2 DEF JobArrives, host, helper, kept, ghosts
<1>4. CASE JobEnds
  <2>1. live' = [live EXCEPT !.data.jobs = 0]
    BY <1>4 DEF JobEnds
  <2>2. /\ live' \in Trees /\ live'.payload = live.payload
        /\ live'.plist = live.plist /\ live'.data.by = live.data.by
        /\ live'.data.schema = live.data.schema /\ live'.data.jobs = 0
    BY <2>1 DEF Trees
  <2> QED
    BY <1>4, <2>2 DEF JobEnds, host, helper, kept, ghosts
<1>5. CASE UserDisable
  BY <1>5 DEF UserDisable, files, helper, kept, ghosts
<1>6. CASE Calm
  BY <1>6 DEF Calm, files, host, helper, ghosts
<1> QED
  BY <1>1, <1>2, <1>3, <1>4, <1>5, <1>6 DEF Elsewhere

LEMMA ElsewhereWhole ==
  ASSUME TypeOK, HostHolds, Elsewhere
  PROVE  Whole(live) <=> Whole(live)'
BY ElsewhereLeaves DEF Whole

\* What a journal entry vouches for stays so.
LEMMA ElsewhereJournal ==
  ASSUME TypeOK, HostHolds, Elsewhere, NEW j \in Records, JournalHolds(j)
  PROVE  JournalHolds(j)'
<1>1. UNCHANGED <<before, held, origin, target>> /\ live'.payload = live.payload
  BY ElsewhereLeaves
<1>2. j.phase \in {"none", "preparing"} => ~held' /\ (running' => accepting')
  BY <1>1, ElsewhereLeaves DEF JournalHolds
<1>3. j.phase \in Gated => held' /\ ~accepting' /\ live'.data.jobs = 0
  BY <1>1, ElsewhereLeaves DEF JournalHolds
<1>4. j.phase \notin Apart => Whole(live)'
  BY ElsewhereWhole DEF JournalHolds
<1>5. j.phase \in {"backed-up", "migrating"} => Off'
  BY ElsewhereLeaves DEF JournalHolds, Off
<1>6. j.phase \in BackedUp => before'[j.run].payload = origin'
  BY <1>1 DEF JournalHolds
<1> QED
  BY <1>1, <1>2, <1>3, <1>4, <1>5, <1>6 DEF JournalHolds

\* The helper stays ready for its step.
LEMMA ElsewhereReady ==
  ASSUME TypeOK, HostHolds, Elsewhere, JournalHolds(journal),
         NEW p, NEW s, Ready(p, s)
  PROVE  Ready(p, s)'
<1>1. /\ UNCHANGED <<before, held, journal, origin, target>>
      /\ live'.payload = live.payload /\ live'.plist = live.plist
      /\ live'.data.by = live.data.by /\ live'.data.schema = live.data.schema
  BY ElsewhereLeaves
<1>2. ReadyToBegin(p, s)'
  <2>1. held /\ ~accepting => ~accepting'
    BY ElsewhereLeaves
  <2>2. live.data.jobs = 0 /\ ~accepting => live'.data.jobs = 0
    BY ElsewhereLeaves
  <2>3. Is(s, "phase", "stopping") => ~accepting /\ live.data.jobs = 0 /\ held
    BY DEF Ready, ReadyToBegin
  <2> QED
    BY <1>1, <2>1, <2>2, <2>3 DEF Ready, ReadyToBegin, Is
<1>3. Off => Off'
  BY ElsewhereLeaves DEF Off
<1>4. /\ \A a, b : InPhase(p, a, b)' <=> InPhase(p, a, b)
      /\ Goal(p)' = Goal(p) /\ Releasing(p)' <=> Releasing(p)
      /\ Replacing(p) => Replacing(p)'
      /\ DataReplaced(p) => DataReplaced(p)'
      /\ PayloadReplaced(p) => PayloadReplaced(p)'
      /\ Starting(p) => Starting(p)'
  <2>1. \A a, b : InPhase(p, a, b)' <=> InPhase(p, a, b)
    BY <1>1 DEF InPhase
  <2>2. Goal(p)' = Goal(p)
    BY <1>1 DEF Goal
  <2>3. Releasing(p)' <=> Releasing(p)
    BY <1>1 DEF Releasing
  <2>4. Replacing(p) => Replacing(p)'
    BY <1>1, <1>3, <2>1 DEF Replacing
  <2>5. DataReplaced(p) => DataReplaced(p)'
    BY <1>1, <2>2 DEF DataReplaced
  <2>6. PayloadReplaced(p) => PayloadReplaced(p)'
    BY <1>1, <2>2 DEF PayloadReplaced
  <2>7. Starting(p) => Starting(p)'
    BY <1>1, <2>1 DEF Starting, Whole
  <2> QED
    BY <2>1, <2>2, <2>3, <2>4, <2>5, <2>6, <2>7
<1>5. ReadyToStop(p, s)'
  BY <1>1, <1>3 DEF Ready, ReadyToStop, Is
<1>6. ReadyToReplace(p, s)'
  BY <1>1, <1>3, <1>4 DEF Ready, ReadyToReplace, Is, Whole
<1>7. ReadyToEnd(p, s)'
  <2>1. ~held /\ (running => accepting) => (running' => accepting')
    BY ElsewhereLeaves
  <2> QED
    BY <1>1, <1>4, <2>1 DEF Ready, ReadyToEnd, Is
<1> QED
  BY <1>2, <1>5, <1>6, <1>7 DEF Ready

LEMMA ElsewhereHolds ==
  ASSUME Inv, Elsewhere
  PROVE  Inv'
<1> USE DEF Inv
<1>1. /\ UNCHANGED <<before, previous, journal, result, held, helper, runs,
                     enabling, origin, target>>
      /\ live'.payload = live.payload /\ TypeOK'
  BY ElsewhereLeaves
<1>2. HostHolds'
  <2>1. enabled' \/ running' => Whole(live)'
    BY ElsewhereLeaves, ElsewhereWhole DEF HostHolds
  <2>2. accepting' => running'
    BY ElsewhereLeaves
  <2> QED
    BY <1>1, <2>1, <2>2 DEF HostHolds, helper
<1>3. SnapshotsHold' /\ VersionsHold'
  BY <1>1 DEF SnapshotsHold, VersionsHold, Whole
<1>4. JournalHolds(journal)'
  <2>1. PICK j \in Records : j = journal
    BY DEF TypeOK
  <2>2. JournalHolds(j)'
    BY <2>1, ElsewhereJournal
  <2> QED
    BY <1>1, <2>1, <2>2 DEF JournalHolds
<1>5. HelperHolds'
  <2>1. CASE todo = <<>>
    BY <1>1, <2>1 DEF HelperHolds, helper
  <2>2. CASE todo # <<>>
    <3>1. PICK p \in Plans : HasPlan(p)
      BY <2>2, HelperPlan
    <3>2. clause = "except" => JournalHolds(record)'
      <4>1. PICK j \in Records : j = record
        BY DEF TypeOK
      <4>2. clause = "except" => JournalHolds(j)'
        BY <3>1, <4>1, ElsewhereJournal DEF HasPlan, ClauseHolds
      <4> QED
        BY <1>1, <4>1, <4>2 DEF JournalHolds, helper
    <3>3. ClauseHolds(p)'
      <4>1. TryHolds(p) => TryHolds(p)'
        BY <1>1 DEF TryHolds, helper
      <4>2. RecoverHolds(p) => RecoverHolds(p)'
        BY <1>1 DEF RecoverHolds, helper
      <4> QED
        BY <1>1, <3>1, <3>2, <4>1, <4>2 DEF HasPlan, ClauseHolds, helper
    <3>4. Ready(p, todo[1])'
      <4>1. PICK s \in Steps : s = todo[1]
        BY <3>1 DEF HasPlan
      <4>2. Ready(p, s)' /\ todo'[1] = s
        BY <1>1, <3>1, <4>1, ElsewhereReady DEF HasPlan, helper
      <4> QED
        BY <4>2 DEF Ready, ReadyToBegin, ReadyToStop, ReadyToReplace, ReadyToEnd
    <3> QED
      BY <1>1, <2>2, <3>1, <3>3, <3>4 DEF HelperHolds, HasPlan, helper
  <2> QED
    BY <2>1, <2>2
<1> QED
  BY <1>1, <1>2, <1>3, <1>4, <1>5

\* A service that starts does so on a whole installation.
LEMMA StartHolds ==
  ASSUME TypeOK, Whole(live), SnapshotsHold, VersionsHold, ServiceStarts,
         UNCHANGED <<before, journal, held, runs, origin, target>>
  PROVE  /\ live' \in Trees /\ running' \in BOOLEAN /\ accepting' \in BOOLEAN
         /\ live'.payload = live.payload /\ live'.plist = live.plist
         /\ Whole(live)' /\ running' /\ (accepting' <=> ~held')
         /\ \A j \in Records : JournalHolds(j)
              /\ j.phase \notin {"backed-up", "migrating"} => JournalHolds(j)'
<1>1. live' = [live EXCEPT !.data.by = live.payload]
  BY DEF ServiceStarts
<1>2. live.payload \in Versions /\ live \in Trees
  BY DEF TypeOK, Trees, Whole, Absent
<1>3. /\ live' \in Trees /\ live'.payload = live.payload
      /\ live'.plist = live.plist /\ live'.data.by = live.payload
      /\ live'.data.schema = live.data.schema
      /\ live'.data.jobs = live.data.jobs
  BY <1>1, <1>2 DEF Trees
<1>4. live.payload \in 1..live.payload
  BY <1>2 DEF Versions
<1>5. Whole(live)'
  BY <1>3, <1>4 DEF Whole
<1>6. /\ running' = TRUE /\ accepting' = ~held /\ held' = held
      /\ held \in BOOLEAN
  BY DEF ServiceStarts, TypeOK
<1>7. /\ running' \in BOOLEAN /\ accepting' \in BOOLEAN /\ running'
      /\ (accepting' <=> ~held')
  <2>1. running' \in BOOLEAN /\ accepting' \in BOOLEAN
    BY <1>6, Zenon
  <2>2. running'
    BY <1>6, Zenon
  <2>3. accepting' <=> ~held'
    <3>1. accepting' <=> ~held
      BY <1>6
    <3>2. held' <=> held
      BY <1>6
    <3> QED
      BY <3>1, <3>2
  <2> QED
    BY <2>1, <2>2, <2>3
<1>8. ASSUME NEW j \in Records, JournalHolds(j),
             j.phase \notin {"backed-up", "migrating"}
      PROVE  JournalHolds(j)'
  BY <1>3, <1>5, <1>7, <1>8 DEF JournalHolds
<1> QED
  BY <1>3, <1>5, <1>7, <1>8

LEMMA ReturnHolds ==
  ASSUME Return
  PROVE  /\ HelperHolds' /\ todo' = <<>> /\ todo' \in Seq(Steps)
         /\ clause' \in {"try", "except", "recover", "stop"}
         /\ record' \in Records
<1>1. NoRecord \in Records
  BY UpdateAssumption DEF NoRecord, Records, Phases, Results
<1>2. <<>> \in Seq(Steps)
  OBVIOUS
<1> QED
  BY <1>1, <1>2 DEF Return, HelperHolds

LEMMA CrashHolds ==
  ASSUME Inv, Crash
  PROVE  Inv'
<1>1. /\ UNCHANGED <<files, host, kept>> /\ Return
  BY DEF Crash
<1>2. TypeOK'
  BY <1>1, ReturnHolds DEF Inv, TypeOK, files, host, kept, ghosts
<1>3. HostHolds'
  BY <1>1, ReturnHolds DEF Inv, HostHolds, Whole, files, host, kept, ghosts
<1>4. SnapshotsHold' /\ VersionsHold'
  BY <1>1 DEF Inv, SnapshotsHold, VersionsHold, Whole, files, kept, ghosts
<1>5. JournalHolds(journal)'
  BY <1>1 DEF Inv, JournalHolds, Whole, Off, files, host, kept, ghosts
<1> QED
  BY <1>1, <1>2, <1>3, <1>4, <1>5, ReturnHolds DEF Inv

LEMMA RebootHolds ==
  ASSUME Inv, Reboot
  PROVE  Inv'
<1>1. /\ Return /\ enabling' = FALSE
      /\ UNCHANGED <<before, previous, journal, result, held, cups, enabled,
                     runs, origin, target>>
      /\ calm' = calm
  BY DEF Reboot, ghosts
<1>2. CASE enabled
  <2>1. ServiceStarts /\ Whole(live)
    BY <1>2 DEF Reboot, Inv, HostHolds
  <2>2. journal.phase \notin {"backed-up", "migrating"}
    BY <1>2 DEF Inv, JournalHolds, Off
  <2>3. /\ live' \in Trees /\ running' \in BOOLEAN /\ accepting' \in BOOLEAN
        /\ live'.payload = live.payload
        /\ Whole(live)' /\ running' /\ (accepting' <=> ~held')
    BY <1>1, <2>1, StartHolds DEF Inv
  <2>4. JournalHolds(journal)'
    <3>1. PICK j \in Records : j = journal
      BY DEF Inv, TypeOK
    <3>2. JournalHolds(j)'
      BY <1>1, <2>1, <2>2, <3>1, StartHolds DEF Inv
    <3> QED
      BY <1>1, <3>1, <3>2 DEF JournalHolds
  <2>5. TypeOK'
    BY <1>1, <2>3, ReturnHolds DEF Inv, TypeOK
  <2>6. HostHolds'
    BY <1>1, <2>3 DEF HostHolds
  <2>7. SnapshotsHold' /\ VersionsHold'
    BY <1>1, <2>3 DEF Inv, SnapshotsHold, VersionsHold, Whole
  <2> QED
    BY <1>1, <2>4, <2>5, <2>6, <2>7, ReturnHolds DEF Inv
<1>3. CASE ~enabled
  <2>1. running' = FALSE /\ accepting' = FALSE /\ live' = live
    BY <1>3 DEF Reboot
  <2>2. TypeOK'
    BY <1>1, <2>1, ReturnHolds DEF Inv, TypeOK
  <2>3. HostHolds'
    BY <1>1, <1>3, <2>1 DEF HostHolds
  <2>4. SnapshotsHold' /\ VersionsHold'
    BY <1>1, <2>1 DEF Inv, SnapshotsHold, VersionsHold, Whole
  <2>5. JournalHolds(journal)'
    BY <1>1, <1>3, <2>1 DEF Inv, JournalHolds, Whole, Off
  <2> QED
    BY <1>1, <2>2, <2>3, <2>4, <2>5, ReturnHolds DEF Inv
<1> QED
  BY <1>2, <1>3

LEMMA UserEnableHolds ==
  ASSUME Inv, OneAtATime, UserEnableChecks \/ UserEnableStarts
  PROVE  Inv'
<1>1. CASE UserEnableChecks
  <2>1. /\ UNCHANGED <<files, host, helper, runs, ghosts>> /\ enabling' = TRUE
        /\ todo = <<>> /\ journal.phase = "none"
    BY <1>1 DEF UserEnableChecks, OneAtATime
  <2>2. TypeOK'
    BY <2>1 DEF Inv, TypeOK, files, host, helper, ghosts
  <2>3. HostHolds'
    BY <2>1 DEF Inv, HostHolds, Whole, files, host, helper, ghosts
  <2>4. SnapshotsHold' /\ VersionsHold'
    BY <2>1 DEF Inv, SnapshotsHold, VersionsHold, Whole, files, helper, ghosts
  <2>5. JournalHolds(journal)'
    BY <2>1 DEF Inv, JournalHolds, Whole, Off, files, host, ghosts
  <2>6. HelperHolds'
    BY <2>1 DEF Inv, HelperHolds, helper
  <2> QED
    BY <2>2, <2>3, <2>4, <2>5, <2>6 DEF Inv
<1>2. CASE UserEnableStarts
  <2>1. /\ enabling /\ enabling' = FALSE /\ enabled' = TRUE /\ cups' = TRUE
        /\ ServiceStarts
        /\ UNCHANGED <<before, previous, journal, result, held, helper, runs,
                       origin, target>>
        /\ calm' = calm
    BY <1>2 DEF UserEnableStarts, ghosts
  <2>2. todo = <<>> /\ journal.phase = "none"
    BY <2>1 DEF Inv, HostHolds
  <2>3. Whole(live) /\ ~held
    BY <2>2 DEF Inv, JournalHolds, Apart
  <2>4. /\ live' \in Trees /\ running' \in BOOLEAN /\ accepting' \in BOOLEAN
        /\ live'.payload = live.payload
        /\ Whole(live)' /\ running' /\ (accepting' <=> ~held')
    BY <2>1, <2>3, StartHolds DEF Inv, helper
  <2>5. JournalHolds(journal)'
    <3>1. PICK j \in Records : j = journal
      BY DEF Inv, TypeOK
    <3>2. JournalHolds(j)'
      BY <2>1, <2>2, <2>3, <3>1, StartHolds DEF Inv
    <3> QED
      BY <2>1, <3>1, <3>2 DEF JournalHolds
  <2>6. TypeOK'
    BY <2>1, <2>4 DEF Inv, TypeOK, helper
  <2>7. HostHolds'
    BY <2>1, <2>4 DEF HostHolds
  <2>8. SnapshotsHold' /\ VersionsHold'
    BY <2>1, <2>4 DEF Inv, SnapshotsHold, VersionsHold, Whole
  <2>9. HelperHolds'
    BY <2>1, <2>2 DEF Inv, HelperHolds, helper
  <2> QED
    BY <2>5, <2>6, <2>7, <2>8, <2>9 DEF Inv
<1> QED
  BY <1>1, <1>2

LEMMA BeginHolds ==
  ASSUME Inv, NEW source \in 0..MaxRuns, NEW version \in Versions,
         Begin(source, version), version <= runs + 2, OneAtATime,
         IF source = 0 THEN version = runs + 2
         ELSE source # runs + 1 /\ before[source].payload = version
  PROVE  Inv'
<1> DEFINE mode == IF source = 0 THEN "update" ELSE "rollback"
           plan == [mode |-> mode, run |-> runs + 1, source |-> source,
                    outcome |-> IF source = 0 THEN "updated" ELSE "rolled-back"]
           start == Step("phase", "preparing", 0)
<1>1. /\ todo = <<>> /\ journal.phase = "none" /\ runs < MaxRuns /\ ~enabling
      /\ runs' = runs + 1 /\ todo' = Forward(runs + 1, source)
      /\ record' = [NoRecord EXCEPT !.run = runs + 1, !.operation = mode]
      /\ origin' = live.payload /\ target' = version
      /\ UNCHANGED <<files, host, clause, enabling, calm>>
  BY DEF Begin, Idle, OneAtATime
<1>2. /\ journal = NoRecord /\ Whole(live) /\ clause = "try"
      /\ live.payload \in Versions /\ live.payload <= runs + 1
      /\ runs \in Nat /\ runs + 1 \in 1..MaxRuns
  <2>1. journal = NoRecord /\ Whole(live)
    BY <1>1 DEF Inv, JournalHolds, Apart
  <2>2. clause = "try"
    BY <1>1 DEF Inv, HelperHolds
  <2>3. live.payload \in Versions
    BY <2>1 DEF Inv, TypeOK, Trees, Whole
  <2>4. runs \in 0..MaxRuns /\ live.payload <= runs + 1
    BY DEF Inv, TypeOK, VersionsHold
  <2>5. runs \in Nat /\ runs + 1 \in 1..MaxRuns
    BY <1>1, <2>4, UpdateAssumption
  <2> QED
    BY <2>1, <2>2, <2>3, <2>4, <2>5
<1>3. PICK p \in Plans : p = plan
  BY <1>2 DEF Plans, Trying, Results
<1>4. /\ p.mode = mode /\ p.run = runs + 1 /\ p.source = source
      /\ p.outcome = IF source = 0 THEN "updated" ELSE "rolled-back"
      /\ mode \in Trying /\ (mode = "update" <=> source = 0)
      /\ source # runs + 1
  BY <1>2, <1>3 DEF Trying
<1> HIDE DEF plan
<1>5. Stretch(p, Forward(runs + 1, source), start,
              Step("finish", p.outcome, 0))
  BY <1>3, <1>4, ForwardStretch
<1>6. Step("finish", p.outcome, 0).do \in {"finish", "record", "stopped"}
  BY StepFields
<1> HIDE DEF start
<1>7. /\ todo' \in Seq(Steps) /\ todo' # <<>> /\ todo'[1] = start
      /\ Carries(p, todo')
  BY <1>1, <1>5, <1>6, StretchCarries
<1>8. /\ record' \in Records /\ record'.run = runs + 1
      /\ record'.operation = mode /\ record'.outcome = "none"
      /\ record'.phase = "none"
  <2>1. mode \in {"update", "rollback"}
    OBVIOUS
  <2>2. runs + 1 \in 0..MaxRuns
    BY <1>2
  <2>3. NoRecord \in Records
    BY UpdateAssumption DEF NoRecord, Records, Phases, Results
  <2> HIDE DEF mode
  <2>4. /\ record'.run = runs + 1 /\ record'.operation = mode
        /\ record'.outcome = "none" /\ record'.phase = "none"
    BY <1>1 DEF NoRecord
  <2>5. record' \in Records
    BY <1>1, <2>1, <2>2, <2>3 DEF Records, NoRecord
  <2> QED
    BY <2>4, <2>5
<1>9. TypeOK'
  <2>1. runs' \in 0..MaxRuns
    BY <1>1, <1>2
  <2> QED
    BY <1>1, <1>2, <1>7, <1>8, <2>1 DEF Inv, TypeOK, files, host
<1>10. HostHolds'
  BY <1>1 DEF Inv, HostHolds, Whole, files, host
<1>11. SnapshotsHold'
  <2>1. before' = before /\ runs' = runs + 1
    BY <1>1 DEF files
  <2>2. \A r \in 1..MaxRuns : r > runs + 1 => r > runs
    BY <1>2
  <2> QED
    BY <2>1, <2>2 DEF Inv, SnapshotsHold, Whole
<1>12. VersionsHold'
  <2>1. \A r \in 1..MaxRuns : before[r].payload <= runs + 1
    BY DEF Inv, VersionsHold
  <2>2. \A r \in 1..MaxRuns : before[r].payload \in Versions \union {Absent}
    BY DEF Inv, TypeOK, Trees
  <2>3. \A n \in Nat : n <= runs + 1 => n <= runs + 1 + 1
    BY <1>2
  <2>4. \A n \in Versions \union {Absent} : n \in Nat
    BY UpdateAssumption DEF Versions, Absent
  <2>5. runs + 2 = runs + 1 + 1
    BY <1>2
  <2> QED
    BY <1>1, <1>2, <2>1, <2>2, <2>3, <2>4, <2>5 DEF VersionsHold, files
<1>13. JournalHolds(journal)'
  BY <1>1 DEF Inv, JournalHolds, Whole, Off, Gated, BackedUp, files, host
<1>14. ClauseHolds(p)'
  <2>1. IF mode = "update"
        THEN source = 0 /\ origin' <= target' /\ p.outcome = "updated"
        ELSE /\ source \notin {0, runs + 1} /\ before'[source].payload = target'
             /\ p.outcome = "rolled-back"
    <3>1. live.payload <= runs + 2
      BY <1>2 DEF Versions
    <3> QED
      BY <1>1, <1>4, <3>1 DEF files
  <2>2. Is(todo'[1], "phase", "preparing")
    BY <1>7, StepFields DEF start, Is
  <2>3. TryHolds(p)'
    BY <1>1, <1>2, <1>4, <1>8, <2>1, <2>2 DEF TryHolds, files
  <2> QED
    BY <1>1, <1>2, <1>4, <1>8, <2>3 DEF ClauseHolds
<1>15. Ready(p, todo[1])'
  <2>1. /\ journal' = NoRecord /\ live'.payload = origin'
    BY <1>1, <1>2 DEF files
  <2>2. start.do = "phase" /\ start.what = "preparing"
    BY StepFields DEF start
  <2>3. ReadyToBegin(p, todo[1])'
    BY <1>7, <2>1, <2>2 DEF ReadyToBegin, Is
  <2>4. ReadyToStop(p, todo[1])'
    BY <1>7, <2>2 DEF ReadyToStop, Is
  <2>5. ReadyToReplace(p, todo[1])'
    BY <1>7, <2>2 DEF ReadyToReplace, Is
  <2>6. ReadyToEnd(p, todo[1])'
    BY <1>7, <2>2 DEF ReadyToEnd, Is
  <2> QED
    BY <2>3, <2>4, <2>5, <2>6 DEF Ready
<1>16. HelperHolds'
  BY <1>3, <1>7, <1>14, <1>15 DEF HelperHolds
<1> QED
  BY <1>9, <1>10, <1>11, <1>12, <1>13, <1>16 DEF Inv

LEMMA UpdateHolds ==
  ASSUME Inv, OneAtATime, Update
  PROVE  Inv'
<1>1. runs \in 0..MaxRuns /\ runs < MaxRuns
  BY DEF Inv, TypeOK, Update, Begin
<1>2. runs + 2 \in Versions /\ 0 \in 0..MaxRuns /\ runs + 2 <= runs + 2
  BY <1>1, UpdateAssumption DEF Versions
<1> QED
  BY <1>2, BeginHolds DEF Update

LEMMA RollbackHolds ==
  ASSUME Inv, OneAtATime, Rollback
  PROVE  Inv'
<1>1. /\ previous # 0 /\ Complete(previous)
      /\ Begin(previous, before[previous].payload)
  BY DEF Rollback
<1>2. /\ previous \in 1..MaxRuns /\ previous \in 0..MaxRuns
      /\ runs \in 0..MaxRuns
  BY <1>1, UpdateAssumption DEF Inv, TypeOK
<1>3. before[previous] # Partial
  BY <1>1 DEF Complete
<1>4. ~(previous > runs) /\ before[previous].payload # Absent
  BY <1>2, <1>3 DEF Inv, SnapshotsHold, Whole
<1>5. previous # runs + 1
  BY <1>2, <1>4
<1>6. before[previous].payload \in Versions
  BY <1>2, <1>4 DEF Inv, TypeOK, Trees
<1>7. before[previous].payload <= runs + 2
  <2>1. before[previous].payload <= runs + 1
    BY <1>2 DEF Inv, VersionsHold
  <2> QED
    BY <1>2, <1>6, <2>1, UpdateAssumption DEF Versions
<1> QED
  BY <1>1, <1>2, <1>5, <1>6, <1>7, BeginHolds

\* Whoever reads a journal entry has the plan of its branch of recover.
LEMMA RecoveryHolds ==
  ASSUME TypeOK, NEW j \in Records, j.phase # "none", j.run # 0,
         JournalHolds(j)', journal' = j, record' = j,
         clause' = "recover", todo' = Recovery(j)
  PROVE  HelperHolds' /\ todo' \in Seq(Steps)
<1> DEFINE p == RecoveryPlan(j)
<1>1. p \in Plans
  BY RecoveryPlanType
<1>2. /\ p.run = j.run /\ p.source = j.run
      /\ j.phase = "committed" => /\ p.mode = "finalize"
                                  /\ p.outcome = Completion(j)
      /\ j.phase = "preparing" => /\ p.mode = "abandon"
                                  /\ p.outcome = "prepare-failed"
      /\ j.phase = "admission" => p.mode = "defer" /\ p.outcome = "deferred"
      /\ j.phase = "stopping" => p.mode = "restart" /\ p.outcome = "unchanged"
      /\ j.phase \in BackedUp => p.mode = "undo" /\ p.outcome = "rolled-back"
  BY DEF RecoveryPlan, BackedUp, Gated
<1>3. j.phase \in {"committed", "preparing", "admission", "stopping"}
                   \union BackedUp
  BY DEF Records, Phases, BackedUp, Gated
<1> HIDE DEF p
<1>4. Stretch(p, Recovery(j), FirstOfRecovery(j), Step("finish", p.outcome, 0))
  BY RecoveryStretch DEF p
<1>5. Step("finish", p.outcome, 0).do \in {"finish", "record", "stopped"}
  BY StepFields
<1>6. /\ todo' \in Seq(Steps) /\ todo' # <<>>
      /\ todo'[1] = FirstOfRecovery(j) /\ Carries(p, todo')
  BY <1>4, <1>5, StretchCarries
<1>7. ClauseHolds(p)'
  <2>1. RecoverHolds(p)'
    BY <1>2, <1>3 DEF RecoverHolds, Recovering, BackedUp
  <2> QED
    BY <1>2, <2>1 DEF ClauseHolds
<1>8. Ready(p, todo[1])'
  <2> DEFINE s == FirstOfRecovery(j)
  <2>1. /\ j.phase = "committed" => s.do = "health"
        /\ j.phase = "preparing" => s.do = "finish"
        /\ j.phase = "admission" => s.do = "unmark"
        /\ j.phase \in {"stopping"} \union BackedUp => s.do = "disable"
    BY StepFields DEF FirstOfRecovery, BackedUp, Gated
  <2>2. todo'[1] = s /\ journal' = j
    BY <1>6
  <2>3. j.phase = "preparing" => ~held' /\ (running' => accepting')
    BY DEF JournalHolds
  <2> HIDE DEF s
  <2>4. s.do \in {"health", "finish", "unmark", "disable"}
    BY <1>3, <2>1
  <2>5. ReadyToBegin(p, todo[1])'
    BY <2>2, <2>4 DEF ReadyToBegin, Is
  <2>6. ReadyToStop(p, todo[1])'
    BY <1>2, <1>3, <2>1, <2>2, <2>4 DEF ReadyToStop, Is, Trying, BackedUp, Gated
  <2>7. ReadyToReplace(p, todo[1])'
    BY <2>2, <2>4 DEF ReadyToReplace, Is
  <2>8. ReadyToEnd(p, todo[1])'
    BY <1>2, <1>3, <2>1, <2>2, <2>3, <2>4
       DEF ReadyToEnd, Is, Starting, Releasing, InPhase, Trying, BackedUp, Gated
  <2> QED
    BY <2>5, <2>6, <2>7, <2>8 DEF Ready
<1> QED
  BY <1>1, <1>6, <1>7, <1>8 DEF HelperHolds

LEMMA RecoverHoldsInv ==
  ASSUME Inv, Recover, OneAtATime
  PROVE  Inv'
<1>1. /\ todo = <<>> /\ ~enabling /\ journal.phase # "none"
      /\ clause' = "recover" /\ todo' = Recovery(journal) /\ record' = journal
      /\ UNCHANGED <<files, host, kept>>
  BY DEF Recover, Idle, OneAtATime
<1>2. journal \in Records /\ journal.run # 0
  BY <1>1 DEF Inv, TypeOK, JournalHolds
<1>3. JournalHolds(journal)'
  BY <1>1 DEF Inv, JournalHolds, Whole, Off, files, host, kept, ghosts
<1>4. HelperHolds' /\ todo' \in Seq(Steps)
  <2>1. PICK j \in Records : j = journal
    BY <1>2
  <2>2. journal' = j
    BY <1>1, <2>1 DEF files
  <2>3. JournalHolds(j)'
    BY <1>3, <2>2 DEF JournalHolds
  <2> QED
    BY <1>1, <1>2, <2>1, <2>2, <2>3, RecoveryHolds DEF Inv
<1>5. TypeOK'
  BY <1>1, <1>2, <1>4 DEF Inv, TypeOK, files, host, kept, ghosts
<1>6. HostHolds'
  BY <1>1 DEF Inv, HostHolds, Whole, files, host, kept, ghosts
<1>7. SnapshotsHold' /\ VersionsHold'
  BY <1>1 DEF Inv, SnapshotsHold, VersionsHold, Whole, files, kept, ghosts
<1> QED
  BY <1>3, <1>4, <1>5, <1>6, <1>7 DEF Inv

LEMMA JournalUnchanged ==
  ASSUME NEW j, JournalHolds(j),
         UNCHANGED <<live, before, held, enabled, running, accepting, origin,
                     target>>
  PROVE  JournalHolds(j)'
BY DEF JournalHolds, Whole, Off

\* What an action of the helper has to keep when the step it does is neither
\* a phase nor the failure record
LEMMA DoneInv ==
  ASSUME Inv, todo # <<>>, Done, NEW p, HasPlan(p),
         todo[1].do \notin {"phase", "record"},
         UNCHANGED <<journal, result, runs, enabling, origin, target, calm>>,
         p.mode = "rollback" => before'[p.source] = before[p.source],
         live' \in Trees, before' \in [1..MaxRuns -> Trees],
         previous' \in 0..MaxRuns,
         held' \in BOOLEAN, cups' \in BOOLEAN, enabled' \in BOOLEAN,
         running' \in BOOLEAN, accepting' \in BOOLEAN,
         accepting' => running', enabled' \/ running' => Whole(live)',
         SnapshotsHold', VersionsHold', JournalHolds(journal)',
         \A t \in Steps : Belongs(p, t) /\ Follows(p, todo[1], t)
                            => Ready(p, t)'
  PROVE  Inv'
<1>1. TypeOK'
  BY DoneTypes DEF Inv, TypeOK
<1>2. HostHolds'
  BY DEF Inv, HostHolds
<1>3. ASSUME UNCHANGED <<clause, record>>
      PROVE  ClauseHolds(p)'
  <2>1. clause # "except"
    BY DEF HasPlan, Belongs, ClauseHolds
  <2>2. clause = "try" => TryHolds(p)'
    <3>1. ASSUME TryHolds(p)
          PROVE  TryHolds(p)'
      <4>1. journal = record
        BY <3>1 DEF TryHolds, Is
      <4>2. /\ journal' = record' /\ runs' = runs /\ target' = target
            /\ origin' = origin /\ record' = record
        BY <1>3, <4>1
      <4>3. p.mode # "update" => before'[p.source] = before[p.source]
        BY <3>1 DEF TryHolds, Trying
      <4> QED
        BY <3>1, <4>2, <4>3 DEF TryHolds
    <3> QED
      BY <1>3, <3>1 DEF HasPlan, ClauseHolds
  <2>3. clause = "recover" => RecoverHolds(p)'
    BY <1>3 DEF HasPlan, ClauseHolds, RecoverHolds
  <2> QED
    BY <1>3, <2>1, <2>2, <2>3 DEF HasPlan, ClauseHolds
<1>4. HelperHolds'
  BY <1>3, DoneHolds DEF Inv
<1> QED
  BY <1>1, <1>2, <1>4 DEF Inv

\* The same when the step changes nothing but the program counter
LEMMA OnlyDone ==
  ASSUME Inv, todo # <<>>, Done, NEW p, HasPlan(p),
         todo[1].do \notin {"phase", "record"},
         UNCHANGED <<files, host, kept>>,
         \A t \in Steps : Belongs(p, t) /\ Follows(p, todo[1], t)
                            => Ready(p, t)
  PROVE  Inv'
<1>1. /\ UNCHANGED <<live, before, previous, journal, result, held>>
      /\ UNCHANGED <<cups, enabled, running, accepting>>
      /\ UNCHANGED <<runs, enabling, origin, target, calm>>
  BY DEF files, host, kept, ghosts
<1>2. \A t \in Steps : Ready(p, t) => Ready(p, t)'
  BY <1>1 DEF Ready, ReadyToBegin, ReadyToStop, ReadyToReplace, ReadyToEnd,
              Off, Replacing, DataReplaced, PayloadReplaced, Starting,
              Releasing, InPhase, Goal, Whole
<1>3. SnapshotsHold' /\ VersionsHold'
  BY <1>1 DEF Inv, SnapshotsHold, VersionsHold, Whole
<1>4. JournalHolds(journal)'
  BY <1>1 DEF Inv, JournalHolds, Whole, Off
<1>5. enabled' \/ running' => Whole(live)'
  BY <1>1 DEF Inv, HostHolds, Whole
<1>6. accepting' => running'
  BY <1>1 DEF Inv, HostHolds
<1>7. /\ live' \in Trees /\ before' \in [1..MaxRuns -> Trees]
      /\ previous' \in 0..MaxRuns
      /\ held' \in BOOLEAN /\ cups' \in BOOLEAN /\ enabled' \in BOOLEAN
      /\ running' \in BOOLEAN /\ accepting' \in BOOLEAN
  BY <1>1 DEF Inv, TypeOK
<1>8. \A t \in Steps : Belongs(p, t) /\ Follows(p, todo[1], t) => Ready(p, t)'
  BY <1>2
<1> QED
  BY <1>1, <1>3, <1>4, <1>5, <1>6, <1>7, <1>8, DoneInv

\* The steps that only look, and what is known when they have succeeded
LEMMA LookedReady ==
  ASSUME Inv, NEW p, HasPlan(p), Possible(todo[1]), NEW t \in Steps,
         todo[1].do \in {"stage", "no_jobs", "stopped", "copy", "verify", "up",
                         "health", "ready"},
         Belongs(p, t), Follows(p, todo[1], t)
  PROVE  Ready(p, t)
<1> DEFINE s == todo[1]
<1>1. Ready(p, s) /\ Belongs(p, s) /\ s \in Steps
  BY DEF HasPlan
<1> USE DEF Ready, Is
<1>2. CASE s.do = "stage"
  <2>1. t.do = "phase" /\ t.what = "admission"
    BY <1>2 DEF Follows
  <2>2. journal.phase = "preparing"
    BY <1>1, <1>2 DEF ReadyToBegin
  <2> QED
    BY <2>1, <2>2 DEF ReadyToBegin, ReadyToStop, ReadyToReplace, ReadyToEnd
<1>3. CASE s.do = "no_jobs"
  <2>1. t.do = "phase" /\ t.what = "stopping"
    BY <1>3 DEF Follows
  <2>2. journal.phase = "admission" /\ held /\ ~accepting
    BY <1>1, <1>3 DEF ReadyToBegin
  <2>3. live.data.jobs = 0
    BY <1>3 DEF Possible
  <2> QED
    BY <2>1, <2>2, <2>3
       DEF ReadyToBegin, ReadyToStop, ReadyToReplace, ReadyToEnd
<1>4. CASE s.do = "stopped"
  <2>1. Off
    BY <1>4 DEF Possible, Off
  <2>2. \/ p.mode = "undo" /\ journal.phase \in BackedUp
        \/ p.mode \in Trying \union {"restart"} /\ journal.phase = "stopping"
        \/ p.mode = "stop"
    BY <1>1, <1>4 DEF ReadyToStop
  <2>3. \/ p.mode \in Trying /\ t.do = "copy"
        \/ p.mode = "restart" /\ Is(t, "mark", "start")
        \/ p.mode = "undo" /\ Is(t, "phase", "restoring")
    BY <1>4 DEF Follows
  <2> QED
    BY <2>1, <2>2, <2>3
       DEF ReadyToBegin, ReadyToStop, ReadyToReplace, ReadyToEnd, Starting,
           InPhase, Trying
<1>5. CASE s.do = "copy"
  <2>1. t.do = "inventory"
    BY <1>5 DEF Follows
  <2>2. journal.phase = "stopping" /\ Off
    BY <1>1, <1>5 DEF ReadyToStop
  <2> QED
    BY <2>1, <2>2 DEF ReadyToBegin, ReadyToStop, ReadyToReplace, ReadyToEnd
<1>6. CASE s.do = "verify"
  <2>1. CASE p.mode \in Trying /\ s.run = p.run
    <3>1. t.do = "phase" /\ t.what = "backed-up"
      BY <1>6, <2>1 DEF Follows
    <3>2. journal.phase = "stopping" /\ Off /\ before[p.run].payload = origin
      BY <1>1, <1>6, <2>1 DEF ReadyToStop
    <3> QED
      BY <3>1, <3>2 DEF ReadyToBegin, ReadyToStop, ReadyToReplace, ReadyToEnd
  <2>2. CASE ~(p.mode \in Trying /\ s.run = p.run)
    <3>1. t.do = "park" /\ t.what = "payload"
      BY <1>6, <2>2 DEF Follows
    <3>2. Replacing(p)
      BY <1>1, <1>6, <2>2 DEF ReadyToReplace
    <3> QED
      BY <3>1, <3>2 DEF ReadyToBegin, ReadyToStop, ReadyToReplace, ReadyToEnd
  <2> QED
    BY <2>1, <2>2
<1>7. CASE s.do = "up"
  <2>1. t.do = "health"
    BY <1>7 DEF Follows
  <2>2. Starting(p)
    BY <1>1, <1>7 DEF ReadyToEnd
  <2> QED
    BY <2>1, <2>2 DEF ReadyToBegin, ReadyToStop, ReadyToReplace, ReadyToEnd
<1>8. CASE s.do = "health"
  <2>1. \/ p.mode \in Trying /\ Is(t, "phase", "healthy")
        \/ p.mode \in {"restart", "undo"} /\ t.do = "commit"
        \/ p.mode = "finalize" /\ t.do = "unmark"
    BY <1>8 DEF Follows
  <2>2. Starting(p)
    BY <1>1, <1>8 DEF ReadyToEnd
  <2> QED
    BY <2>1, <2>2 DEF ReadyToBegin, ReadyToStop, ReadyToReplace, ReadyToEnd,
                      Starting, InPhase, Releasing, Trying
<1>9. CASE s.do = "ready"
  <2>1. t.do = "finish"
    BY <1>9 DEF Follows
  <2>2. Releasing(p) /\ ~held /\ (running => accepting)
    BY <1>1, <1>9 DEF ReadyToEnd
  <2> QED
    BY <2>1, <2>2 DEF ReadyToBegin, ReadyToStop, ReadyToReplace, ReadyToEnd
<1> QED
  BY <1>2, <1>3, <1>4, <1>5, <1>6, <1>7, <1>8, <1>9

LEMMA CheckHolds ==
  ASSUME Inv, Check
  PROVE  Inv'
<1>1. /\ todo # <<>> /\ Done /\ UNCHANGED <<files, host, kept>>
      /\ Head(todo).do \in {"stage", "no_jobs", "stopped", "copy", "verify",
                            "up", "health", "ready"}
      /\ Possible(Current)
  BY DEF Check, Succeeds, Doing
<1>2. Current = todo[1] /\ Head(todo) = todo[1]
  BY <1>1, HelperPlan DEF Inv
<1>3. PICK p \in Plans : HasPlan(p)
  BY <1>1, HelperPlan DEF Inv
<1>4. \A t \in Steps : Belongs(p, t) /\ Follows(p, todo[1], t) => Ready(p, t)
  BY <1>1, <1>2, <1>3, LookedReady
<1>5. todo[1].do \notin {"phase", "record"}
  BY <1>1, <1>2
<1> QED
  BY <1>1, <1>3, <1>4, <1>5, OnlyDone

\* A plan does not end with any other step.
LEMMA GoesOn ==
  ASSUME TypeOK, todo # <<>>, NEW p, HasPlan(p),
         todo[1].do \notin {"finish", "record", "stopped"}
  PROVE  /\ Tail(todo) \in Seq(Steps) /\ Tail(todo) # <<>>
         /\ Tail(todo)[1] \in Steps /\ Belongs(p, Tail(todo)[1])
         /\ Follows(p, todo[1], Tail(todo)[1]) /\ Carries(p, Tail(todo))
<1>1. Len(todo) # 1
  BY DEF HasPlan, Carries
<1> QED
  BY <1>1, RestOfPlan DEF HasPlan, TypeOK

StepType(s) ==
  /\ s.do \in Commands /\ s.run \in 0..MaxRuns
  /\ s.do = "phase" => s.what \in Phases \ {"none"}
  /\ s.do \in {"commit", "finish"} => s.what \in Results
  /\ s.do = "mark" => s.what \in {"admission", "start"}
  /\ s.do \in {"park", "install"} => s.what \in {"payload", "data", "plist"}
  /\ s.do \in {"park", "install"} /\ s.what = "data" => s.run # 0
  /\ s.do \in {"inventory", "verify"} => s.run # 0

LEMMA StepTyped ==
  ASSUME NEW s \in Steps
  PROVE  StepType(s)
<1>1. CASE s \in [do: {"phase"}, what: Phases \ {"none"}, run: {0}]
  BY <1>1, UpdateAssumption DEF StepType, Commands
<1>2. CASE s \in [do: {"commit", "finish"}, what: Results, run: {0}]
  BY <1>2, UpdateAssumption DEF StepType, Commands
<1>3. CASE s \in [do: {"mark"}, what: {"admission", "start"}, run: {0}]
  BY <1>3, UpdateAssumption DEF StepType, Commands
<1>4. CASE s \in [do: {"inventory", "verify"}, what: {"none"}, run: 1..MaxRuns]
  BY <1>4, UpdateAssumption DEF StepType, Commands
<1>5. CASE s \in [do: {"park", "install"}, what: {"payload", "plist"},
                  run: 0..MaxRuns]
  BY <1>5, UpdateAssumption DEF StepType, Commands
<1>6. CASE s \in [do: {"park", "install"}, what: {"data"}, run: 1..MaxRuns]
  BY <1>6, UpdateAssumption DEF StepType, Commands
<1>7. CASE s \in [do: Commands \ {"phase", "commit", "finish", "mark",
                                  "inventory", "verify", "park", "install"},
                  what: {"none"}, run: {0}]
  BY <1>7, UpdateAssumption DEF StepType
<1> QED
  BY <1>1, <1>2, <1>3, <1>4, <1>5, <1>6, <1>7 DEF Steps

\* What the journal says next is so: before it is written, and when writing
\* it fails and the record in memory is written instead.
LEMMA PhaseHolds ==
  ASSUME Inv, todo # <<>>, NEW p, HasPlan(p), todo[1].do = "phase"
  PROVE  LET next == [record EXCEPT !.phase = todo[1].what]
         IN  /\ next \in Records /\ JournalHolds(next)
             /\ next.phase = todo[1].what /\ next.phase # "none"
             /\ next.run = record.run /\ next.operation = record.operation
             /\ next.outcome = record.outcome /\ record.outcome = "none"
<1> DEFINE s == todo[1]
           next == [record EXCEPT !.phase = s.what]
<1>1. s \in Steps /\ Ready(p, s) /\ Belongs(p, s) /\ ClauseHolds(p)
  BY DEF HasPlan
<1>2. s.do = "phase" /\ s.what \in Phases \ {"none"}
  BY <1>1, StepTyped DEF StepType
<1>3. record \in Records /\ record.run # 0 /\ p.run = record.run
  BY <1>1 DEF Inv, TypeOK, HasPlan, ClauseHolds, Plans
<1>4. /\ next \in Records /\ next.phase = s.what /\ next.run = record.run
      /\ next.operation = record.operation /\ next.outcome = record.outcome
  BY <1>2, <1>3 DEF Records
<1>5. clause \in {"try", "recover"}
  BY <1>1, <1>2 DEF Inv, TypeOK, ClauseHolds, Belongs, Trying
<1>6. /\ p.mode \in Trying => TryHolds(p)
      /\ p.mode = "undo" => RecoverHolds(p)
  BY <1>1, <1>5 DEF ClauseHolds, TryHolds, RecoverHolds, Trying, Recovering
<1>7. record.outcome = "none"
  <2>1. CASE p.mode \in Trying
    BY <1>6, <2>1 DEF TryHolds
  <2>2. CASE p.mode \notin Trying
    <3>1. p.mode = "undo" /\ s.what = "restoring"
      BY <1>1, <1>2, <2>2 DEF Belongs, Trying
    <3>2. record = journal /\ journal.phase \in BackedUp
      BY <1>1, <1>2, <1>6, <3>1
         DEF Ready, ReadyToStop, Is, RecoverHolds
    <3> QED
      BY <3>2 DEF Inv, JournalHolds, BackedUp, Gated
  <2> QED
    BY <2>1, <2>2
<1>8. JournalHolds(next)
  <2>1. JournalHolds(journal)
    BY DEF Inv
  <2>2. s.what # "restoring" => p.mode \in Trying
    BY <1>1, <1>2 DEF Belongs, Trying
  <2>3. s.what # "preparing" => journal.run = record.run
    BY <1>1, <1>2, <1>6, <2>2
       DEF TryHolds, RecoverHolds, Is, Belongs, Trying
  <2> HIDE DEF s, next
  <2> USE DEF Ready, Is
  <2>4. CASE s.what = "preparing"
    <3>1. journal = NoRecord /\ live.payload = origin
      BY <1>1, <1>2, <2>4 DEF ReadyToBegin
    <3> QED
      BY <1>3, <1>4, <1>7, <2>1, <2>4, <3>1
         DEF JournalHolds, NoRecord, Gated, BackedUp, Apart
  <2>5. CASE s.what = "admission"
    <3>1. journal.phase = "preparing"
      BY <1>1, <1>2, <2>5 DEF ReadyToBegin
    <3> QED
      BY <1>3, <1>4, <1>7, <2>1, <2>5, <3>1
         DEF JournalHolds, Gated, BackedUp, Apart
  <2>6. CASE s.what = "stopping"
    <3>1. /\ journal.phase = "admission" /\ held /\ ~accepting
          /\ live.data.jobs = 0
      BY <1>1, <1>2, <2>6 DEF ReadyToBegin
    <3> QED
      BY <1>3, <1>4, <1>7, <2>1, <2>6, <3>1
         DEF JournalHolds, Gated, BackedUp, Apart
  <2>7. CASE s.what = "backed-up"
    <3>1. /\ journal.phase = "stopping" /\ Off
          /\ before[record.run].payload = origin
      BY <1>1, <1>2, <1>3, <2>7 DEF ReadyToStop
    <3> QED
      BY <1>3, <1>4, <1>7, <2>1, <2>7, <3>1
         DEF JournalHolds, Gated, BackedUp, Apart
  <2>8. CASE s.what = "migrating"
    <3>1. Off /\ journal.phase = "backed-up"
      <4>1. p.mode \in Trying /\ Replacing(p)
        BY <1>1, <1>2, <2>2, <2>8 DEF ReadyToReplace
      <4> QED
        BY <4>1 DEF Replacing, InPhase, Trying
    <3> QED
      BY <1>3, <1>4, <1>7, <2>1, <2>3, <2>8, <3>1
         DEF JournalHolds, Gated, BackedUp, Apart
  <2>9. CASE s.what = "starting"
    <3>1. /\ journal.phase \in {"backed-up", "migrating"}
          /\ Whole(live) /\ live.payload = target
      BY <1>1, <1>2, <2>9 DEF ReadyToReplace
    <3> QED
      BY <1>3, <1>4, <1>7, <2>1, <2>3, <2>9, <3>1
         DEF JournalHolds, Gated, BackedUp, Apart
  <2>10. CASE s.what = "healthy"
    <3>1. journal.phase = "starting"
      BY <1>1, <1>2, <2>10 DEF ReadyToEnd
    <3> QED
      BY <1>3, <1>4, <1>7, <2>1, <2>3, <2>10, <3>1
         DEF JournalHolds, Gated, BackedUp, Apart
  <2>11. CASE s.what = "committed"
    <3>1. journal.phase = "healthy"
      BY <1>1, <1>2, <2>11 DEF ReadyToEnd
    <3> QED
      BY <1>3, <1>4, <1>7, <2>1, <2>11, <3>1
         DEF JournalHolds, Gated, BackedUp, Apart
  <2>12. CASE s.what = "restoring"
    <3>1. journal.phase \in BackedUp /\ Off
      BY <1>1, <1>2, <2>12 DEF ReadyToStop
    <3> QED
      BY <1>3, <1>4, <1>7, <2>1, <2>3, <2>12, <3>1
         DEF JournalHolds, Gated, BackedUp, Apart
  <2> QED
    BY <1>2, <2>4, <2>5, <2>6, <2>7, <2>8, <2>9, <2>10, <2>11, <2>12
       DEF Phases
<1> QED
  BY <1>2, <1>4, <1>7, <1>8

LEMMA WritePhaseHolds ==
  ASSUME Inv, WritePhase
  PROVE  Inv'
<1>1. /\ todo # <<>> /\ Head(todo).do = "phase"
      /\ journal' = [record EXCEPT !.phase = Current.what]
      /\ todo' = Tail(todo) /\ record' = journal'
      /\ UNCHANGED <<live, before, previous, result, held, host, clause, kept>>
  BY DEF WritePhase, Doing
<1>2. PICK p \in Plans : HasPlan(p)
  BY <1>1, HelperPlan DEF Inv
<1> DEFINE s == todo[1]
           next == [record EXCEPT !.phase = s.what]
<1>3. s.do = "phase" /\ journal' = next /\ record' = next
  BY <1>1, HelperPlan DEF Inv
<1>4. /\ next \in Records /\ JournalHolds(next)
      /\ next.phase = s.what /\ next.phase # "none"
      /\ next.run = record.run /\ next.operation = record.operation
      /\ next.outcome = "none" /\ record.outcome = "none"
  BY <1>1, <1>2, <1>3, PhaseHolds
<1>5. s \in Steps /\ Ready(p, s) /\ Belongs(p, s) /\ ClauseHolds(p)
  BY <1>2 DEF HasPlan
<1>6. /\ Tail(todo) \in Seq(Steps) /\ Tail(todo) # <<>>
      /\ Tail(todo)[1] \in Steps /\ Belongs(p, Tail(todo)[1])
      /\ Follows(p, s, Tail(todo)[1]) /\ Carries(p, Tail(todo))
  BY <1>1, <1>2, <1>3, GoesOn DEF Inv
<1> HIDE DEF s, next
<1>7. TypeOK'
  BY <1>1, <1>3, <1>4, <1>6 DEF Inv, TypeOK, host, kept, ghosts
<1>8. HostHolds'
  <2>1. ~enabling
    BY <1>1 DEF Inv, HostHolds
  <2> QED
    BY <1>1, <2>1 DEF Inv, HostHolds, Whole, host, kept, ghosts
<1>9. SnapshotsHold' /\ VersionsHold'
  BY <1>1 DEF Inv, SnapshotsHold, VersionsHold, Whole, kept, ghosts
<1>10. JournalHolds(journal)'
  <2>1. PICK j : j = next
    OBVIOUS
  <2>2. JournalHolds(j)'
    BY <1>1, <1>4, <2>1, JournalUnchanged DEF host, kept, ghosts
  <2> QED
    BY <1>3, <2>1, <2>2 DEF JournalHolds
<1>11. ClauseHolds(p)'
  <2>1. p.mode \in Trying => TryHolds(p)'
    <3>1. p.mode \in Trying => TryHolds(p)
      BY <1>3, <1>5 DEF Inv, TypeOK, ClauseHolds, Belongs, RecoverHolds,
                        Trying, Recovering
    <3> QED
      BY <1>1, <1>3, <1>4, <3>1 DEF TryHolds, kept, ghosts
  <2>2. p.mode = "undo" => RecoverHolds(p)'
    <3>1. p.mode = "undo" => RecoverHolds(p) /\ s.what = "restoring"
      BY <1>3, <1>5 DEF Inv, TypeOK, ClauseHolds, Belongs, TryHolds, Trying
    <3> QED
      BY <1>3, <1>4, <3>1 DEF RecoverHolds
  <2>3. p.mode \in Trying \union {"undo"}
    BY <1>3, <1>5 DEF Belongs, Trying
  <2>4. /\ clause' = clause
        /\ clause \notin {"except", "stop"}
        /\ clause = "try" => p.mode \in Trying
        /\ clause = "recover" => p.mode = "undo"
    BY <1>1, <1>5, <2>3
       DEF ClauseHolds, TryHolds, RecoverHolds, Trying, Recovering
  <2> QED
    BY <1>3, <1>4, <1>5, <2>1, <2>2, <2>4 DEF ClauseHolds
<1>12. Ready(p, todo[1])'
  <2>1. PICK t \in Steps : t = Tail(todo)[1]
    BY <1>6
  <2>2. Belongs(p, t) /\ Follows(p, s, t) /\ todo'[1] = t
    BY <1>1, <1>6, <2>1
  <2>3. /\ journal'.phase = s.what
        /\ UNCHANGED <<live, before, held, enabled, running, accepting, origin,
                       target>>
    BY <1>1, <1>3, <1>4 DEF host, kept, ghosts
  <2>4. s.what # "restoring" => p.mode \in Trying
    BY <1>3, <1>5 DEF Belongs, Trying
  <2>5. s.what = "restoring" => p.mode = "undo"
    BY <1>3, <1>5 DEF Belongs, Trying
  <2>6. s.what \in Phases \ {"none"}
    BY <1>3, <1>5, StepTyped DEF StepType
  <2> DEFINE R == /\ ReadyToBegin(p, t)' /\ ReadyToStop(p, t)'
                  /\ ReadyToReplace(p, t)' /\ ReadyToEnd(p, t)'
  <2>16. R => Ready(p, todo[1])'
    BY <2>2 DEF Ready, ReadyToBegin, ReadyToStop, ReadyToReplace, ReadyToEnd
  <2> SUFFICES R
    BY <2>16
  <2> USE DEF Is
  <2>7. CASE s.what = "preparing"
    <3>1. t.do = "stage" \/ Is(t, "phase", "admission")
      BY <1>3, <2>2, <2>7 DEF Follows
    <3> QED
      BY <2>3, <2>7, <3>1
         DEF ReadyToBegin, ReadyToStop, ReadyToReplace, ReadyToEnd
  <2>8. CASE s.what = "admission"
    <3>1. Is(t, "mark", "admission")
      BY <1>3, <2>2, <2>8 DEF Follows
    <3> QED
      BY <2>3, <2>8, <3>1
         DEF ReadyToBegin, ReadyToStop, ReadyToReplace, ReadyToEnd
  <2>9. CASE s.what = "stopping"
    <3>1. t.do = "disable"
      BY <1>3, <2>2, <2>9 DEF Follows
    <3> QED
      BY <2>3, <2>4, <2>9, <3>1
         DEF ReadyToBegin, ReadyToStop, ReadyToReplace, ReadyToEnd
  <2>10. CASE s.what = "backed-up"
    <3>1. IF p.mode = "update" THEN Is(t, "park", "payload")
          ELSE t.do = "verify" /\ t.run # p.run
      BY <1>3, <2>2, <2>10 DEF Follows
    <3>2. Off /\ Whole(live) /\ live.payload = origin
      BY <1>3, <1>5, <2>10
         DEF Ready, ReadyToStop, Inv, JournalHolds, Apart
    <3>3. Replacing(p)'
      <4>1. Off' /\ live'.data.by \in 1..origin'
        BY <2>3, <3>2 DEF Off, Whole
      <4>2. InPhase(p, "backed-up", "restoring")'
        BY <2>3, <2>4, <2>10 DEF InPhase, Trying
      <4> QED
        BY <4>1, <4>2 DEF Replacing
    <3>4. t.do \in {"park", "verify"} /\ (t.do = "park" => t.what = "payload")
          /\ (t.do = "verify" => t.run # p.run)
      BY <3>1
    <3> QED
      BY <3>3, <3>4
         DEF ReadyToBegin, ReadyToStop, ReadyToReplace, ReadyToEnd
  <2>11. CASE s.what = "migrating"
    <3>1. t.do = "migrate"
      BY <1>3, <2>2, <2>11 DEF Follows
    <3>2. Replacing(p) /\ PayloadReplaced(p) /\ live.plist = target
      BY <1>3, <1>5, <2>11 DEF Ready, ReadyToReplace
    <3>3. p.mode = "update"
      BY <1>3, <1>5, <2>11 DEF Belongs
    <3> QED
      BY <2>3, <2>4, <2>11, <3>1, <3>2, <3>3
         DEF ReadyToBegin, ReadyToStop, ReadyToReplace, ReadyToEnd, Replacing,
             PayloadReplaced, Goal, Off
  <2>12. CASE s.what = "starting"
    <3>1. Is(t, "mark", "start")
      BY <1>3, <2>2, <2>12 DEF Follows
    <3> QED
      BY <2>3, <2>4, <2>12, <3>1
         DEF ReadyToBegin, ReadyToStop, ReadyToReplace, ReadyToEnd, Starting,
             InPhase, Trying
  <2>13. CASE s.what = "healthy"
    <3>1. t.do = "pointer"
      BY <1>3, <2>2, <2>13 DEF Follows
    <3> QED
      BY <2>3, <2>13, <3>1
         DEF ReadyToBegin, ReadyToStop, ReadyToReplace, ReadyToEnd
  <2>14. CASE s.what = "committed"
    <3>1. t.do = "unmark"
      BY <1>3, <2>2, <2>14 DEF Follows
    <3> QED
      BY <2>3, <2>4, <2>14, <3>1
         DEF ReadyToBegin, ReadyToStop, ReadyToReplace, ReadyToEnd, Releasing,
             Trying
  <2>15. CASE s.what = "restoring"
    <3>1. t.do = "verify"
      BY <1>3, <2>2, <2>15 DEF Follows
    <3>2. p.mode = "undo" /\ Off
      BY <1>3, <1>5, <2>15 DEF Ready, ReadyToStop
    <3>3. Replacing(p)'
      BY <2>3, <2>15, <3>2 DEF Replacing, InPhase, Trying, Off
    <3> QED
      BY <3>1, <3>2, <3>3
         DEF ReadyToBegin, ReadyToStop, ReadyToReplace, ReadyToEnd, Trying
  <2> QED
    BY <2>6, <2>7, <2>8, <2>9, <2>10, <2>11, <2>12, <2>13, <2>14, <2>15
       DEF Phases
<1>13. HelperHolds'
  BY <1>1, <1>6, <1>11, <1>12 DEF HelperHolds
<1> QED
  BY <1>7, <1>8, <1>9, <1>10, <1>13 DEF Inv

LEMMA WriteCommitHolds ==
  ASSUME Inv, WriteCommit
  PROVE  Inv'
<1>1. /\ todo # <<>> /\ Head(todo).do = "commit"
      /\ journal' = [record EXCEPT !.phase = "committed",
                                   !.outcome = Current.what]
      /\ todo' = Tail(todo) /\ record' = journal'
      /\ UNCHANGED <<live, before, previous, result, held, host, clause, kept>>
  BY DEF WriteCommit, Doing
<1>2. PICK p \in Plans : HasPlan(p)
  BY <1>1, HelperPlan DEF Inv
<1> DEFINE s == todo[1]
           next == [record EXCEPT !.phase = "committed", !.outcome = s.what]
<1>3. s.do = "commit" /\ journal' = next /\ record' = next
  BY <1>1, HelperPlan DEF Inv
<1>4. s \in Steps /\ Ready(p, s) /\ Belongs(p, s) /\ ClauseHolds(p)
  BY <1>2 DEF HasPlan
<1>5. p.mode \in {"restart", "undo"} /\ s.what = p.outcome
  BY <1>3, <1>4 DEF Belongs
<1>6. clause = "recover" /\ RecoverHolds(p)
  BY <1>4, <1>5 DEF Inv, TypeOK, ClauseHolds, TryHolds, Trying
<1>7. record = journal /\ p.outcome \in {"unchanged", "rolled-back"}
  BY <1>5, <1>6 DEF RecoverHolds
<1>8. record \in Records /\ record.run # 0 /\ p.run = record.run
  BY <1>4, <1>2 DEF Inv, TypeOK, ClauseHolds, Plans
<1>9. /\ next \in Records /\ next.phase = "committed" /\ next.run = record.run
      /\ next.outcome = p.outcome
  BY <1>5, <1>7, <1>8 DEF Records, Phases, Results
<1>10. Whole(live) /\ live.payload = origin
  <2>1. Starting(p)
    BY <1>3, <1>4 DEF Ready, ReadyToEnd
  <2>2. CASE p.mode = "undo"
    BY <2>1, <2>2 DEF Starting
  <2>3. CASE p.mode = "restart"
    BY <2>1, <2>3 DEF Starting, InPhase, Trying, Inv, JournalHolds, Apart
  <2> QED
    BY <1>5, <2>2, <2>3
<1>11. JournalHolds(next)
  BY <1>7, <1>8, <1>9, <1>10 DEF JournalHolds, Gated, BackedUp, Apart
<1>12. /\ Tail(todo) \in Seq(Steps) /\ Tail(todo) # <<>>
       /\ Tail(todo)[1] \in Steps /\ Belongs(p, Tail(todo)[1])
       /\ Follows(p, s, Tail(todo)[1]) /\ Carries(p, Tail(todo))
  BY <1>1, <1>2, <1>3, GoesOn DEF Inv
<1> HIDE DEF s, next
<1>13. TypeOK'
  BY <1>1, <1>3, <1>9, <1>12 DEF Inv, TypeOK, host, kept, ghosts
<1>14. HostHolds'
  <2>1. ~enabling
    BY <1>1 DEF Inv, HostHolds
  <2> QED
    BY <1>1, <2>1 DEF Inv, HostHolds, Whole, host, kept, ghosts
<1>15. SnapshotsHold' /\ VersionsHold'
  BY <1>1 DEF Inv, SnapshotsHold, VersionsHold, Whole, kept, ghosts
<1>16. JournalHolds(journal)'
  <2>1. PICK j : j = next
    OBVIOUS
  <2>2. JournalHolds(j)'
    BY <1>1, <1>11, <2>1, JournalUnchanged DEF host, kept, ghosts
  <2> QED
    BY <1>3, <2>1, <2>2 DEF JournalHolds
<1>17. ClauseHolds(p)'
  <2>1. RecoverHolds(p)'
    BY <1>3, <1>5, <1>6, <1>9 DEF RecoverHolds
  <2> QED
    BY <1>1, <1>3, <1>6, <1>8, <1>9, <2>1 DEF ClauseHolds
<1>18. Ready(p, todo[1])'
  <2>1. PICK t \in Steps : t = Tail(todo)[1]
    BY <1>12
  <2>2. t.do = "unmark" /\ todo'[1] = t
    BY <1>1, <1>3, <1>12, <2>1 DEF Follows
  <2>3. Releasing(p)'
    BY <1>3, <1>5, <1>9 DEF Releasing
  <2> QED
    BY <2>2, <2>3 DEF Ready, ReadyToBegin, ReadyToStop, ReadyToReplace,
                      ReadyToEnd, Is
<1>19. HelperHolds'
  BY <1>1, <1>12, <1>17, <1>18 DEF HelperHolds
<1> QED
  BY <1>13, <1>14, <1>15, <1>16, <1>19 DEF Inv

\* What is left of the invariant when a step changes the host alone
LEMMA HostStep ==
  ASSUME Inv, todo # <<>>, Done, NEW p, HasPlan(p),
         todo[1].do \notin {"phase", "record"},
         UNCHANGED <<live, before, previous, journal, result, kept>>,
         held' \in BOOLEAN, cups' \in BOOLEAN, enabled' \in BOOLEAN,
         running' \in BOOLEAN, accepting' \in BOOLEAN,
         accepting' => running', enabled' \/ running' => Whole(live),
         JournalHolds(journal)',
         \A t \in Steps : Belongs(p, t) /\ Follows(p, todo[1], t)
                            => Ready(p, t)'
  PROVE  Inv'
<1>1. UNCHANGED <<runs, enabling, origin, target, calm>>
  BY DEF kept, ghosts
<1>2. SnapshotsHold' /\ VersionsHold'
  BY <1>1 DEF Inv, SnapshotsHold, VersionsHold, Whole
<1>3. /\ live' \in Trees /\ before' \in [1..MaxRuns -> Trees]
      /\ previous' \in 0..MaxRuns
  BY DEF Inv, TypeOK
<1>4. enabled' \/ running' => Whole(live)'
  BY DEF Whole
<1> QED
  BY <1>1, <1>2, <1>3, <1>4, DoneInv

LEMMA WriteGateHolds ==
  ASSUME Inv, WriteGate
  PROVE  Inv'
<1>1. /\ todo # <<>> /\ Done
      /\ UNCHANGED <<live, before, previous, journal, result, host, kept>>
      /\ UNCHANGED <<cups, enabled, running, accepting>>
      /\ UNCHANGED <<origin, target>>
      /\ \/ Head(todo).do = "mark" /\ held' = TRUE
         \/ Head(todo).do = "unmark" /\ held' = FALSE
  BY DEF WriteGate, Doing, host, kept, ghosts
<1>2. PICK p \in Plans : HasPlan(p)
  BY <1>1, HelperPlan DEF Inv
<1> DEFINE s == todo[1]
<1>3. Head(todo) = s /\ Ready(p, s) /\ Belongs(p, s) /\ s \in Steps
  BY <1>1, <1>2, HelperPlan DEF Inv, HasPlan
<1>4. s.do \notin {"phase", "record"}
  BY <1>1, <1>3
<1> HIDE DEF s
<1>5. CASE s.do = "mark"
  <2>1. held' = TRUE
    BY <1>1, <1>3, <1>5
  <2>2. held' \in BOOLEAN /\ held'
    BY <2>1, Zenon
  <2>3. s.what \in {"admission", "start"}
    BY <1>3, <1>5, StepTyped DEF StepType
  <2>4. CASE s.what = "admission"
    <3>1. journal.phase = "admission"
      BY <1>3, <1>5, <2>4 DEF Ready, ReadyToBegin, Is
    <3>2. JournalHolds(journal)'
      BY <1>1, <2>2, <3>1 DEF Inv, JournalHolds, Whole, Gated, BackedUp
    <3>3. ASSUME NEW t \in Steps, Follows(p, s, t)
          PROVE  Ready(p, t)'
      <4>1. t.do = "reject"
        BY <1>5, <2>4, <3>3 DEF Follows, Is
      <4> QED
        BY <1>1, <2>2, <3>1, <4>1
           DEF Ready, ReadyToBegin, ReadyToStop, ReadyToReplace, ReadyToEnd, Is
    <3> QED
      BY <1>1, <1>2, <1>4, <2>2, <3>2, <3>3, HostStep
         DEF Inv, TypeOK, HostHolds, s
  <2>5. CASE s.what = "start"
    <3>1. Starting(p)
      BY <1>3, <1>5, <2>5 DEF Ready, ReadyToEnd, Is
    <3>2. journal.phase \in {"starting", "stopping", "restoring", "committed"}
      BY <3>1 DEF Starting, InPhase
    <3>3. JournalHolds(journal)'
      BY <1>1, <2>2, <3>2
         DEF Inv, JournalHolds, Whole, Off, Gated, BackedUp
    <3>4. ASSUME NEW t \in Steps, Follows(p, s, t)
          PROVE  Ready(p, t)'
      <4>1. t.do = "enable"
        BY <1>5, <2>5, <3>4 DEF Follows, Is
      <4>2. Starting(p)'
        BY <1>1, <3>1 DEF Starting, InPhase, Whole
      <4> QED
        BY <4>1, <4>2
           DEF Ready, ReadyToBegin, ReadyToStop, ReadyToReplace, ReadyToEnd, Is
    <3> QED
      BY <1>1, <1>2, <1>4, <2>2, <3>3, <3>4, HostStep
         DEF Inv, TypeOK, HostHolds, s
  <2> QED
    BY <2>3, <2>4, <2>5
<1>6. CASE s.do = "unmark"
  <2>1. held' = FALSE
    BY <1>1, <1>3, <1>6
  <2>2. held' \in BOOLEAN /\ ~held'
    BY <2>1, Zenon
  <2>3. Releasing(p)
    BY <1>3, <1>6 DEF Ready, ReadyToEnd
  <2>4. journal.phase \in {"admission", "preparing", "committed"}
    BY <2>3 DEF Releasing
  <2>5. JournalHolds(journal)'
    BY <1>1, <2>2, <2>4 DEF Inv, JournalHolds, Whole, Gated, BackedUp
  <2>6. ASSUME NEW t \in Steps, Follows(p, s, t)
        PROVE  Ready(p, t)'
    <3>1. t.do = "open"
      BY <1>6, <2>6 DEF Follows
    <3>2. Releasing(p)'
      BY <1>1, <2>3 DEF Releasing
    <3> QED
      BY <2>2, <3>1, <3>2
         DEF Ready, ReadyToBegin, ReadyToStop, ReadyToReplace, ReadyToEnd, Is
  <2> QED
    BY <1>1, <1>2, <1>4, <2>2, <2>5, <2>6, HostStep
       DEF Inv, TypeOK, HostHolds, s
<1> QED
  BY <1>1, <1>3, <1>5, <1>6

LEMMA SetQueueHolds ==
  ASSUME Inv, SetQueue
  PROVE  Inv'
<1>1. /\ todo # <<>> /\ Done
      /\ UNCHANGED <<live, before, previous, journal, result, kept>>
      /\ UNCHANGED <<held, enabled, running, accepting>>
      /\ UNCHANGED <<origin, target>>
      /\ \/ Head(todo).do = "reject" /\ cups' = FALSE
         \/ Head(todo).do = "accept" /\ cups' = TRUE
  BY DEF SetQueue, Doing, files, kept, ghosts
<1>2. PICK p \in Plans : HasPlan(p)
  BY <1>1, HelperPlan DEF Inv
<1> DEFINE s == todo[1]
<1>3. Head(todo) = s /\ Ready(p, s)
  BY <1>1, <1>2, HelperPlan DEF Inv, HasPlan
<1>4. s.do \in {"reject", "accept"} /\ s.do \notin {"phase", "record"}
  BY <1>1, <1>3
<1>5. cups' \in BOOLEAN
  <2>1. cups' = FALSE \/ cups' = TRUE
    BY <1>1
  <2> QED
    BY <2>1, Zenon
<1>6. JournalHolds(journal)'
  BY <1>1 DEF Inv, JournalHolds, Whole, Off
<1> HIDE DEF s
<1>7. ASSUME NEW t \in Steps, Follows(p, s, t)
      PROVE  Ready(p, t)'
  <2>1. CASE s.do = "reject"
    <3>1. t.do = "close"
      BY <1>7, <2>1 DEF Follows
    <3>2. journal.phase = "admission" /\ held
      BY <1>3, <2>1 DEF Ready, ReadyToBegin
    <3> QED
      BY <1>1, <3>1, <3>2
         DEF Ready, ReadyToBegin, ReadyToStop, ReadyToReplace, ReadyToEnd, Is
  <2>2. CASE s.do = "accept"
    <3>1. t.do = "ready"
      BY <1>7, <2>2 DEF Follows
    <3>2. Releasing(p) /\ ~held /\ (running => accepting)
      BY <1>3, <2>2 DEF Ready, ReadyToEnd
    <3>3. Releasing(p)'
      BY <1>1, <3>2 DEF Releasing
    <3> QED
      BY <1>1, <3>1, <3>2, <3>3
         DEF Ready, ReadyToBegin, ReadyToStop, ReadyToReplace, ReadyToEnd, Is
  <2> QED
    BY <1>4, <2>1, <2>2
<1> QED
  BY <1>1, <1>2, <1>4, <1>5, <1>6, <1>7, HostStep DEF Inv, TypeOK, HostHolds, s

LEMMA SetAdmissionHolds ==
  ASSUME Inv, SetAdmission
  PROVE  Inv'
<1>1. /\ todo # <<>> /\ Done
      /\ UNCHANGED <<live, before, previous, journal, result, kept>>
      /\ UNCHANGED <<held, cups, enabled, running>>
      /\ UNCHANGED <<origin, target>>
      /\ \/ Head(todo).do = "close" /\ accepting' = FALSE
         \/ Head(todo).do = "open" /\ accepting' = TRUE
      /\ Possible(Current) /\ Head(todo).do \in {"close", "open"}
  BY DEF SetAdmission, Succeeds, Doing, files, kept, ghosts
<1>2. PICK p \in Plans : HasPlan(p)
  BY <1>1, HelperPlan DEF Inv
<1> DEFINE s == todo[1]
<1>3. Head(todo) = s /\ Current = s /\ Ready(p, s)
  BY <1>1, <1>2, HelperPlan DEF Inv, HasPlan
<1>4. s.do \in {"close", "open"} /\ s.do \notin {"phase", "record"}
  BY <1>1, <1>3
<1>5. running
  BY <1>1, <1>3, <1>4 DEF Possible
<1> HIDE DEF s
<1>6. CASE s.do = "close"
  <2>1. accepting' = FALSE
    BY <1>1, <1>3, <1>6
  <2>2. accepting' \in BOOLEAN /\ ~accepting'
    BY <2>1, Zenon
  <2>3. journal.phase = "admission" /\ held
    BY <1>3, <1>6 DEF Ready, ReadyToBegin
  <2>4. JournalHolds(journal)'
    BY <1>1, <2>3 DEF Inv, JournalHolds, Whole, Gated, BackedUp
  <2>5. ASSUME NEW t \in Steps, Follows(p, s, t)
        PROVE  Ready(p, t)'
    <3>1. t.do = "no_jobs"
      BY <1>6, <2>5 DEF Follows
    <3> QED
      BY <1>1, <2>2, <2>3, <3>1
         DEF Ready, ReadyToBegin, ReadyToStop, ReadyToReplace, ReadyToEnd, Is
  <2> QED
    BY <1>1, <1>2, <1>4, <2>2, <2>4, <2>5, HostStep
       DEF Inv, TypeOK, HostHolds, s
<1>7. CASE s.do = "open"
  <2>1. accepting' = TRUE
    BY <1>1, <1>3, <1>7
  <2>2. accepting' \in BOOLEAN /\ accepting'
    BY <2>1, Zenon
  <2>3. Releasing(p) /\ ~held
    BY <1>3, <1>7 DEF Ready, ReadyToEnd
  <2>4. journal.phase \in {"admission", "preparing", "committed"}
    BY <2>3 DEF Releasing
  <2>5. JournalHolds(journal)'
    BY <1>1, <2>2, <2>4 DEF Inv, JournalHolds, Whole, Gated, BackedUp
  <2>6. ASSUME NEW t \in Steps, Follows(p, s, t)
        PROVE  Ready(p, t)'
    <3>1. t.do = "accept"
      BY <1>7, <2>6 DEF Follows
    <3>2. Releasing(p)'
      BY <1>1, <2>3 DEF Releasing
    <3> QED
      BY <1>1, <2>2, <2>3, <3>1, <3>2
         DEF Ready, ReadyToBegin, ReadyToStop, ReadyToReplace, ReadyToEnd, Is
  <2>7. running'
    BY <1>1, <1>5
  <2> QED
    BY <1>1, <1>2, <1>4, <2>2, <2>5, <2>6, <2>7, HostStep
       DEF Inv, TypeOK, HostHolds, s
<1> QED
  BY <1>4, <1>6, <1>7

\* The steps of stop can be repeated: nothing is relied on before the last.
LEMMA StopReady ==
  ASSUME NEW p, NEW s, NEW t, Ready(p, s), Follows(p, s, t),
         s.do \in {"disable", "bootout"},
         journal' = journal
  PROVE  Ready(p, t)'
<1>1. \/ p.mode = "stop"
      \/ p.mode = "undo" /\ journal.phase \in BackedUp
      \/ p.mode \in Trying \union {"restart"} /\ journal.phase = "stopping"
  BY DEF Ready, ReadyToStop
<1>2. t.do \in {"bootout", "stopped"}
  BY DEF Follows
<1> QED
  BY <1>1, <1>2
     DEF Ready, ReadyToBegin, ReadyToStop, ReadyToReplace, ReadyToEnd, Is

LEMMA SetEnabledHolds ==
  ASSUME Inv, SetEnabled
  PROVE  Inv'
<1>1. /\ todo # <<>> /\ Done
      /\ UNCHANGED <<live, before, previous, journal, result, kept>>
      /\ UNCHANGED <<held, running, accepting>>
      /\ UNCHANGED <<origin, target>>
      /\ \/ Head(todo).do = "disable" /\ enabled' = FALSE /\ cups' = FALSE
         \/ Head(todo).do = "enable" /\ enabled' = TRUE /\ cups' = cups
  BY DEF SetEnabled, Doing, files, kept, ghosts
<1>2. PICK p \in Plans : HasPlan(p)
  BY <1>1, HelperPlan DEF Inv
<1> DEFINE s == todo[1]
<1>3. Head(todo) = s /\ Ready(p, s)
  BY <1>1, <1>2, HelperPlan DEF Inv, HasPlan
<1>4. s.do \in {"disable", "enable"} /\ s.do \notin {"phase", "record"}
  BY <1>1, <1>3
<1> HIDE DEF s
<1>5. CASE s.do = "disable"
  <2>1. enabled' = FALSE /\ cups' = FALSE
    BY <1>1, <1>3, <1>5
  <2>2. enabled' \in BOOLEAN /\ cups' \in BOOLEAN /\ ~enabled'
    BY <2>1, Zenon
  <2>3. JournalHolds(journal)'
    BY <1>1, <2>2 DEF Inv, JournalHolds, Whole, Off
  <2>4. ASSUME NEW t \in Steps, Follows(p, s, t)
        PROVE  Ready(p, t)'
    BY <1>1, <1>3, <1>5, <2>4, StopReady
  <2> QED
    BY <1>1, <1>2, <1>4, <2>2, <2>3, <2>4, HostStep
       DEF Inv, TypeOK, HostHolds, s
<1>6. CASE s.do = "enable"
  <2>1. enabled' = TRUE /\ cups' = cups
    BY <1>1, <1>3, <1>6
  <2>2. enabled' \in BOOLEAN /\ enabled'
    BY <2>1, Zenon
  <2>3. Starting(p)
    BY <1>3, <1>6 DEF Ready, ReadyToEnd
  <2>4. journal.phase \in {"starting", "stopping", "restoring", "committed"}
    BY <2>3 DEF Starting, InPhase
  <2>5. Whole(live)
    <3>1. CASE journal.phase = "restoring"
      BY <2>3, <3>1 DEF Starting, InPhase
    <3>2. CASE journal.phase # "restoring"
      BY <2>4, <3>2 DEF Inv, JournalHolds, Apart
    <3> QED
      BY <3>1, <3>2
  <2>6. JournalHolds(journal)'
    BY <1>1, <2>4 DEF Inv, JournalHolds, Whole, Off
  <2>7. ASSUME NEW t \in Steps, Follows(p, s, t)
        PROVE  Ready(p, t)'
    <3>1. t.do = "bootstrap"
      BY <1>6, <2>7 DEF Follows
    <3>2. Starting(p)'
      BY <1>1, <2>3 DEF Starting, InPhase, Whole
    <3> QED
      BY <3>1, <3>2
         DEF Ready, ReadyToBegin, ReadyToStop, ReadyToReplace, ReadyToEnd, Is
  <2> QED
    BY <1>1, <1>2, <1>4, <2>1, <2>2, <2>5, <2>6, <2>7, HostStep
       DEF Inv, TypeOK, HostHolds, s
<1> QED
  BY <1>4, <1>5, <1>6

LEMMA BootoutHolds ==
  ASSUME Inv, Bootout
  PROVE  Inv'
<1>1. /\ todo # <<>> /\ Done
      /\ UNCHANGED <<live, before, previous, journal, result, kept>>
      /\ UNCHANGED <<held, cups, enabled>>
      /\ UNCHANGED <<origin, target>>
      /\ Head(todo).do = "bootout" /\ running' = FALSE /\ accepting' = FALSE
  BY DEF Bootout, Doing, files, kept, ghosts
<1>2. PICK p \in Plans : HasPlan(p)
  BY <1>1, HelperPlan DEF Inv
<1> DEFINE s == todo[1]
<1>3. Head(todo) = s /\ Ready(p, s)
  BY <1>1, <1>2, HelperPlan DEF Inv, HasPlan
<1>4. s.do = "bootout" /\ s.do \notin {"phase", "record"}
  BY <1>1, <1>3
<1> HIDE DEF s
<1>5. /\ running' \in BOOLEAN /\ accepting' \in BOOLEAN
      /\ ~running' /\ ~accepting'
  BY <1>1, Zenon
<1>6. JournalHolds(journal)'
  BY <1>1, <1>5 DEF Inv, JournalHolds, Whole, Off
<1>7. ASSUME NEW t \in Steps, Follows(p, s, t)
      PROVE  Ready(p, t)'
  BY <1>1, <1>3, <1>4, <1>7, StopReady
<1> QED
  BY <1>1, <1>2, <1>4, <1>5, <1>6, <1>7, HostStep DEF Inv, TypeOK, HostHolds, s

LEMMA IgnoredHolds ==
  ASSUME Inv, Ignored
  PROVE  Inv'
<1>1. /\ todo # <<>> /\ Done /\ UNCHANGED <<files, host, kept>>
      /\ Head(todo).do \in {"disable", "bootout"}
  BY DEF Ignored, Doing
<1>2. PICK p \in Plans : HasPlan(p)
  BY <1>1, HelperPlan DEF Inv
<1>3. Head(todo) = todo[1] /\ Ready(p, todo[1])
  BY <1>1, <1>2, HelperPlan DEF Inv, HasPlan
<1>4. ASSUME NEW t \in Steps, Follows(p, todo[1], t)
      PROVE  Ready(p, t)
  <2>1. \/ p.mode = "stop"
        \/ p.mode = "undo" /\ journal.phase \in BackedUp
        \/ p.mode \in Trying \union {"restart"} /\ journal.phase = "stopping"
    BY <1>1, <1>3 DEF Ready, ReadyToStop
  <2>2. t.do \in {"bootout", "stopped"}
    BY <1>1, <1>3, <1>4 DEF Follows
  <2> QED
    BY <2>1, <2>2
       DEF Ready, ReadyToBegin, ReadyToStop, ReadyToReplace, ReadyToEnd, Is
<1>5. todo[1].do \notin {"phase", "record"}
  BY <1>1, <1>3
<1> QED
  BY <1>1, <1>2, <1>4, <1>5, OnlyDone

LEMMA BootstrapHolds ==
  ASSUME Inv, Bootstrap
  PROVE  Inv'
<1>1. /\ todo # <<>> /\ Done
      /\ UNCHANGED <<before, previous, journal, result, held, cups, enabled>>
      /\ UNCHANGED <<runs, enabling, origin, target, calm>>
      /\ Head(todo).do = "bootstrap" /\ Possible(Current) /\ ServiceStarts
  BY DEF Bootstrap, Succeeds, Doing, kept, ghosts
<1>2. PICK p \in Plans : HasPlan(p)
  BY <1>1, HelperPlan DEF Inv
<1> DEFINE s == todo[1]
<1>3. Head(todo) = s /\ Current = s /\ Ready(p, s)
  BY <1>1, <1>2, HelperPlan DEF Inv, HasPlan
<1>4. s.do = "bootstrap" /\ s.do \notin {"phase", "record"}
  BY <1>1, <1>3
<1>5. enabled /\ Whole(live)
  BY <1>1, <1>3, <1>4 DEF Possible, Inv, HostHolds
<1> HIDE DEF s
<1>6. /\ live' \in Trees /\ running' \in BOOLEAN /\ accepting' \in BOOLEAN
      /\ live'.payload = live.payload
      /\ Whole(live)' /\ running' /\ (accepting' <=> ~held')
  BY <1>1, <1>5, StartHolds DEF Inv
<1>7. journal.phase \notin {"backed-up", "migrating"}
  BY <1>5 DEF Inv, JournalHolds, Off
<1>8. JournalHolds(journal)'
  <2>1. PICK j \in Records : j = journal
    BY DEF Inv, TypeOK
  <2>2. JournalHolds(j)'
    BY <1>1, <1>5, <1>7, <2>1, StartHolds DEF Inv
  <2> QED
    BY <1>1, <2>1, <2>2 DEF JournalHolds
<1>9. SnapshotsHold' /\ VersionsHold'
  BY <1>1, <1>6 DEF Inv, SnapshotsHold, VersionsHold, Whole
<1>10. ASSUME NEW t \in Steps, Follows(p, s, t)
       PROVE  Ready(p, t)'
  <2>1. t.do = "up"
    BY <1>4, <1>10 DEF Follows
  <2>2. Starting(p)
    BY <1>3, <1>4 DEF Ready, ReadyToEnd
  <2>3. Starting(p)'
    BY <1>1, <1>6, <2>2 DEF Starting, InPhase
  <2> QED
    BY <2>1, <2>3
       DEF Ready, ReadyToBegin, ReadyToStop, ReadyToReplace, ReadyToEnd, Is
<1> QED
  BY <1>1, <1>2, <1>4, <1>6, <1>8, <1>9, <1>10, DoneInv DEF Inv, TypeOK, s

LEMMA WritePointerHolds ==
  ASSUME Inv, WritePointer
  PROVE  Inv'
<1>1. /\ todo # <<>> /\ Done /\ Head(todo).do = "pointer"
      /\ previous' = record.run
      /\ UNCHANGED <<live, before, journal, result, held>>
      /\ UNCHANGED <<cups, enabled, running, accepting>>
      /\ UNCHANGED <<runs, enabling, origin, target, calm>>
  BY DEF WritePointer, Doing, host, kept, ghosts
<1>2. PICK p \in Plans : HasPlan(p)
  BY <1>1, HelperPlan DEF Inv
<1> DEFINE s == todo[1]
<1>3. Head(todo) = s /\ Ready(p, s)
  BY <1>1, <1>2, HelperPlan DEF Inv, HasPlan
<1>4. s.do = "pointer" /\ s.do \notin {"phase", "record"}
  BY <1>1, <1>3
<1>5. previous' \in 0..MaxRuns
  BY <1>1 DEF Inv, TypeOK, Records
<1> HIDE DEF s
<1>6. SnapshotsHold' /\ VersionsHold'
  BY <1>1 DEF Inv, SnapshotsHold, VersionsHold, Whole
<1>7. JournalHolds(journal)'
  BY <1>1 DEF Inv, JournalHolds, Whole, Off
<1>8. enabled' \/ running' => Whole(live)'
  BY <1>1 DEF Inv, HostHolds, Whole
<1>9. ASSUME NEW t \in Steps, Follows(p, s, t)
      PROVE  Ready(p, t)'
  <2>1. Is(t, "phase", "committed")
    BY <1>4, <1>9 DEF Follows
  <2>2. journal.phase = "healthy"
    BY <1>3, <1>4 DEF Ready, ReadyToEnd
  <2> QED
    BY <1>1, <2>1, <2>2
       DEF Ready, ReadyToBegin, ReadyToStop, ReadyToReplace, ReadyToEnd, Is
<1>10. /\ live' \in Trees /\ before' \in [1..MaxRuns -> Trees]
       /\ held' \in BOOLEAN /\ cups' \in BOOLEAN /\ enabled' \in BOOLEAN
       /\ running' \in BOOLEAN /\ accepting' \in BOOLEAN
       /\ (accepting' => running')
  BY <1>1 DEF Inv, TypeOK, HostHolds
<1> QED
  BY <1>1, <1>2, <1>4, <1>5, <1>6, <1>7, <1>8, <1>9, <1>10, DoneInv DEF s

LEMMA WriteInventoryHolds ==
  ASSUME Inv, WriteInventory
  PROVE  Inv'
<1>1. /\ todo # <<>> /\ Done /\ Head(todo).do = "inventory"
      /\ before' = [before EXCEPT ![Current.run] = live]
      /\ UNCHANGED <<live, previous, journal, result, held>>
      /\ UNCHANGED <<cups, enabled, running, accepting>>
      /\ UNCHANGED <<runs, enabling, origin, target, calm>>
  BY DEF WriteInventory, Doing, host, kept, ghosts
<1>2. PICK p \in Plans : HasPlan(p)
  BY <1>1, HelperPlan DEF Inv
<1> DEFINE s == todo[1]
<1>3. Head(todo) = s /\ Current = s /\ Ready(p, s) /\ Belongs(p, s)
  BY <1>1, <1>2, HelperPlan DEF Inv, HasPlan
<1>4. s.do = "inventory" /\ s.do \notin {"phase", "record"}
  BY <1>1, <1>3
<1>5. s.run = p.run /\ p.mode \in Trying /\ p.run \in 1..MaxRuns
  BY <1>2, <1>3, <1>4 DEF Belongs, Plans
<1>6. TryHolds(p) /\ p.run = runs
  BY <1>2, <1>5
     DEF HasPlan, ClauseHolds, TryHolds, RecoverHolds, Inv, TypeOK, Trying,
         Recovering
<1>7. before' = [before EXCEPT ![p.run] = live]
  BY <1>1, <1>3, <1>5
<1>8. before \in [1..MaxRuns -> Trees] /\ live \in Trees
  BY DEF Inv, TypeOK
<1>9. /\ before' \in [1..MaxRuns -> Trees] /\ before'[p.run] = live
      /\ \A r \in 1..MaxRuns : r # p.run => before'[r] = before[r]
  BY <1>5, <1>7, <1>8
<1>10. /\ journal.phase = "stopping" /\ Off
  BY <1>3, <1>4 DEF Ready, ReadyToStop
<1>11. Whole(live) /\ live.data.jobs = 0 /\ live.payload = origin
  BY <1>10 DEF Inv, JournalHolds, Apart, Gated
<1> HIDE DEF s
<1>12. SnapshotsHold'
  <2>1. ASSUME NEW r \in 1..MaxRuns
        PROVE  /\ r > runs' => before'[r] = Partial
               /\ before'[r] # Partial =>
                    Whole(before'[r]) /\ before'[r].data.jobs = 0
    <3>1. CASE r = p.run
      <4>1. ~(r > runs)
        BY <1>5, <1>6, <3>1
      <4> QED
        BY <1>1, <1>9, <1>11, <3>1, <4>1
    <3>2. CASE r # p.run
      BY <1>1, <1>9, <3>2 DEF Inv, SnapshotsHold
    <3> QED
      BY <3>1, <3>2
  <2> QED
    BY <2>1 DEF SnapshotsHold
<1>13. VersionsHold'
  BY <1>1, <1>9 DEF Inv, VersionsHold
<1>14. JournalHolds(journal)'
  BY <1>1, <1>10 DEF Inv, JournalHolds, Whole, Off, BackedUp
<1>15. enabled' \/ running' => Whole(live)'
  BY <1>1 DEF Inv, HostHolds, Whole
<1>16. ASSUME NEW t \in Steps, Follows(p, s, t)
       PROVE  Ready(p, t)'
  <2>1. t.do = "verify" /\ t.run = p.run
    BY <1>4, <1>16 DEF Follows
  <2>2. before'[p.run].payload = origin'
    BY <1>1, <1>9, <1>11
  <2> QED
    BY <1>1, <1>5, <1>10, <2>1, <2>2
       DEF Ready, ReadyToBegin, ReadyToStop, ReadyToReplace, ReadyToEnd, Is, Off
<1>17. p.mode = "rollback" => before'[p.source] = before[p.source]
  <2>1. p.mode = "rollback" => p.source # p.run /\ p.source \in 1..MaxRuns
    BY <1>2, <1>6 DEF TryHolds, Plans
  <2> QED
    BY <1>9, <2>1
<1>18. /\ live' \in Trees /\ previous' \in 0..MaxRuns
       /\ held' \in BOOLEAN /\ cups' \in BOOLEAN /\ enabled' \in BOOLEAN
       /\ running' \in BOOLEAN /\ accepting' \in BOOLEAN
       /\ (accepting' => running')
  BY <1>1 DEF Inv, TypeOK, HostHolds
<1> QED
  BY <1>1, <1>2, <1>4, <1>9, <1>12, <1>13, <1>14, <1>15, <1>16, <1>17, <1>18,
     DoneInv DEF s

\* Files are replaced with the service off, while the journal says so.
LEMMA ReplacingStep ==
  ASSUME Inv, todo # <<>>, Done, NEW p, HasPlan(p),
         todo[1].do \notin {"phase", "record"},
         Off, journal.phase \in Apart,
         UNCHANGED <<before, previous, journal, result, held, host, kept>>,
         live' \in Trees, live'.payload <= runs + 1, live'.data.jobs = 0,
         \A t \in Steps : Belongs(p, t) /\ Follows(p, todo[1], t)
                            => Ready(p, t)'
  PROVE  Inv'
<1>1. /\ UNCHANGED <<runs, enabling, origin, target, calm>>
      /\ UNCHANGED <<cups, enabled, running, accepting>>
  BY DEF host, kept, ghosts
<1>2. SnapshotsHold'
  BY <1>1 DEF Inv, SnapshotsHold, Whole
<1>3. VersionsHold'
  BY <1>1 DEF Inv, VersionsHold
<1>4. JournalHolds(journal)'
  BY <1>1 DEF Inv, JournalHolds, Apart, Gated, BackedUp, Off
<1>5. /\ before' \in [1..MaxRuns -> Trees] /\ previous' \in 0..MaxRuns
      /\ held' \in BOOLEAN /\ cups' \in BOOLEAN /\ enabled' \in BOOLEAN
      /\ running' \in BOOLEAN /\ accepting' \in BOOLEAN
      /\ (accepting' => running')
  BY <1>1 DEF Inv, TypeOK, HostHolds
<1>6. enabled' \/ running' => Whole(live)'
  BY <1>1 DEF Off
<1> QED
  BY <1>1, <1>2, <1>3, <1>4, <1>5, <1>6, DoneInv

\* A plan that replaces files: where it takes them from
LEMMA SourceHolds ==
  ASSUME Inv, NEW p \in Plans, ClauseHolds(p),
         p.mode \in Trying \union {"undo"}, Replacing(p)
  PROVE  /\ journal.phase \in {"backed-up", "restoring"} /\ Off
         /\ p.mode = "undo" => journal.phase = "restoring"
         /\ p.mode # "undo" => journal.phase = "backed-up"
         /\ p.mode = "update" <=> p.source = 0
         /\ p.source # 0 => /\ p.source \in 1..MaxRuns
                            /\ before[p.source] \in Trees
                            /\ Whole(before[p.source])
                            /\ before[p.source].data.jobs = 0
                            /\ before[p.source].payload = Goal(p)
         /\ live.data.jobs = 0 /\ live \in Trees
         /\ Goal(p) \in Versions /\ Goal(p) <= runs + 1
<1>1. /\ journal.phase \in {"backed-up", "restoring"} /\ Off
      /\ p.mode = "undo" => journal.phase = "restoring"
      /\ p.mode # "undo" => journal.phase = "backed-up"
  BY DEF Replacing, InPhase, Trying
<1>2. /\ p.mode = "undo" => RecoverHolds(p)
      /\ p.mode # "undo" => TryHolds(p)
  BY DEF Inv, TypeOK, ClauseHolds, TryHolds, RecoverHolds, Trying, Recovering
<1>3. p.mode = "update" <=> p.source = 0
  BY <1>2 DEF TryHolds, RecoverHolds, Trying, Plans
<1>4. p.source \in 0..MaxRuns /\ p.run \in 1..MaxRuns
  BY DEF Plans
<1>5. ASSUME p.source # 0
      PROVE  /\ p.source \in 1..MaxRuns /\ before[p.source] \in Trees
             /\ Whole(before[p.source]) /\ before[p.source].data.jobs = 0
             /\ before[p.source].payload = Goal(p)
  <2>1. p.source \in 1..MaxRuns
    BY <1>4, <1>5
  <2>2. before[p.source] \in Trees
    BY <2>1 DEF Inv, TypeOK
  <2>3. before[p.source].payload = Goal(p)
    <3>1. CASE p.mode = "undo"
      <4>1. p.source = journal.run
        BY <1>2, <3>1 DEF RecoverHolds, ClauseHolds
      <4>2. before[journal.run].payload = origin
        BY <1>1, <3>1 DEF Inv, JournalHolds, BackedUp, Gated
      <4> QED
        BY <3>1, <4>1, <4>2 DEF Goal, Trying
    <3>2. CASE p.mode # "undo"
      BY <1>2, <1>3, <1>5, <3>2 DEF TryHolds, Goal
    <3> QED
      BY <3>1, <3>2
  <2>4. Goal(p) # Absent
    BY DEF Inv, TypeOK, Goal, Versions, Absent
  <2>5. before[p.source] # Partial
    BY <2>3, <2>4 DEF Partial
  <2> QED
    BY <2>1, <2>2, <2>3, <2>5 DEF Inv, SnapshotsHold
<1>6. live.data.jobs = 0 /\ live \in Trees
  BY <1>1 DEF Inv, TypeOK, JournalHolds, Gated
<1>7. Goal(p) \in Versions
  BY DEF Inv, TypeOK, Goal
<1>8. Goal(p) <= runs + 1
  <2>1. CASE p.source = 0
    BY <1>3, <2>1 DEF Goal, Trying, Inv, VersionsHold
  <2>2. CASE p.source # 0
    <3>1. p.source \in 1..MaxRuns /\ before[p.source].payload = Goal(p)
      BY <1>5, <2>2
    <3> QED
      BY <3>1 DEF Inv, VersionsHold
  <2> QED
    BY <2>1, <2>2
<1> QED
  BY <1>1, <1>3, <1>5, <1>6, <1>7, <1>8

LEMMA ParkHolds ==
  ASSUME Inv, Park
  PROVE  Inv'
<1>1. /\ todo # <<>> /\ Done /\ Head(todo).do = "park"
      /\ live' = [live EXCEPT ![Current.what] = Partial[Current.what]]
      /\ UNCHANGED <<before, previous, journal, result, held, host, kept>>
      /\ UNCHANGED <<enabled, running, runs, origin, target>>
  BY DEF Park, Doing, host, kept, ghosts
<1>2. PICK p \in Plans : HasPlan(p)
  BY <1>1, HelperPlan DEF Inv
<1> DEFINE s == todo[1]
<1>3. /\ Head(todo) = s /\ Current = s /\ Ready(p, s) /\ Belongs(p, s)
      /\ StepType(s) /\ ClauseHolds(p)
  BY <1>1, <1>2, HelperPlan, StepTyped DEF Inv, HasPlan
<1>4. s.do = "park" /\ s.do \notin {"phase", "record"}
  BY <1>1, <1>3
<1>5. /\ p.mode \in Trying \union {"undo"} /\ s.run = p.source
      /\ Replacing(p)
      /\ s.what \in {"payload", "data", "plist"}
      /\ s.what \in {"data", "plist"} => PayloadReplaced(p)
      /\ s.what = "plist" => DataReplaced(p)
      /\ s.what = "data" => p.source # 0
  BY <1>3, <1>4 DEF Belongs, Ready, ReadyToReplace, StepType
<1>6. /\ journal.phase \in Apart /\ Off
      /\ p.mode = "update" <=> p.source = 0
      /\ live.data.jobs = 0 /\ live \in Trees
  BY <1>2, <1>3, <1>5, SourceHolds DEF Apart
<1>7. live' = [live EXCEPT ![s.what] = Partial[s.what]]
  BY <1>1, <1>3
<1> HIDE DEF s
<1>8. /\ live' \in Trees /\ live'.data.jobs = 0
      /\ live'.payload \in {live.payload, Absent}
      /\ s.what # "payload" => live'.payload = live.payload
      /\ s.what # "data" => live'.data = live.data
  <2>1. CASE s.what = "payload"
    BY <1>6, <1>7, <2>1 DEF Trees, Partial, Absent
  <2>2. CASE s.what = "data"
    BY <1>6, <1>7, <2>2 DEF Trees, Partial, NoData
  <2>3. CASE s.what = "plist"
    BY <1>6, <1>7, <2>3 DEF Trees, Partial, Absent
  <2> QED
    BY <1>5, <2>1, <2>2, <2>3
<1>9. live'.payload <= runs + 1
  <2>1. live.payload <= runs + 1 /\ runs \in Nat /\ 0 <= runs + 1
    BY DEF Inv, VersionsHold, TypeOK
  <2> QED
    BY <1>8, <2>1 DEF Absent
<1>10. ASSUME NEW t \in Steps, Follows(p, s, t)
       PROVE  Ready(p, t)'
  <2>1. Is(t, "install", s.what)
    BY <1>4, <1>10 DEF Follows
  <2>2. Replacing(p)'
    BY <1>1, <1>5, <1>6, <1>8 DEF Replacing, InPhase, Off
  <2>3. s.what \in {"data", "plist"} => PayloadReplaced(p)'
    BY <1>1, <1>5, <1>8 DEF PayloadReplaced, Goal
  <2>4. s.what = "plist" => DataReplaced(p)'
    BY <1>1, <1>5, <1>8 DEF DataReplaced, Goal
  <2> QED
    BY <2>1, <2>2, <2>3, <2>4
       DEF Ready, ReadyToBegin, ReadyToStop, ReadyToReplace, ReadyToEnd, Is
<1> QED
  BY <1>1, <1>2, <1>4, <1>6, <1>8, <1>9, <1>10, ReplacingStep DEF s

LEMMA InstallHolds ==
  ASSUME Inv, Install
  PROVE  Inv'
<1>1. /\ todo # <<>> /\ Done /\ Head(todo).do = "install"
      /\ live' = [live EXCEPT ![Current.what] = Source(Current)]
      /\ UNCHANGED <<before, previous, journal, result, held, host, kept>>
      /\ UNCHANGED <<enabled, running, runs, origin, target>>
  BY DEF Install, Doing, host, kept, ghosts
<1>2. PICK p \in Plans : HasPlan(p)
  BY <1>1, HelperPlan DEF Inv
<1> DEFINE s == todo[1]
<1>3. /\ Head(todo) = s /\ Current = s /\ Ready(p, s) /\ Belongs(p, s)
      /\ StepType(s) /\ ClauseHolds(p)
  BY <1>1, <1>2, HelperPlan, StepTyped DEF Inv, HasPlan
<1>4. s.do = "install" /\ s.do \notin {"phase", "record"}
  BY <1>1, <1>3
<1>5. /\ p.mode \in Trying \union {"undo"} /\ s.run = p.source
      /\ Replacing(p)
      /\ s.what \in {"payload", "data", "plist"}
      /\ s.what \in {"data", "plist"} => PayloadReplaced(p)
      /\ s.what = "plist" => DataReplaced(p)
      /\ s.what = "data" => p.source # 0
  BY <1>3, <1>4 DEF Belongs, Ready, ReadyToReplace, StepType
<1>6. /\ journal.phase \in Apart /\ Off
      /\ p.mode = "undo" => journal.phase = "restoring"
      /\ p.mode # "undo" => journal.phase = "backed-up"
      /\ p.mode = "update" <=> p.source = 0
      /\ live.data.jobs = 0 /\ live \in Trees
      /\ Goal(p) \in Versions /\ Goal(p) <= runs + 1
      /\ p.source # 0 => /\ before[p.source] \in Trees
                         /\ Whole(before[p.source])
                         /\ before[p.source].data.jobs = 0
                         /\ before[p.source].payload = Goal(p)
  BY <1>2, <1>3, <1>5, SourceHolds DEF Apart
<1> DEFINE new == Source(s)
<1>7. live' = [live EXCEPT ![s.what] = new]
  BY <1>1, <1>3
<1>8. s.what \in {"payload", "plist"} => new = Goal(p)
  <2>1. CASE p.source = 0
    BY <1>5, <1>6, <2>1 DEF Source, Goal, Trying
  <2>2. CASE p.source # 0
    BY <1>5, <1>6, <2>2 DEF Source, Whole
  <2> QED
    BY <2>1, <2>2
<1>9. s.what = "data" => new = before[p.source].data
  BY <1>5 DEF Source
<1> HIDE DEF s, new
<1>10. /\ live' \in Trees /\ live'.data.jobs = 0
       /\ s.what = "payload" => /\ live'.payload = Goal(p)
                                /\ live'.data = live.data
       /\ s.what # "payload" => live'.payload = live.payload
       /\ s.what = "data" => live'.data = before[p.source].data
       /\ s.what = "plist" => /\ live'.plist = Goal(p)
                              /\ live'.data = live.data
  <2>1. CASE s.what = "payload"
    BY <1>6, <1>7, <1>8, <2>1 DEF Trees
  <2>2. CASE s.what = "data"
    <3>1. before[p.source].data \in [by: Versions \union {0}, schema: 0..1,
                                     jobs: 0..1]
      BY <1>5, <1>6, <2>2 DEF Trees
    <3> QED
      BY <1>5, <1>6, <1>7, <1>9, <2>2, <3>1 DEF Trees
  <2>3. CASE s.what = "plist"
    BY <1>6, <1>7, <1>8, <2>3 DEF Trees
  <2> QED
    BY <1>5, <2>1, <2>2, <2>3
<1>11. live'.payload <= runs + 1
  BY <1>5, <1>6, <1>10 DEF Inv, VersionsHold
<1>12. Goal(p)' = Goal(p)
  BY <1>1 DEF Goal
<1>13. PayloadReplaced(p)'
  BY <1>5, <1>10, <1>12 DEF PayloadReplaced
<1>14. Replacing(p)'
  <2>1. p.mode = "update" => live'.data = live.data
    BY <1>5, <1>6, <1>10
  <2> QED
    BY <1>1, <1>5, <1>6, <2>1 DEF Replacing, InPhase, Off
<1>15. s.what \in {"data", "plist"} => DataReplaced(p)'
  <2>1. CASE s.what = "data"
    <3>1. /\ live'.data.by \in 1..Goal(p)
          /\ Goal(p) > 1 => live'.data.schema = 1
      BY <1>5, <1>6, <1>10, <2>1 DEF Whole
    <3> QED
      BY <1>12, <3>1 DEF DataReplaced
  <2>2. CASE s.what = "plist"
    BY <1>5, <1>10, <1>12, <2>2 DEF DataReplaced
  <2> QED
    BY <2>1, <2>2
<1>16. s.what = "plist" /\ p.mode # "update" => Whole(live)'
  <2>1. ASSUME s.what = "plist", p.mode # "update"
        PROVE  /\ live'.payload # Absent /\ live'.plist = live'.payload
               /\ live'.data.by \in 1..live'.payload
               /\ live'.payload > 1 => live'.data.schema = 1
    <3>1. live'.payload = Goal(p) /\ live'.plist = Goal(p)
      BY <1>10, <1>12, <1>13, <2>1 DEF PayloadReplaced
    <3>2. /\ live'.data.by \in 1..Goal(p)
          /\ Goal(p) > 1 => live'.data.schema = 1
      BY <1>5, <1>10, <2>1 DEF DataReplaced
    <3> QED
      BY <1>6, <3>1, <3>2 DEF Versions, Absent
  <2> QED
    BY <2>1 DEF Whole
<1>17. ASSUME NEW t \in Steps, Follows(p, s, t)
       PROVE  Ready(p, t)'
  <2> USE DEF Ready, ReadyToBegin, ReadyToStop, ReadyToReplace, ReadyToEnd, Is
  <2>1. CASE s.what = "payload"
    <3>1. /\ Is(t, "park", "data") \/ Is(t, "park", "plist")
          /\ p.mode # "update" => Is(t, "park", "data")
      BY <1>4, <1>17, <2>1 DEF Follows
    <3>2. p.mode = "update" => DataReplaced(p)'
      BY DEF DataReplaced
    <3> QED
      BY <1>13, <1>14, <3>1, <3>2
  <2>2. CASE s.what = "data"
    <3>1. Is(t, "park", "plist")
      BY <1>4, <1>17, <2>2 DEF Follows
    <3> QED
      BY <1>13, <1>14, <1>15, <2>2, <3>1
  <2>3. CASE s.what = "plist"
    <3>1. \/ p.mode = "update" /\ Is(t, "phase", "migrating")
          \/ p.mode = "rollback" /\ Is(t, "phase", "starting")
          \/ p.mode = "undo" /\ Is(t, "mark", "start")
      BY <1>4, <1>17, <2>3 DEF Follows
    <3>2. CASE p.mode = "update" /\ Is(t, "phase", "migrating")
      <4>1. live'.plist = target'
        BY <1>1, <1>10, <2>3, <3>2 DEF Goal, Trying
      <4> QED
        BY <1>13, <1>14, <3>2, <4>1
    <3>3. CASE p.mode = "rollback" /\ Is(t, "phase", "starting")
      <4>1. Whole(live)' /\ journal'.phase = "backed-up"
        BY <1>1, <1>6, <1>16, <2>3, <3>3
      <4>2. live'.payload = target'
        BY <1>13, <3>3 DEF PayloadReplaced, Goal, Trying
      <4> QED
        BY <3>3, <4>1, <4>2
    <3>4. CASE p.mode = "undo" /\ Is(t, "mark", "start")
      <4>1. Whole(live)' /\ journal'.phase = "restoring"
        BY <1>1, <1>6, <1>16, <2>3, <3>4
      <4>2. live'.payload = origin'
        BY <1>13, <3>4 DEF PayloadReplaced, Goal, Trying
      <4>3. Starting(p)'
        BY <3>4, <4>1, <4>2 DEF Starting, InPhase, Trying
      <4> QED
        BY <3>4, <4>3
    <3> QED
      BY <3>1, <3>2, <3>3, <3>4
  <2> QED
    BY <1>5, <2>1, <2>2, <2>3
<1> QED
  BY <1>1, <1>2, <1>4, <1>6, <1>10, <1>11, <1>17, ReplacingStep DEF s

LEMMA MigrateHolds ==
  ASSUME Inv, Migrate
  PROVE  Inv'
<1>1. /\ todo # <<>> /\ Done /\ Head(todo).do = "migrate"
      /\ live' = [live EXCEPT !.data.schema = 1]
      /\ UNCHANGED <<before, previous, journal, result, held, host, kept>>
      /\ UNCHANGED <<enabled, running, runs, origin, target>>
  BY DEF Migrate, Doing, host, kept, ghosts
<1>2. PICK p \in Plans : HasPlan(p)
  BY <1>1, HelperPlan DEF Inv
<1> DEFINE s == todo[1]
<1>3. Head(todo) = s /\ Ready(p, s)
  BY <1>1, <1>2, HelperPlan DEF Inv, HasPlan
<1>4. s.do = "migrate" /\ s.do \notin {"phase", "record"}
  BY <1>1, <1>3
<1>5. /\ p.mode = "update" /\ Off /\ journal.phase = "migrating"
      /\ live.data.by \in 1..origin
      /\ live.payload = target /\ live.plist = target
  BY <1>3, <1>4 DEF Ready, ReadyToReplace
<1>6. /\ live.data.jobs = 0 /\ live \in Trees /\ target \in Versions
      /\ origin \in Versions /\ target <= runs + 1
  BY <1>5 DEF Inv, TypeOK, JournalHolds, Gated, VersionsHold
<1>7. /\ live' \in Trees /\ live'.data.jobs = 0 /\ live'.payload = target
      /\ live'.plist = target /\ live'.data.by = live.data.by
      /\ live'.data.schema = 1
  BY <1>1, <1>5, <1>6 DEF Trees
<1>8. origin <= target
  <2>1. TryHolds(p)
    BY <1>2, <1>5
       DEF HasPlan, ClauseHolds, RecoverHolds, Inv, TypeOK, Recovering
  <2> QED
    BY <1>5, <2>1 DEF TryHolds
<1>9. Whole(live)'
  <2>1. live'.data.by \in 1..target
    BY <1>5, <1>6, <1>7, <1>8 DEF Versions
  <2>2. target # Absent
    BY <1>6 DEF Versions, Absent
  <2>3. /\ live'.payload # Absent /\ live'.plist = live'.payload
        /\ live'.data.by \in 1..live'.payload
        /\ live'.payload > 1 => live'.data.schema = 1
    BY <1>7, <2>1, <2>2
  <2> QED
    BY <2>3 DEF Whole
<1> HIDE DEF s
<1>10. ASSUME NEW t \in Steps, Follows(p, s, t)
       PROVE  Ready(p, t)'
  <2>1. Is(t, "phase", "starting")
    BY <1>4, <1>10 DEF Follows
  <2>2. live'.payload = target' /\ journal'.phase = "migrating"
    BY <1>1, <1>5, <1>7
  <2> QED
    BY <1>9, <2>1, <2>2
       DEF Ready, ReadyToBegin, ReadyToStop, ReadyToReplace, ReadyToEnd, Is
<1>11. live'.payload <= runs + 1 /\ journal.phase \in Apart
  BY <1>5, <1>6, <1>7 DEF Apart
<1> QED
  BY <1>1, <1>2, <1>4, <1>5, <1>7, <1>10, <1>11, ReplacingStep DEF s

LEMMA FinishHolds ==
  ASSUME Inv, FinishTransaction
  PROVE  Inv'
<1>1. /\ todo # <<>> /\ Head(todo).do = "finish"
      /\ result' = Current.what /\ journal' = NoRecord /\ Return
      /\ UNCHANGED <<live, before, previous, held>>
      /\ UNCHANGED <<cups, enabled, running, accepting>>
      /\ UNCHANGED <<runs, enabling, origin, target, calm>>
  BY DEF FinishTransaction, Doing, host, kept, ghosts
<1>2. PICK p \in Plans : HasPlan(p)
  BY <1>1, HelperPlan DEF Inv
<1> DEFINE s == todo[1]
<1>3. Head(todo) = s /\ Current = s /\ Ready(p, s) /\ StepType(s)
  BY <1>1, <1>2, HelperPlan, StepTyped DEF Inv, HasPlan
<1>4. s.do = "finish" /\ s.what \in Results
  BY <1>1, <1>3 DEF StepType
<1>5. Releasing(p) /\ ~held /\ (running => accepting)
  BY <1>3, <1>4 DEF Ready, ReadyToEnd
<1>6. journal.phase \in {"admission", "preparing", "committed"}
  BY <1>5 DEF Releasing
<1>7. Whole(live)
  BY <1>6 DEF Inv, JournalHolds, Apart
<1>8. HelperHolds' /\ todo' = <<>> /\ todo' \in Seq(Steps)
      /\ clause' \in {"try", "except", "recover", "stop"} /\ record' \in Records
  BY <1>1, ReturnHolds
<1>9. NoRecord \in Records
  BY UpdateAssumption DEF NoRecord, Records, Phases, Results
<1> HIDE DEF s
<1>10. TypeOK'
  BY <1>1, <1>3, <1>4, <1>8, <1>9 DEF Inv, TypeOK
<1>11. HostHolds'
  BY <1>1, <1>8 DEF Inv, HostHolds, Whole, NoRecord
<1>12. SnapshotsHold' /\ VersionsHold'
  BY <1>1 DEF Inv, SnapshotsHold, VersionsHold, Whole
<1>13. JournalHolds(journal)'
  <2>1. JournalHolds(NoRecord)
    BY <1>5, <1>7
       DEF JournalHolds, NoRecord, Gated, BackedUp, Apart
  <2>2. JournalHolds(NoRecord)'
    BY <1>1, <2>1 DEF JournalHolds, NoRecord, Whole, Off
  <2> QED
    BY <1>1, <2>2 DEF JournalHolds
<1> QED
  BY <1>8, <1>10, <1>11, <1>12, <1>13 DEF Inv

\* The record in memory vouches for as much as the journal does.
LEMMA WriteFailureHolds ==
  ASSUME Inv, WriteFailure
  PROVE  Inv'
<1>1. /\ todo # <<>> /\ Head(todo).do = "record"
      /\ journal' = record /\ clause' = "recover" /\ todo' = Recovery(record)
      /\ record' = record
      /\ UNCHANGED <<live, before, previous, result, held>>
      /\ UNCHANGED <<cups, enabled, running, accepting>>
      /\ UNCHANGED <<runs, enabling, origin, target, calm>>
  BY DEF WriteFailure, Doing, host, kept, ghosts
<1>2. PICK p \in Plans : HasPlan(p)
  BY <1>1, HelperPlan DEF Inv
<1>3. p.mode = "record" /\ ClauseHolds(p) /\ p.run \in 1..MaxRuns
  BY <1>1, <1>2, HelperPlan DEF Inv, HasPlan, Belongs, Plans
<1>4. clause = "except"
  BY <1>3 DEF Inv, TypeOK, ClauseHolds, TryHolds, RecoverHolds, Trying,
              Recovering
<1>5. /\ JournalHolds(record) /\ record.phase # "none" /\ record.run # 0
      /\ record \in Records
  BY <1>3, <1>4 DEF ClauseHolds, Inv, TypeOK
<1>6. PICK j \in Records : j = record
  BY <1>5
<1>7. JournalHolds(j)'
  BY <1>1, <1>5, <1>6, JournalUnchanged
<1>8. HelperHolds' /\ todo' \in Seq(Steps)
  BY <1>1, <1>5, <1>6, <1>7, RecoveryHolds DEF Inv
<1>9. JournalHolds(journal)'
  BY <1>1, <1>6, <1>7 DEF JournalHolds
<1>10. TypeOK'
  BY <1>1, <1>5, <1>8 DEF Inv, TypeOK
<1>11. HostHolds'
  <2>1. ~enabling
    BY <1>1 DEF Inv, HostHolds
  <2> QED
    BY <1>1, <2>1 DEF Inv, HostHolds, Whole
<1>12. SnapshotsHold' /\ VersionsHold'
  BY <1>1 DEF Inv, SnapshotsHold, VersionsHold, Whole
<1> QED
  BY <1>8, <1>9, <1>10, <1>11, <1>12 DEF Inv

\* What is remembered when a step of the try block raises
LEMMA RememberedHolds ==
  ASSUME Inv, todo # <<>>, NEW p, HasPlan(p), clause = "try"
  PROVE  /\ Remembered \in Records /\ JournalHolds(Remembered)
         /\ Remembered.phase # "none" /\ Remembered.run = p.run
<1>1. Current = todo[1] /\ ClauseHolds(p)
  BY HelperPlan DEF Inv, HasPlan
<1>2. TryHolds(p) /\ p.run = record.run
  BY <1>1 DEF ClauseHolds
<1>3. CASE todo[1].do = "phase"
  <2>1. Remembered = [record EXCEPT !.phase = todo[1].what]
    BY <1>1, <1>3 DEF Remembered
  <2> QED
    BY <1>2, <1>3, <2>1, PhaseHolds
<1>4. CASE todo[1].do # "phase"
  <2>1. Remembered = record /\ journal = record
    BY <1>1, <1>2, <1>4 DEF Remembered, TryHolds, Is
  <2>2. record.run # 0
    BY <1>2 DEF HasPlan, Plans
  <2>3. record.phase # "none"
    BY <2>1, <2>2 DEF Inv, JournalHolds, NoRecord
  <2> QED
    BY <1>2, <2>1, <2>3 DEF Inv, TypeOK
<1> QED
  BY <1>3, <1>4

LEMMA RaiseHolds ==
  ASSUME Inv, Raise
  PROVE  Inv'
<1>1. /\ todo # <<>>
      /\ UNCHANGED <<live, before, previous, journal, result, held>>
      /\ UNCHANGED <<cups, enabled, running, accepting>>
      /\ UNCHANGED <<runs, enabling, origin, target, calm>>
      /\ \/ /\ clause = "try" /\ clause' = "except" /\ todo' = Do("record")
            /\ record' = Remembered
         \/ /\ clause = "recover" /\ journal.phase # "committed"
            /\ clause' = "stop" /\ todo' = Stop /\ record' = record
         \/ Return
  BY DEF Raise, files, host, kept, ghosts
<1>2. PICK p \in Plans : HasPlan(p)
  BY <1>1, HelperPlan DEF Inv
<1>3. p.run \in 1..MaxRuns /\ p.source \in 0..MaxRuns /\ ClauseHolds(p)
  BY <1>2 DEF Plans, HasPlan
<1>4. JournalHolds(journal)'
  BY <1>1 DEF Inv, JournalHolds, Whole, Off
<1>5. HostHolds'
  <2>1. ~enabling
    BY <1>1 DEF Inv, HostHolds
  <2> QED
    BY <1>1, <2>1 DEF Inv, HostHolds, Whole
<1>6. SnapshotsHold' /\ VersionsHold'
  BY <1>1 DEF Inv, SnapshotsHold, VersionsHold, Whole
<1>7. \A mode \in {"record", "stop"} :
         [mode |-> mode, run |-> p.run, source |-> 0, outcome |-> "none"]
           \in Plans
  <2>1. 0 \in 0..MaxRuns /\ "none" \in Results
    BY UpdateAssumption DEF Results
  <2> QED
    BY <1>3, <2>1 DEF Plans
<1>8. /\ HelperHolds' /\ todo' \in Seq(Steps) /\ record' \in Records
      /\ clause' \in {"try", "except", "recover", "stop"}
  <2>1. CASE /\ clause = "try" /\ clause' = "except" /\ todo' = Do("record")
             /\ record' = Remembered
    <3>1. /\ Remembered \in Records /\ JournalHolds(Remembered)
          /\ Remembered.phase # "none" /\ Remembered.run = p.run
      BY <1>1, <1>2, <2>1, RememberedHolds
    <3>2. PICK q \in Plans : q = [mode |-> "record", run |-> p.run,
                                  source |-> 0, outcome |-> "none"]
      BY <1>7
    <3>3. PICK s \in Steps : s = Step("record", "none", 0)
      BY StepTypes DEF Commands
    <3>4. s.do = "record" /\ s.what = "none" /\ q.mode = "record"
          /\ q.run = p.run
      BY <3>2, <3>3, StepFields
    <3>5. Belongs(q, s)
      BY <3>4 DEF Belongs
    <3>6. Stretch(q, <<s>>, s, s)
      BY <3>5, Single
    <3>7. todo' = <<s>>
      BY <2>1, <3>3 DEF Do
    <3>8. /\ todo' \in Seq(Steps) /\ todo' # <<>> /\ todo'[1] = s
          /\ Carries(q, todo')
      BY <3>4, <3>6, <3>7, StretchCarries
    <3>9. ClauseHolds(q)'
      <4>1. PICK j : j = Remembered
        OBVIOUS
      <4>2. JournalHolds(j)'
        BY <1>1, <3>1, <4>1, JournalUnchanged
      <4>3. JournalHolds(record)'
        BY <2>1, <4>1, <4>2 DEF JournalHolds
      <4> QED
        BY <2>1, <3>1, <3>4, <4>3 DEF ClauseHolds
    <3>10. Ready(q, todo[1])'
      BY <3>4, <3>8
         DEF Ready, ReadyToBegin, ReadyToStop, ReadyToReplace, ReadyToEnd, Is
    <3>11. HelperHolds'
      BY <3>8, <3>9, <3>10 DEF HelperHolds
    <3> QED
      BY <2>1, <3>1, <3>8, <3>11
  <2>2. CASE /\ clause = "recover" /\ clause' = "stop" /\ todo' = Stop
             /\ record' = record
    <3>1. PICK q \in Plans : q = [mode |-> "stop", run |-> p.run,
                                  source |-> 0, outcome |-> "none"]
      BY <1>7
    <3>2. q.mode = "stop" /\ q.run = p.run
      BY <3>1
    <3>3. Stretch(q, Stop, Step("disable", "none", 0),
                  Step("stopped", "none", 0))
      BY <3>2, StopStretch
    <3>4. PICK s : s = Step("disable", "none", 0)
      OBVIOUS
    <3>5. s.do = "disable"
      BY <3>4, StepFields
    <3>6. Step("stopped", "none", 0).do \in {"finish", "record", "stopped"}
      BY StepFields
    <3>7. /\ todo' \in Seq(Steps) /\ todo' # <<>> /\ todo'[1] = s
          /\ Carries(q, todo')
      BY <2>2, <3>3, <3>4, <3>6, StretchCarries
    <3>8. ClauseHolds(q)'
      BY <1>3, <2>2, <3>2 DEF ClauseHolds
    <3>9. Ready(q, todo[1])'
      BY <3>2, <3>5, <3>7
         DEF Ready, ReadyToBegin, ReadyToStop, ReadyToReplace, ReadyToEnd, Is
    <3>10. HelperHolds'
      BY <3>7, <3>8, <3>9 DEF HelperHolds
    <3> QED
      BY <2>2, <3>7, <3>10 DEF Inv, TypeOK
  <2>3. CASE Return
    BY <2>3, ReturnHolds
  <2> QED
    BY <1>1, <2>1, <2>2, <2>3
<1>9. TypeOK'
  BY <1>1, <1>8 DEF Inv, TypeOK
<1> QED
  BY <1>4, <1>5, <1>6, <1>8, <1>9 DEF Inv

-----------------------------------------------------------------------------
(* The invariant *)

LEMMA InitInv ==
  ASSUME Init
  PROVE  Inv
<1>1. /\ live = [payload |-> 1, data |-> [by |-> 1, schema |-> 0, jobs |-> 0],
                 plist |-> 1]
      /\ before = [r \in 1..MaxRuns |-> Partial]
      /\ previous = 0 /\ journal = NoRecord /\ result = "none" /\ held = FALSE
      /\ cups = TRUE /\ enabled = TRUE /\ running = TRUE /\ accepting = TRUE
      /\ todo = <<>> /\ clause = "try" /\ record = NoRecord
      /\ runs = 0 /\ enabling = FALSE /\ origin = 1 /\ target = 1
      /\ calm = FALSE
  BY DEF Init
<1>2. 1 \in Versions /\ 0 \in 0..MaxRuns /\ MaxRuns \in Nat
  BY UpdateAssumption DEF Versions
<1>3. live \in Trees /\ Partial \in Trees
  BY <1>1, <1>2 DEF Trees, Partial, NoData, Absent
<1>4. NoRecord \in Records
  BY <1>2 DEF NoRecord, Records, Phases, Results
<1>5. /\ held \in BOOLEAN /\ cups \in BOOLEAN /\ enabled \in BOOLEAN
      /\ running \in BOOLEAN /\ accepting \in BOOLEAN /\ enabling \in BOOLEAN
      /\ calm \in BOOLEAN
  BY <1>1, Zenon
<1>6. todo \in Seq(Steps)
  BY <1>1
<1>7. TypeOK
  BY <1>1, <1>2, <1>3, <1>4, <1>5, <1>6 DEF TypeOK, Results
<1>8. Whole(live)
  BY <1>1 DEF Whole, Absent
<1>9. HostHolds
  BY <1>1, <1>8 DEF HostHolds
<1>10. SnapshotsHold
  BY <1>1 DEF SnapshotsHold
<1>11. VersionsHold
  <2>1. ASSUME NEW r \in 1..MaxRuns
        PROVE  before[r].payload = 0
    BY <1>1 DEF Partial, Absent
  <2> QED
    BY <1>1, <2>1 DEF VersionsHold
<1>12. JournalHolds(journal)
  BY <1>1, <1>8 DEF JournalHolds, NoRecord, Gated, BackedUp, Apart
<1>13. HelperHolds
  BY <1>1 DEF HelperHolds
<1> QED
  BY <1>7, <1>9, <1>10, <1>11, <1>12, <1>13 DEF Inv

LEMMA HelperStepHolds ==
  ASSUME Inv, HelperStep
  PROVE  Inv'
BY CheckHolds, WritePhaseHolds, WriteCommitHolds, WriteGateHolds,
   SetQueueHolds, SetAdmissionHolds, SetEnabledHolds, BootoutHolds,
   IgnoredHolds, BootstrapHolds, WriteInventoryHolds, ParkHolds, InstallHolds,
   MigrateHolds, WritePointerHolds, FinishHolds, WriteFailureHolds, RaiseHolds
   DEF HelperStep

LEMMA StutterHolds ==
  ASSUME Inv, UNCHANGED vars
  PROVE  Inv'
<1>1. /\ UNCHANGED <<live, before, previous, journal, result, held>>
      /\ UNCHANGED <<cups, enabled, running, accepting>>
      /\ UNCHANGED <<todo, clause, record>>
      /\ UNCHANGED <<runs, enabling, origin, target, calm>>
  BY DEF vars, files, host, helper, kept, ghosts
<1>2. TypeOK'
  BY <1>1 DEF Inv, TypeOK
<1>3. HostHolds' /\ SnapshotsHold' /\ VersionsHold'
  BY <1>1 DEF Inv, HostHolds, SnapshotsHold, VersionsHold, Whole
<1>4. JournalHolds(journal)'
  BY <1>1 DEF Inv, JournalHolds, Whole, Off
<1>5. HelperHolds'
  <2>1. CASE todo = <<>>
    BY <1>1, <2>1 DEF Inv, HelperHolds
  <2>2. CASE todo # <<>>
    <3>1. PICK p \in Plans : HasPlan(p)
      BY <2>2, HelperPlan DEF Inv
    <3>2. Ready(p, todo[1])'
      BY <1>1, <3>1
         DEF HasPlan, Ready, ReadyToBegin, ReadyToStop, ReadyToReplace,
             ReadyToEnd, Off, Replacing, DataReplaced, PayloadReplaced,
             Starting, Releasing, InPhase, Goal, Whole
    <3>3. ClauseHolds(p)'
      <4>1. JournalHolds(record) => JournalHolds(record)'
        BY <1>1 DEF JournalHolds, Whole, Off
      <4>2. TryHolds(p) => TryHolds(p)'
        BY <1>1 DEF TryHolds
      <4>3. RecoverHolds(p) => RecoverHolds(p)'
        BY <1>1 DEF RecoverHolds
      <4> QED
        BY <1>1, <3>1, <4>1, <4>2, <4>3 DEF HasPlan, ClauseHolds
    <3> QED
      BY <1>1, <2>2, <3>1, <3>2, <3>3 DEF HelperHolds, HasPlan
  <2> QED
    BY <2>1, <2>2
<1> QED
  BY <1>2, <1>3, <1>4, <1>5 DEF Inv

\* The invariant is inductive, if enable waits for the transaction that runs.
LEMMA NextInv ==
  ASSUME Inv, OneAtATime, [Next]_vars
  PROVE  Inv'
<1>1. CASE Next
  BY <1>1, HelperStepHolds, UpdateHolds, RollbackHolds, RecoverHoldsInv,
     CrashHolds, RebootHolds, ElsewhereHolds, UserEnableHolds
     DEF Next, Elsewhere
<1>2. CASE UNCHANGED vars
  BY <1>2, StutterHolds
<1> QED
  BY <1>1, <1>2

LEMMA Invariance ==
  ASSUME OneAtATime
  PROVE  Spec => []Inv
<1>1. Init => Inv
  BY InitInv
<1>2. Inv /\ [Next]_vars => Inv'
  BY NextInv
<1> QED
  BY <1>1, <1>2, PTL DEF Spec

-----------------------------------------------------------------------------
(* The theorems *)

\* Every state the update can be in is well-typed: the steps the helper has
\* left, of whatever transaction, are commands with the arguments they take.
THEOREM TypeCorrect ==
  ASSUME OneAtATime
  PROVE  Spec => []TypeOK
<1>1. Inv => TypeOK
  BY DEF Inv
<1> QED
  BY <1>1, Invariance, PTL

\* What launchd may start is one whole installation, whatever was replaced,
\* interrupted and recovered before, and however often.
THEOREM InstallationWhole ==
  ASSUME OneAtATime
  PROVE  Spec => []EnabledIsWhole
<1>1. Inv => EnabledIsWhole
  BY DEF Inv, HostHolds, Whole, EnabledIsWhole
<1> QED
  BY <1>1, Invariance, PTL

\* No job is admitted between the journal entry "stopping" and the commit, and
\* nothing holds jobs back when no transaction is pending.
THEOREM GateFollows ==
  ASSUME OneAtATime
  PROVE  Spec => []GateFollowsJournal
<1>1. Inv => GateFollowsJournal
  BY DEF Inv, JournalHolds, Gated, GateFollowsJournal
<1> QED
  BY <1>1, Invariance, PTL

\* The snapshot holds the installation the transaction has found as long as it
\* may be needed, and nothing is missing outside a replacement.
THEOREM NothingIsLost ==
  ASSUME OneAtATime
  PROVE  Spec => []NothingLost
<1>1. ASSUME Inv
      PROVE  NothingLost
  <2>1. ASSUME journal.phase \in BackedUp
        PROVE  LET saved == before[journal.run]
               IN  saved.payload = origin /\ saved.plist = origin
                   /\ saved.data.by \in 1..origin
    <3>1. /\ before[journal.run].payload = origin
          /\ journal.run \in 1..MaxRuns /\ origin # Absent
      BY <1>1, <2>1
         DEF Inv, TypeOK, JournalHolds, Records, Versions, Absent, BackedUp,
             Gated
    <3>2. before[journal.run] # Partial
      BY <3>1 DEF Partial
    <3>3. Whole(before[journal.run])
      BY <1>1, <3>1, <3>2 DEF Inv, SnapshotsHold
    <3> QED
      BY <3>1, <3>3 DEF Whole
  <2>2. ASSUME live.payload = Absent \/ live.plist = Absent \/ live.data.by = 0
        PROVE  journal.phase \in Apart
    <3>1. CASE Whole(live)
      <4>1. /\ live.payload # Absent /\ live.plist # Absent
            /\ live.data.by \in 1..live.payload /\ live.payload \in Versions
        BY <1>1, <3>1 DEF Whole, Inv, TypeOK, Trees, Absent
      <4> QED
        BY <2>2, <4>1 DEF Versions
    <3>2. CASE ~Whole(live)
      BY <1>1, <3>2 DEF Inv, JournalHolds
    <3> QED
      BY <3>1, <3>2
  <2> QED
    BY <2>1, <2>2 DEF NothingLost, BackedUp, Gated, Apart
<1> QED
  BY <1>1, Invariance, PTL

\* What a step writes
LEMMA Written ==
  ASSUME TypeOK, [Next]_vars
  PROVE  /\ journal' = journal \/ live' = live
         /\ live'.payload # live.payload => Park \/ Install
         /\ journal' # journal => WritePhase \/ WriteCommit \/ WriteFailure
                                  \/ FinishTransaction
<1> DEFINE Writes == WritePhase \/ WriteCommit \/ WriteFailure
                     \/ FinishTransaction
<1>1. live \in Trees
  BY DEF TypeOK
<1>2. ASSUME ServiceStarts
      PROVE  live'.payload = live.payload
  BY <1>1, <1>2 DEF ServiceStarts, Trees
<1>3. CASE HelperStep
  <2>1. CASE Writes
    BY <2>1 DEF WritePhase, WriteCommit, WriteFailure, FinishTransaction
  <2>2. CASE Park \/ Install
    BY <2>2 DEF Park, Install
  <2>3. CASE Bootstrap
    BY <1>2, <2>3 DEF Bootstrap
  <2>4. CASE Migrate
    BY <1>1, <2>4 DEF Migrate, Trees
  <2>5. CASE \/ Check \/ WriteGate \/ SetQueue \/ SetAdmission \/ SetEnabled
             \/ Bootout \/ Ignored \/ WriteInventory \/ WritePointer \/ Raise
    BY <2>5 DEF Check, WriteGate, SetQueue, SetAdmission, SetEnabled, Bootout,
                Ignored, WriteInventory, WritePointer, Raise, files
  <2> QED
    BY <1>3, <2>1, <2>2, <2>3, <2>4, <2>5 DEF HelperStep
<1>4. CASE Update \/ Rollback \/ Recover \/ Crash
  BY <1>4 DEF Update, Rollback, Begin, Recover, Crash, files
<1>5. CASE Reboot
  BY <1>2, <1>5 DEF Reboot
<1>6. CASE JobArrives \/ JobEnds
  BY <1>1, <1>6 DEF JobArrives, JobEnds, Trees
<1>7. CASE UserEnableStarts
  BY <1>2, <1>7 DEF UserEnableStarts
<1>8. CASE \/ ServiceRestarts \/ ServiceDies \/ UserDisable
           \/ UserEnableChecks \/ Calm
  BY <1>8 DEF ServiceRestarts, ServiceDies, UserDisable, UserEnableChecks,
              Calm, files
<1>9. CASE UNCHANGED vars
  BY <1>9 DEF vars, files
<1> HIDE DEF Writes
<1> QED
  BY <1>3, <1>4, <1>5, <1>6, <1>7, <1>8, <1>9 DEF Next

\* No unfinished job is in data that are put aside: the journal was "stopping"
\* or later, admission was closed, and no job was left then.
THEOREM NoJobIsOverwritten ==
  ASSUME OneAtATime
  PROVE  Spec => NoJobOverwritten
<1>1. ASSUME Inv, Inv', [Next]_vars, live'.data.by = 0
      PROVE  live.data.jobs = 0
  <2>1. ~Whole(live)'
    BY <1>1 DEF Whole
  <2>2. journal'.phase \in Apart /\ live'.data.jobs = 0
    BY <1>1, <2>1 DEF Inv, JournalHolds, Apart, Gated
  <2>3. CASE journal' = journal
    BY <1>1, <2>2, <2>3 DEF Inv, JournalHolds, Apart, Gated
  <2>4. CASE live' = live
    BY <2>2, <2>4
  <2> QED
    BY <1>1, <2>3, <2>4, Written DEF Inv
<1>2. Inv /\ Inv' /\ [Next]_vars =>
        [live'.data.by = 0 => live.data.jobs = 0]_vars
  BY <1>1
<1> QED
  BY <1>2, Invariance, PTL DEF Spec, NoJobOverwritten

\* The outcome that is reported tells which installation is left, whoever
\* brings the transaction to its end.
THEOREM OutcomeTold ==
  ASSUME OneAtATime
  PROVE  Spec => OutcomeIsTrue
<1> DEFINE Told == live.payload =
             IF \/ result' \in {"updated", "update-complete",
                                "rollback-complete"}
                \/ /\ result' = "rolled-back" /\ journal.outcome = "none"
                   /\ journal.operation = "rollback"
             THEN target ELSE origin
<1>1. ASSUME Inv, [Next]_vars, journal.phase # "none", journal'.phase = "none"
      PROVE  FinishTransaction
  <2>1. /\ journal' # journal
        /\ WritePhase \/ WriteCommit \/ WriteFailure \/ FinishTransaction
    BY <1>1, Written DEF Inv
  <2>2. todo # <<>>
    BY <2>1 DEF WritePhase, WriteCommit, WriteFailure, FinishTransaction, Doing
  <2>3. PICK p \in Plans : HasPlan(p)
    BY <1>1, <2>2, HelperPlan DEF Inv
  <2>4. Current = todo[1] /\ Head(todo) = todo[1] /\ record \in Records
    BY <1>1, <2>2, HelperPlan DEF Inv, TypeOK
  <2>5. ~WritePhase
    <3>1. ASSUME WritePhase
          PROVE  todo[1].do = "phase"
                 /\ journal' = [record EXCEPT !.phase = todo[1].what]
      BY <2>4, <3>1 DEF WritePhase, Doing
    <3> QED
      BY <1>1, <2>2, <2>3, <3>1, PhaseHolds
  <2>6. ~WriteCommit
    BY <1>1, <2>4 DEF WriteCommit, Records
  <2>7. ~WriteFailure
    <3>1. ASSUME WriteFailure
          PROVE  p.mode = "record" /\ journal' = record
      BY <2>3, <2>4, <3>1 DEF WriteFailure, Doing, HasPlan, Belongs
    <3>2. p.mode = "record" => record.phase # "none"
      BY <1>1, <2>3 DEF HasPlan, ClauseHolds, TryHolds, RecoverHolds, Trying,
                        Recovering, Inv, TypeOK
    <3> QED
      BY <1>1, <3>1, <3>2
  <2> QED
    BY <2>1, <2>5, <2>6, <2>7
<1>2. ASSUME Inv, FinishTransaction
      PROVE  Told
  <2>1. todo # <<>> /\ Head(todo).do = "finish" /\ result' = Current.what
    BY <1>2 DEF FinishTransaction, Doing
  <2>2. PICK p \in Plans : HasPlan(p)
    BY <1>2, <2>1, HelperPlan DEF Inv
  <2>3. /\ todo[1].do = "finish" /\ result' = p.outcome
        /\ Releasing(p) /\ p.mode # "record" /\ ClauseHolds(p)
    BY <1>2, <2>1, <2>2, HelperPlan
       DEF Inv, HasPlan, Belongs, Ready, ReadyToEnd
  <2>4. JournalHolds(journal) /\ journal \in Records
    BY <1>2 DEF Inv, TypeOK
  <2>5. CASE p.mode \in Trying
    <3>1. TryHolds(p) /\ journal = record /\ journal.phase = "committed"
      BY <1>2, <2>3, <2>5
         DEF ClauseHolds, TryHolds, RecoverHolds, Inv, TypeOK, Recovering,
             Trying, Is, Releasing
    <3>2. live.payload = target
      BY <2>4, <3>1 DEF JournalHolds, TryHolds
    <3>3. \/ p.mode = "update" /\ result' = "updated"
          \/ p.mode = "rollback" /\ result' = "rolled-back"
      BY <2>3, <2>5, <3>1 DEF TryHolds, Trying
    <3> QED
      BY <3>1, <3>2, <3>3 DEF TryHolds
  <2>6. CASE p.mode \in {"restart", "undo"}
    <3>1. RecoverHolds(p) /\ journal.phase = "committed"
      BY <1>2, <2>3, <2>6
         DEF ClauseHolds, TryHolds, Inv, TypeOK, Trying, Releasing
    <3>2. /\ journal.outcome = p.outcome
          /\ p.outcome \in {"unchanged", "rolled-back"}
      BY <2>6, <3>1 DEF RecoverHolds
    <3> QED
      BY <2>3, <2>4, <3>1, <3>2 DEF JournalHolds
  <2>7. CASE p.mode = "finalize"
    <3>1. RecoverHolds(p) /\ journal.phase = "committed"
      BY <1>2, <2>3, <2>7
         DEF ClauseHolds, TryHolds, Inv, TypeOK, Trying, Releasing
    <3>2. result' = Completion(journal)
      BY <2>3, <2>7, <3>1 DEF RecoverHolds
    <3> QED
      BY <2>4, <3>1, <3>2 DEF JournalHolds, Completion
  <2>8. CASE p.mode \in {"defer", "abandon"}
    <3>1. RecoverHolds(p) /\ journal.phase \in {"admission", "preparing"}
      BY <1>2, <2>3, <2>8
         DEF ClauseHolds, TryHolds, Inv, TypeOK, Trying, Releasing
    <3>2. result' \in {"deferred", "prepare-failed"}
      BY <2>3, <2>8, <3>1 DEF RecoverHolds
    <3> QED
      BY <2>4, <3>1, <3>2 DEF JournalHolds
  <2> QED
    BY <2>3, <2>5, <2>6, <2>7, <2>8 DEF Plans, Recovering, Releasing
<1>3. Inv /\ [Next]_vars =>
        [journal.phase # "none" /\ journal'.phase = "none" => Told]_vars
  BY <1>1, <1>2
<1> QED
  BY <1>3, Invariance, PTL DEF Spec, OutcomeIsTrue
=============================================================================
