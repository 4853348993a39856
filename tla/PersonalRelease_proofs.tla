----------------------- MODULE PersonalRelease_proofs -----------------------
(***************************************************************************)
(* The safety properties of PersonalRelease, for every set of commits,     *)
(* builds, versions, scopes and scenarios, and every number of unexpected  *)
(* events.                                                                 *)
(***************************************************************************)
EXTENDS PersonalRelease, TLAPS

-----------------------------------------------------------------------------
(* The inductive invariant *)

\* A validation pointer of run r on this commit: all its scenarios passed there.
PointerOf(p, commit, r) ==
  /\ p \in Pointer
  /\ p.manifest.evidence = commit /\ p.manifest.build = r
  /\ \A s \in Scenarios :
       p.matrix.rows[s] = [evidence |-> commit, invalidatedBy |-> {}]

\* What a run has by the stages it has passed
RunHolds(r) ==
  /\ runs[r].failed \/ runs[r].passed > 0 => runs[r].path
  /\ runs[r].passed >= Prepared =>
       /\ runs[r].commit \in Merged
       /\ runs[r].payload = Content[runs[r].commit]
  /\ runs[r].passed >= Validated =>
       PointerOf(runs[r].pointer, runs[r].commit, r)
  /\ runs[r].passed >= Sealed =>
       SealHolds(r) /\ releases[VersionOf(r)].pointer = runs[r].pointer
  /\ runs[r].passed >= Tagged =>
       runs[r].tag = [commit |-> runs[r].commit,
                      bundle |-> releases[VersionOf(r)]]

\* A bundle is that of a validated run of its version.
ReleaseHolds(v) ==
  releases[v] # None =>
    LET r == releases[v].run
    IN  /\ runs[r].passed >= Validated /\ VersionOf(r) = v
        /\ releases[v].pointer = runs[r].pointer

\* A tag of this program is for the bundle that is there.
TagHolds(v) ==
  tags[v] # None /\ tags[v].bundle # None =>
    /\ tags[v].bundle = releases[v] /\ releases[v] # None
    /\ releases[v].readonly
    /\ tags[v].commit = runs[releases[v].run].commit

ArchiveHolds ==
  /\ \A r \in Builds : RunHolds(r)
  /\ \A v \in Versions : ReleaseHolds(v) /\ TagHolds(v)

\* Which steps an operation on a stage has
StepsOf(s) ==
  CASE s = Prepared  -> {"build", "recheck"}
    [] s = CiPassed  -> {"ci"}
    [] s = Validated -> {"validate"}
    [] s = Sealed    -> {"bundle", "protect"}
    [] s = Tagged    -> {"ci", "validate", "tag"}
    [] s = Installed -> {"observe"}

\* What an operation has established when it comes to a step
Idling == step = "idle" => stage = 0 /\ run = None
Holding ==
  step # "idle" =>
    /\ stage \in Stages /\ run \in Builds
    /\ step \in StepsOf(stage)
                  \union {"candidate", "record", "close", "reject"}
Advancing ==
  step \notin {"idle", "candidate", "reject", "close"} =>
    /\ This.path /\ ~This.failed
    /\ This.passed = stage - 1
    /\ stage = Prepared => seen \in Merged
Closing == step = "close" => This.path /\ ~This.failed
MovedAway ==
  /\ moved => step \in {"build", "recheck", "reject"}
  /\ step \in {"build", "recheck"} => (CandidateIs(seen) <=> ~moved)
  /\ step = "recheck" /\ ~moved => This.payload = Content[seen]
  /\ step = "record" /\ stage = Prepared => This.payload = Content[seen]
Recording ==
  /\ step = "record" /\ stage = Validated => PointerOf(found, This.commit, run)
  /\ step = "protect" \/ (step = "record" /\ stage = Sealed) =>
       /\ releases[VersionOf(run)] # None
       /\ releases[VersionOf(run)].run = run
       /\ step = "record" => releases[VersionOf(run)].readonly
  /\ step = "record" /\ stage = Tagged => tags[VersionOf(run)] = NewTag

OperationHolds ==
  Idling /\ Holding /\ Advancing /\ Closing /\ MovedAway /\ Recording

-----------------------------------------------------------------------------
(* Types *)

\* A record of a run, field by field
LEMMA RunFields ==
  ASSUME NEW a \in Archived
  PROVE  /\ a = [path |-> a.path, passed |-> a.passed, open |-> a.open,
                 failed |-> a.failed, commit |-> a.commit,
                 payload |-> a.payload, pointer |-> a.pointer, tag |-> a.tag]
         /\ a.path \in BOOLEAN /\ a.open \in BOOLEAN /\ a.failed \in BOOLEAN
         /\ a.passed \in 0..Installed
         /\ a.commit \in Commits \union {None}
         /\ a.payload \in [Scopes -> Values] \union {None}
         /\ a.pointer \in Pointer \union {None}
         /\ a.tag \in Tag \union {None}
BY DEF Archived

\* The checkout of a commit
LEMMA ContentValues == \A c \in Commits : Content[c] \in [Scopes -> Values]
BY EvidenceAssumption DEF Values

\* The types of the checkout and the evidence, whoever works on them
LEMMA EvidenceTypeStep ==
  ASSUME EvidenceTypeOK, Evidence \/ Edit \/ Checkout
  PROVE  EvidenceTypeOK'
<1> USE EvidenceAssumption DEF EvidenceTypeOK
<1>1. CASE Refresh
  <2>1. \A s \in Scenarios : Refreshed(s) \in Row
    BY DEF Refreshed, Row, Matrix, Changed
  <2>2. matrix' \in Matrix
    BY <1>1, <2>1 DEF Refresh, Matrix
  <2> QED
    BY <1>1, <2>2 DEF Refresh
<1>2. CASE Exercise
  BY <1>2 DEF Exercise
<1>3. CASE MarkVerified
  <2>1. ASSUME NEW s \in Scenarios, evidence # None,
               matrix' = [matrix EXCEPT !.rows[s] =
                            [evidence |-> evidence, invalidatedBy |-> {}]]
        PROVE  matrix' \in Matrix
    BY <2>1 DEF Matrix, Row
  <2> QED
    BY <1>3, <2>1 DEF MarkVerified
<1>4. CASE Seal
  BY <1>4 DEF Seal, Manifest
<1>5. CASE Spoil
  BY <1>5 DEF Spoil, Change
<1>6. CASE Edit
  BY <1>6 DEF Edit, Change, gate
<1>7. CASE Checkout
  BY <1>7, ContentValues DEF Checkout, Change, gate
<1> QED
  BY <1>1, <1>2, <1>3, <1>4, <1>5, <1>6, <1>7 DEF Evidence

-----------------------------------------------------------------------------
(* What each step does to the archive *)

\* TypeOK but for what the records leave, which RunHolds says as well
Types ==
  /\ EvidenceTypeOK
  /\ runs \in [Builds -> Archived]
  /\ releases \in [Versions -> Bundle \union {None}]
  /\ tags \in [Versions -> Tag \union {None}]
  /\ ci \subseteq Merged
  /\ stage \in Stages \union {0} /\ run \in Builds \union {None}
  /\ step \in Steps /\ moved \in BOOLEAN
  /\ seen \in Commits \union {None} /\ found \in Pointer \union {None}

\* Only this run is changed, and in it only what says what it is about.
OnlyRun(next) ==
  /\ runs' = [runs EXCEPT ![run] = next] /\ runs' \in [Builds -> Archived]
  /\ runs'[run] = next
  /\ \A r \in Builds \ {run} : runs'[r] = runs[r]

\* A run with a commit has a version.
LEMMA VersionValues ==
  ASSUME NEW r \in Builds, runs[r].commit \in Merged
  PROVE  runs[r].commit \in Commits /\ VersionOf(r) \in Versions
BY ReleaseAssumption DEF VersionOf

\* A run is replaced.
LEMMA Effect ==
  ASSUME runs \in [Builds -> Archived], NEW next \in Archived, run \in Builds,
         runs' = [runs EXCEPT ![run] = next]
  PROVE  OnlyRun(next)
BY DEF OnlyRun

\* NewCandidate makes the directory,
LEMMA NewCandidateEffect ==
  ASSUME Types, Holding, NewCandidate
  PROVE  OnlyRun([runs[run] EXCEPT !.path = TRUE])
<1>1. run \in Builds /\ runs[run] \in Archived
  BY DEF Types, Holding, NewCandidate
<1>2. [runs[run] EXCEPT !.path = TRUE] \in Archived
  BY <1>1 DEF Archived
<1>3. runs' = [runs EXCEPT ![run] = [runs[run] EXCEPT !.path = TRUE]]
  BY DEF NewCandidate
<1> QED
  BY <1>1, <1>2, <1>3, Effect DEF Types

\* Build the payload,
LEMMA BuildEffect ==
  ASSUME Types, Holding, Build
  PROVE  OnlyRun([runs[run] EXCEPT !.payload = tree])
<1>1. run \in Builds /\ runs[run] \in Archived /\ tree \in [Scopes -> Values]
  BY DEF Types, Holding, Build, EvidenceTypeOK
<1>2. [runs[run] EXCEPT !.payload = tree] \in Archived
  BY <1>1 DEF Archived
<1>3. runs' = [runs EXCEPT ![run] = [runs[run] EXCEPT !.payload = tree]]
  BY DEF Build
<1> QED
  BY <1>1, <1>2, <1>3, Effect DEF Types

\* Close ends a record,
LEMMA CloseEffect ==
  ASSUME Types, Holding, Close
  PROVE  OnlyRun([runs[run] EXCEPT !.open = FALSE])
<1>1. run \in Builds /\ runs[run] \in Archived
  BY DEF Types, Holding, Close
<1>2. [runs[run] EXCEPT !.open = FALSE] \in Archived
  BY <1>1 DEF Archived
<1>3. runs' = [runs EXCEPT ![run] = [runs[run] EXCEPT !.open = FALSE]]
  BY DEF Close
<1> QED
  BY <1>1, <1>2, <1>3, Effect DEF Types

\* Reject marks the run,
LEMMA RejectEffect ==
  ASSUME Types, Holding, Reject
  PROVE  OnlyRun([runs[run] EXCEPT !.failed = @ \/ runs[run].path])
<1>1. run \in Builds /\ runs[run] \in Archived
  BY DEF Types, Holding, Reject
<1>2. (runs[run].failed \/ runs[run].path) \in BOOLEAN
  BY <1>1, RunFields
<1>3. [runs[run] EXCEPT !.failed = @ \/ runs[run].path] \in Archived
  BY <1>1, <1>2 DEF Archived
<1>4. runs' = [runs EXCEPT ![run] =
                 [runs[run] EXCEPT !.failed = @ \/ runs[run].path]]
  BY DEF Reject, This
<1> QED
  BY <1>1, <1>3, <1>4, Effect DEF Types

\* and Record adds the record of the stage.
LEMMA RecordEffect ==
  ASSUME Types, ArchiveHolds, Holding, Advancing, Record
  PROVE  /\ run \in Builds /\ stage \in Stages /\ OnlyRun(NewRecord)
         /\ runs[run].passed = stage - 1
<1>1. run \in Builds /\ runs[run] \in Archived /\ stage \in Stages
  BY DEF Types, Holding, Record
<1>2. runs[run].passed = stage - 1
  BY DEF Record, Advancing, This
<1>3. stage = Tagged => tags[VersionOf(run)] \in Tag \union {None}
  <2>1. RunHolds(run)
    BY <1>1 DEF ArchiveHolds
  <2>2. stage = Tagged => runs[run].passed >= Prepared
    BY <1>2 DEF Tagged, Prepared
  <2>3. stage = Tagged => runs[run].commit \in Merged
    BY <2>1, <2>2 DEF RunHolds
  <2> QED
    BY <1>1, <2>3, VersionValues DEF Types
<1>4. NewRecord \in Archived
  <2>1. stage \in 0..Installed
    BY <1>1 DEF Stages, Prepared, Installed
  <2> DEFINE commit == IF stage = Prepared THEN seen ELSE runs[run].commit
             pointer == IF stage = Validated THEN found ELSE runs[run].pointer
             tag == IF stage = Tagged THEN tags[VersionOf(run)]
                                      ELSE runs[run].tag
  <2>2. /\ commit \in Commits \union {None}
        /\ pointer \in Pointer \union {None} /\ tag \in Tag \union {None}
    BY <1>1, <1>3, RunFields DEF Types
  <2>3. NewRecord = [runs[run] EXCEPT !.passed = stage, !.open = TRUE,
                       !.commit = commit, !.pointer = pointer, !.tag = tag]
    BY DEF NewRecord, This
  <2> HIDE DEF commit, pointer, tag
  <2> QED
    BY <1>1, <2>1, <2>2, <2>3 DEF Archived
<1>5. runs' = [runs EXCEPT ![run] = NewRecord]
  BY DEF Record
<1> QED
  BY <1>1, <1>2, <1>4, <1>5, Effect DEF Types

-----------------------------------------------------------------------------
(* The archive and the tags *)

\* The numbers of the stages
LEMMA StageValues ==
  /\ Prepared = 1 /\ CiPassed = 2 /\ Validated = 3 /\ Sealed = 4
  /\ Tagged = 5 /\ Installed = 6 /\ Stages = 1..6
BY DEF Prepared, CiPassed, Validated, Sealed, Tagged, Installed, Stages

\* Whatever is done elsewhere changes nothing of it.
LEMMA ArchiveUntouched ==
  ASSUME ArchiveHolds, UNCHANGED <<runs, releases, tags>>
  PROVE  ArchiveHolds'
BY DEF ArchiveHolds, RunHolds, ReleaseHolds, TagHolds, SealHolds, VersionOf

\* A step on one run that adds no record, and no payload to a prepared one
LEMMA RunTouched ==
  ASSUME ArchiveHolds, Types, run \in Builds, NEW next \in Archived,
         OnlyRun(next), UNCHANGED <<releases, tags>>,
         next.passed = runs[run].passed, next.commit = runs[run].commit,
         next.pointer = runs[run].pointer, next.tag = runs[run].tag,
         next.payload = runs[run].payload \/ runs[run].passed = 0,
         next.failed \/ next.passed > 0 => next.path
  PROVE  ArchiveHolds'
<1> DEFINE same(r) == /\ runs'[r].passed = runs[r].passed
                      /\ runs'[r].commit = runs[r].commit
                      /\ runs'[r].pointer = runs[r].pointer
                      /\ runs'[r].tag = runs[r].tag
<1>1. \A r \in Builds : same(r)
  BY DEF OnlyRun
<1>2. \A r \in Builds : VersionOf(r)' = VersionOf(r)
  BY <1>1 DEF VersionOf
<1>3. ASSUME NEW r \in Builds PROVE RunHolds(r)'
  <2>1. RunHolds(r) /\ same(r) /\ VersionOf(r)' = VersionOf(r)
    BY <1>1, <1>2 DEF ArchiveHolds
  <2>2. SealHolds(r)' = SealHolds(r)
    BY <2>1 DEF SealHolds
  <2>3. /\ runs'[r].failed \/ runs'[r].passed > 0 => runs'[r].path
        /\ runs'[r].payload = runs[r].payload \/ runs[r].passed = 0
    BY <2>1 DEF OnlyRun, RunHolds
  <2>4. runs[r].passed \in 0..Installed
    BY RunFields DEF Types
  <2> QED
    BY <2>1, <2>2, <2>3, <2>4, StageValues DEF RunHolds
<1>4. ASSUME NEW v \in Versions PROVE ReleaseHolds(v)' /\ TagHolds(v)'
  <2>1. ReleaseHolds(v) /\ TagHolds(v)
    BY DEF ArchiveHolds
  <2>2. releases[v] # None => releases[v].run \in Builds
    BY DEF Types, Bundle
  <2>3. ReleaseHolds(v)'
    BY <1>1, <1>2, <2>1, <2>2 DEF ReleaseHolds
  <2>4. TagHolds(v)'
    BY <1>1, <2>1, <2>2 DEF TagHolds
  <2> QED
    BY <2>3, <2>4
<1> HIDE DEF same
<1> QED
  BY <1>3, <1>4 DEF ArchiveHolds

\* The record of a stage says what the operation has established.
LEMMA ArchiveRecorded ==
  ASSUME ArchiveHolds, Types, OperationHolds, Record
  PROVE  ArchiveHolds'
<1>1. /\ run \in Builds /\ stage \in 1..6 /\ OnlyRun(NewRecord)
      /\ runs[run].passed = stage - 1 /\ runs[run] \in Archived
  BY RecordEffect, StageValues DEF OperationHolds, Types
<1>2. /\ step = "record" /\ UNCHANGED <<releases, tags>>
      /\ This.path /\ ~This.failed /\ run' = run
  BY DEF Record, OperationHolds, Advancing, outside, Goto
<1>3. /\ NewRecord.passed = stage /\ NewRecord.path = runs[run].path
      /\ NewRecord.failed = runs[run].failed
      /\ NewRecord.payload = runs[run].payload
      /\ stage = 1 => NewRecord.commit = seen
      /\ stage # 1 => NewRecord.commit = runs[run].commit
      /\ stage = 3 => NewRecord.pointer = found
      /\ stage # 3 => NewRecord.pointer = runs[run].pointer
      /\ stage = 5 => NewRecord.tag = tags[VersionOf(run)]
      /\ stage # 5 => NewRecord.tag = runs[run].tag
  BY <1>1, StageValues DEF NewRecord, This, Archived
<1>4. runs'[run] = NewRecord
  BY <1>1 DEF OnlyRun
<1>5. RunHolds(run)
  BY <1>1 DEF ArchiveHolds
<1>6. stage # 1 => VersionOf(run)' = VersionOf(run)
  BY <1>2, <1>3, <1>4 DEF VersionOf
<1>7. RunHolds(run)'
  <2>1. runs'[run].path
    BY <1>2, <1>3, <1>4 DEF This
  <2>2. /\ runs'[run].commit \in Merged
        /\ runs'[run].payload = Content[runs'[run].commit]
    <3>1. CASE stage = 1
      BY <1>2, <1>3, <1>4, <3>1, StageValues
         DEF OperationHolds, Advancing, MovedAway, This
    <3>2. CASE stage # 1
      BY <1>1, <1>3, <1>4, <1>5, <3>2, StageValues DEF RunHolds
    <3> QED
      BY <3>1, <3>2
  <2>3. stage >= 3 => PointerOf(runs'[run].pointer, runs'[run].commit, run)
    <3>1. CASE stage = 3
      BY <1>2, <1>3, <1>4, <3>1, StageValues DEF OperationHolds, Recording, This
    <3>2. CASE stage > 3
      BY <1>1, <1>3, <1>4, <1>5, <3>2, StageValues DEF RunHolds
    <3> QED
      BY <1>1, <3>1, <3>2
  <2>4. stage >= 4 => /\ SealHolds(run)
                      /\ releases[VersionOf(run)].pointer = runs[run].pointer
    <3>1. CASE stage = 4
      <4>1. SealHolds(run)
        BY <1>2, <3>1, StageValues DEF OperationHolds, Recording, SealHolds
      <4>2. runs[run].commit \in Merged
        BY <1>1, <1>5, <3>1, StageValues DEF RunHolds
      <4>3. VersionOf(run) \in Versions
        BY <1>1, <4>2, VersionValues
      <4> QED
        BY <4>1, <4>3 DEF SealHolds, ArchiveHolds, ReleaseHolds
    <3>2. CASE stage > 4
      BY <1>1, <1>5, <3>2, StageValues DEF RunHolds
    <3> QED
      BY <1>1, <3>1, <3>2
  <2>5. stage >= 4 => /\ SealHolds(run)'
                      /\ releases'[VersionOf(run)'].pointer = runs'[run].pointer
    BY <1>1, <1>2, <1>3, <1>4, <1>6, <2>4 DEF SealHolds
  <2>6. stage >= 5 => runs'[run].tag = [commit |-> runs'[run].commit,
                                        bundle |-> releases'[VersionOf(run)']]
    <3>1. CASE stage = 5
      BY <1>2, <1>3, <1>4, <1>6, <3>1, StageValues
         DEF OperationHolds, Recording, NewTag, This
    <3>2. CASE stage = 6
      BY <1>1, <1>2, <1>3, <1>4, <1>5, <1>6, <3>2, StageValues DEF RunHolds
    <3> QED
      BY <1>1, <3>1, <3>2
  <2>7. runs'[run].passed = stage
    BY <1>3, <1>4
  <2> QED
    BY <1>1, <1>2, <2>1, <2>2, <2>3, <2>5, <2>6, <2>7, StageValues DEF RunHolds
<1>8. ASSUME NEW r \in Builds \ {run} PROVE RunHolds(r)'
  <2>1. runs'[r] = runs[r] /\ RunHolds(r)
    BY <1>1 DEF OnlyRun, ArchiveHolds
  <2> QED
    BY <1>2, <2>1 DEF RunHolds, SealHolds, VersionOf
<1>9. ASSUME NEW v \in Versions PROVE ReleaseHolds(v)' /\ TagHolds(v)'
  <2>1. ReleaseHolds(v) /\ TagHolds(v)
    BY DEF ArchiveHolds
  <2>2. ASSUME releases[v] # None
        PROVE  LET r == releases[v].run
               IN  /\ r \in Builds /\ runs'[r].passed >= Validated
                   /\ runs'[r].commit = runs[r].commit
                   /\ runs'[r].pointer = runs[r].pointer
    <3>1. releases[v].run \in Builds /\ runs[releases[v].run].passed >= 3
      BY <2>1, <2>2, StageValues DEF Types, Bundle, ReleaseHolds
    <3>2. CASE releases[v].run = run
      BY <1>1, <1>3, <1>4, <3>1, <3>2, StageValues
    <3>3. CASE releases[v].run # run
      BY <1>1, <3>1, <3>3, StageValues DEF OnlyRun
    <3> QED
      BY <3>2, <3>3
  <2>3. ReleaseHolds(v)'
    BY <1>2, <2>1, <2>2 DEF ReleaseHolds, VersionOf
  <2>4. TagHolds(v)'
    BY <1>2, <2>1, <2>2 DEF TagHolds
  <2> QED
    BY <2>3, <2>4
<1> QED
  BY <1>2, <1>7, <1>8, <1>9 DEF ArchiveHolds

\* What a run has that has passed a stage
LEMMA PassedFacts ==
  ASSUME ArchiveHolds, NEW r \in Builds
  PROVE  /\ runs[r].passed >= 1 =>
              /\ runs[r].commit \in Merged /\ runs[r].commit \in Commits
              /\ VersionOf(r) \in Versions
              /\ runs[r].payload = Content[runs[r].commit]
         /\ runs[r].passed >= 3 =>
              PointerOf(runs[r].pointer, runs[r].commit, r)
         /\ runs[r].passed >= 4 => SealHolds(r)
<1>1. RunHolds(r)
  BY DEF ArchiveHolds
<1>2. runs[r].passed >= 1 => runs[r].commit \in Merged
  BY <1>1, StageValues DEF RunHolds
<1> QED
  BY <1>1, <1>2, VersionValues, StageValues DEF RunHolds

\* The rename gives a version its bundle: it had none, so no record of a sealed
\* run and no tag spoke of one.
LEMMA ArchiveRenamed ==
  ASSUME ArchiveHolds, Types, OperationHolds, RenameBundle
  PROVE  /\ ArchiveHolds' /\ VersionOf(run) \in Versions
         /\ releases' \in [Versions -> Bundle \union {None}]
         /\ releases'[VersionOf(run)] = Unprotected /\ Unprotected # None
         /\ \A v \in Versions \ {VersionOf(run)} : releases'[v] = releases[v]
<1>1. /\ run \in Builds /\ stage = Sealed /\ runs[run].passed = 3
      /\ UNCHANGED <<runs, tags>> /\ releases[VersionOf(run)] = None
  BY StageValues
     DEF RenameBundle, OperationHolds, Holding, Advancing, StepsOf, outside, This
<1>2. /\ runs[run].commit \in Merged
      /\ PointerOf(runs[run].pointer, runs[run].commit, run)
  BY <1>1, PassedFacts
<1>3. VersionOf(run) \in Versions
  BY <1>1, <1>2, VersionValues
<1>4. Unprotected \in Bundle /\ Unprotected # None
  <2>1. runs[run].pointer \in Pointer
    BY <1>2 DEF PointerOf
  <2>2. Unprotected \in Bundle
    BY <1>1, <2>1 DEF Unprotected, This, Bundle
  <2> QED
    BY <2>2, ReleaseAssumption
<1>5. /\ releases' \in [Versions -> Bundle \union {None}]
      /\ releases'[VersionOf(run)] = Unprotected
      /\ \A v \in Versions \ {VersionOf(run)} : releases'[v] = releases[v]
  BY <1>3, <1>4 DEF RenameBundle, Types
<1>6. ASSUME NEW r \in Builds PROVE RunHolds(r)'
  <2>1. RunHolds(r) /\ runs'[r] = runs[r] /\ VersionOf(r)' = VersionOf(r)
    BY <1>1 DEF ArchiveHolds, VersionOf
  <2>2. CASE runs[r].passed >= Sealed
    <3>1. VersionOf(r) # VersionOf(run)
      BY <1>1, <2>1, <2>2 DEF RunHolds, SealHolds
    <3>2. VersionOf(r) \in Versions
      <4>1. runs[r].passed \in 0..Installed
        BY RunFields DEF Types
      <4> QED
        BY <4>1, <2>2, PassedFacts, StageValues
    <3>3. releases'[VersionOf(r)] = releases[VersionOf(r)]
      BY <1>5, <3>1, <3>2
    <3> QED
      BY <2>1, <3>3 DEF RunHolds, SealHolds
  <2>3. CASE ~(runs[r].passed >= Sealed)
    <3>1. runs[r].passed \in 0..Installed
      BY RunFields DEF Types
    <3> QED
      BY <2>1, <2>3, <3>1, StageValues DEF RunHolds
  <2> QED
    BY <2>2, <2>3
<1>7. ASSUME NEW v \in Versions PROVE ReleaseHolds(v)' /\ TagHolds(v)'
  <2>1. ReleaseHolds(v) /\ TagHolds(v)
    BY DEF ArchiveHolds
  <2>2. CASE v = VersionOf(run)
    <3>1. tags[v] = None \/ tags[v].bundle = None
      BY <1>1, <2>1, <2>2 DEF TagHolds
    <3>2. TagHolds(v)'
      BY <1>1, <3>1 DEF TagHolds
    <3>3. releases'[v].run = run /\ releases'[v].pointer = runs[run].pointer
      BY <1>5, <2>2 DEF Unprotected, This
    <3>4. ReleaseHolds(v)'
      BY <1>1, <2>2, <3>3, StageValues DEF ReleaseHolds, VersionOf
    <3> QED
      BY <3>2, <3>4
  <2>3. CASE v # VersionOf(run)
    BY <1>1, <1>5, <2>1, <2>3 DEF ReleaseHolds, TagHolds, VersionOf
  <2> QED
    BY <2>2, <2>3
<1> QED
  BY <1>3, <1>4, <1>5, <1>6, <1>7 DEF ArchiveHolds

\* The protection changes a bundle that no record and no tag speaks of yet, or
\* one that was protected before.
LEMMA ArchiveProtected ==
  ASSUME ArchiveHolds, Types, OperationHolds, Protect
  PROVE  /\ ArchiveHolds' /\ VersionOf(run) \in Versions
         /\ releases' \in [Versions -> Bundle \union {None}]
         /\ releases[VersionOf(run)] # None
         /\ releases[VersionOf(run)].run = run
         /\ releases'[VersionOf(run)]
              = [releases[VersionOf(run)] EXCEPT !.readonly = TRUE]
         /\ releases'[VersionOf(run)] # None
         /\ \A v \in Versions \ {VersionOf(run)} : releases'[v] = releases[v]
<1> DEFINE name == VersionOf(run)
<1>1. /\ run \in Builds /\ stage = Sealed /\ runs[run].passed = 3
      /\ UNCHANGED <<runs, tags>>
      /\ releases[name] # None /\ releases[name].run = run
  BY StageValues DEF Protect, OperationHolds, Holding, Advancing, StepsOf,
                     Recording, outside, This
<1>2. runs[run].commit \in Merged
  BY <1>1, PassedFacts
<1>3. name \in Versions
  BY <1>1, <1>2, VersionValues
<1>4. releases[name] \in Bundle
  BY <1>1, <1>3 DEF Types
<1> DEFINE protected == [releases[name] EXCEPT !.readonly = TRUE]
<1>5. /\ protected \in Bundle /\ protected.run = run /\ protected.readonly
      /\ protected.pointer = releases[name].pointer
      /\ releases[name].readonly => protected = releases[name]
  BY <1>1, <1>4 DEF Bundle
<1>6. protected # None
  BY <1>5, ReleaseAssumption
<1> HIDE DEF name
<1>7. /\ releases' = [releases EXCEPT ![name] = protected]
      /\ releases' \in [Versions -> Bundle \union {None}]
      /\ releases'[name] = protected
      /\ \A v \in Versions \ {name} : releases'[v] = releases[v]
  <2>1. releases' = [releases EXCEPT ![name] = protected]
    BY DEF Protect, name
  <2> HIDE DEF protected
  <2> QED
    BY <1>3, <1>5, <2>1 DEF Types
<1> HIDE DEF protected
<1>8. ASSUME NEW r \in Builds PROVE RunHolds(r)'
  <2>1. RunHolds(r) /\ runs'[r] = runs[r] /\ VersionOf(r)' = VersionOf(r)
    BY <1>1 DEF ArchiveHolds, VersionOf
  <2>2. CASE runs[r].passed >= Sealed
    <3>1. VersionOf(r) \in Versions
      <4>1. runs[r].passed \in 0..Installed
        BY RunFields DEF Types
      <4> QED
        BY <4>1, <2>2, PassedFacts, StageValues
    <3>2. releases[VersionOf(r)].readonly
      BY <2>1, <2>2 DEF RunHolds, SealHolds
    <3>3. releases'[VersionOf(r)] = releases[VersionOf(r)]
      BY <1>5, <1>7, <3>1, <3>2
    <3> QED
      BY <2>1, <3>3 DEF RunHolds, SealHolds
  <2>3. CASE ~(runs[r].passed >= Sealed)
    <3>1. runs[r].passed \in 0..Installed
      BY RunFields DEF Types
    <3> QED
      BY <2>1, <2>3, <3>1, StageValues DEF RunHolds
  <2> QED
    BY <2>2, <2>3
<1>9. ASSUME NEW v \in Versions PROVE ReleaseHolds(v)' /\ TagHolds(v)'
  <2>1. ReleaseHolds(v) /\ TagHolds(v)
    BY DEF ArchiveHolds
  <2>2. CASE v = name
    <3>1. TagHolds(v)'
      BY <1>1, <1>5, <1>7, <2>1, <2>2 DEF TagHolds
    <3>2. ReleaseHolds(v)'
      BY <1>1, <1>5, <1>7, <2>1, <2>2 DEF ReleaseHolds, VersionOf
    <3> QED
      BY <3>1, <3>2
  <2>3. CASE v # name
    BY <1>1, <1>7, <2>1, <2>3 DEF ReleaseHolds, TagHolds, VersionOf
  <2> QED
    BY <2>2, <2>3
<1> QED
  BY <1>1, <1>3, <1>6, <1>7, <1>8, <1>9 DEF ArchiveHolds, name, protected

\* The tag names the bundle that is there, and its commit.
LEMMA ArchiveTagged ==
  ASSUME ArchiveHolds, Types, OperationHolds, CreateTag
  PROVE  /\ ArchiveHolds' /\ VersionOf(run) \in Versions
         /\ tags' \in [Versions -> Tag \union {None}]
         /\ tags'[VersionOf(run)] = NewTag /\ NewTag.bundle.run = run
         /\ \A v \in Versions \ {VersionOf(run)} : tags'[v] = tags[v]
<1>1. /\ run \in Builds /\ runs[run].passed = 4 /\ SealHolds(run)
      /\ UNCHANGED <<runs, releases>>
  BY StageValues DEF CreateTag, OperationHolds, Holding, Advancing, StepsOf,
                     archive, This
<1>2. runs[run].commit \in Merged
  BY <1>1, PassedFacts
<1>3. VersionOf(run) \in Versions /\ runs[run].commit \in Commits
  BY <1>1, <1>2, VersionValues
<1>4. /\ NewTag.commit = runs[run].commit
      /\ NewTag.bundle = releases[VersionOf(run)] /\ NewTag \in Tag
  BY <1>1, <1>3 DEF NewTag, This, Tag, Types, SealHolds
<1>5. /\ tags' \in [Versions -> Tag \union {None}]
      /\ tags'[VersionOf(run)] = NewTag
      /\ \A v \in Versions \ {VersionOf(run)} : tags'[v] = tags[v]
  BY <1>3, <1>4 DEF CreateTag, Types
<1>6. \A r \in Builds : RunHolds(r)'
  BY <1>1 DEF ArchiveHolds, RunHolds, SealHolds, VersionOf
<1>7. ASSUME NEW v \in Versions PROVE ReleaseHolds(v)' /\ TagHolds(v)'
  <2>1. ReleaseHolds(v) /\ TagHolds(v)
    BY DEF ArchiveHolds
  <2>2. ReleaseHolds(v)'
    BY <1>1, <2>1 DEF ReleaseHolds, VersionOf
  <2>3. CASE v = VersionOf(run)
    BY <1>1, <1>4, <1>5, <2>2, <2>3 DEF TagHolds, SealHolds
  <2>4. CASE v # VersionOf(run)
    BY <1>1, <1>5, <2>1, <2>2, <2>4 DEF TagHolds
  <2> QED
    BY <2>3, <2>4
<1> QED
  BY <1>1, <1>3, <1>4, <1>5, <1>6, <1>7 DEF ArchiveHolds, SealHolds

\* Nobody else makes a tag with a bundle.
LEMMA ArchiveOtherTag ==
  ASSUME ArchiveHolds, Types, OtherTag
  PROVE  /\ ArchiveHolds' /\ tags' \in [Versions -> Tag \union {None}]
         /\ \A v \in Versions : tags'[v] \notin {None, tags[v]} =>
              tags'[v].bundle = None
<1>1. UNCHANGED <<runs, releases>> /\ head \in Commits
  BY DEF OtherTag, archive, Types, EvidenceTypeOK
<1>2. PICK v \in Versions :
        \/ /\ tags[v] = None
           /\ tags' = [tags EXCEPT ![v] = [commit |-> head, bundle |-> None]]
        \/ /\ tags[v] # None /\ step = "idle"
           /\ tags' = [tags EXCEPT ![v] = None]
  BY DEF OtherTag
<1>3. [commit |-> head, bundle |-> None] \in Tag
  BY <1>1 DEF Tag
<1>4. /\ tags' \in [Versions -> Tag \union {None}]
      /\ \A w \in Versions \ {v} : tags'[w] = tags[w]
      /\ tags'[v] = None \/ tags'[v].bundle = None
  BY <1>2, <1>3 DEF Types
<1>5. \A r \in Builds : RunHolds(r)'
  BY <1>1 DEF ArchiveHolds, RunHolds, SealHolds, VersionOf
<1>6. ASSUME NEW w \in Versions PROVE ReleaseHolds(w)' /\ TagHolds(w)'
  <2>1. ReleaseHolds(w) /\ TagHolds(w)
    BY DEF ArchiveHolds
  <2>2. ReleaseHolds(w)'
    BY <1>1, <2>1 DEF ReleaseHolds, VersionOf
  <2>3. TagHolds(w)'
    BY <1>1, <1>4, <2>1 DEF TagHolds
  <2> QED
    BY <2>2, <2>3
<1> QED
  BY <1>4, <1>5, <1>6 DEF ArchiveHolds

-----------------------------------------------------------------------------
(* The operation *)

IInv == Types /\ ArchiveHolds /\ OperationHolds

\* The step names of the stages
LEMMA StageSteps ==
  /\ StepsOf(1) = {"build", "recheck"} /\ StepsOf(2) = {"ci"}
  /\ StepsOf(3) = {"validate"} /\ StepsOf(4) = {"bundle", "protect"}
  /\ StepsOf(5) = {"ci", "validate", "tag"} /\ StepsOf(6) = {"observe"}
BY DEF StepsOf, Prepared, CiPassed, Validated, Sealed, Tagged, Installed

\* What an operation knows between its first check and its record
LEMMA RunningFacts ==
  ASSUME IInv, step \notin {"idle", "candidate", "reject", "close"}
  PROVE  /\ run \in Builds /\ stage \in 1..6 /\ runs[run] \in Archived
         /\ runs[run].path /\ ~runs[run].failed /\ runs[run].passed = stage - 1
         /\ step \in StepsOf(stage) \union {"record"}
BY StageValues DEF IInv, OperationHolds, Holding, Advancing, Types, This

\* The checkout and the evidence stay well typed while an operation runs.
LEMMA SourceTypes ==
  ASSUME EvidenceTypeOK, UNCHANGED <<head, tree, gate>>,
         UNCHANGED changes \/ Change
  PROVE  EvidenceTypeOK'
BY EvidenceAssumption DEF EvidenceTypeOK, gate, Change

\* An operation that ends leaves nothing to hold.
LEMMA IdleHolds ==
  ASSUME Idle
  PROVE  OperationHolds'
BY DEF Idle, OperationHolds, Idling, Holding, Advancing, Closing, MovedAway,
       Recording

\* One that is rejected has its run to mark, and nothing else.
LEMMA RejectingHolds ==
  ASSUME OperationHolds, step # "idle", Goto("reject")
  PROVE  OperationHolds'
BY DEF Goto, OperationHolds, Idling, Holding, Advancing, Closing, MovedAway,
       Recording

\* The steps that leave archive, tags and sources alone
Quiet ==
  \/ \E r \in Builds, s \in Stages : Begin(r, s)
  \/ Recheck \/ Proceed \/ Refuse \/ RecheckCandidate \/ Ci \/ ValidateStep
  \/ AdoptBundle \/ AdoptTag \/ Observe \/ Fail \/ Kill

\* They leave the archive and the types of the sources as they are,
LEMMA QuietArchive ==
  ASSUME IInv, Quiet
  PROVE  /\ UNCHANGED <<head, tree, gate, runs, releases, tags, ci>>
         /\ EvidenceTypeOK' /\ ArchiveHolds'
<1>1. /\ UNCHANGED <<head, tree, gate, runs, releases, tags, ci>>
      /\ UNCHANGED changes \/ Change
  BY DEF Quiet, Begin, Recheck, Proceed, Refuse, RecheckCandidate, Ci,
         ValidateStep, AdoptBundle, AdoptTag, Observe, Fail, Kill, Else,
         archive, outside, sources
<1>2. ArchiveHolds'
  BY <1>1, ArchiveUntouched DEF IInv
<1>3. EvidenceTypeOK'
  BY <1>1, SourceTypes DEF IInv, Types
<1> QED
  BY <1>1, <1>2, <1>3

\* keep all types
LEMMA QuietTypes ==
  ASSUME IInv, Quiet
  PROVE  Types'
<1>1. /\ UNCHANGED <<runs, releases, tags, ci>> /\ EvidenceTypeOK'
  BY QuietArchive
<1> SUFFICES /\ stage' \in Stages \union {0} /\ run' \in Builds \union {None}
             /\ step' \in Steps /\ moved' \in BOOLEAN
             /\ seen' \in Commits \union {None}
             /\ found' \in Pointer \union {None}
  BY <1>1 DEF IInv, Types
<1>2. ASSUME NEW r \in Builds, NEW s \in Stages, Begin(r, s)
      PROVE  /\ stage' \in Stages \union {0} /\ run' \in Builds \union {None}
             /\ step' \in Steps /\ UNCHANGED <<moved, seen, found>>
  BY <1>2 DEF Begin, Steps
<1>3. ASSUME NEW next \in Steps, Goto(next)
      PROVE  UNCHANGED <<stage, run, moved, seen, found>> /\ step' \in Steps
  BY <1>3 DEF Goto
<1>4. CASE Idle
  BY <1>4 DEF Idle, Steps
<1>5. CASE Refuse \/ RecheckCandidate \/ Ci \/ AdoptBundle \/ AdoptTag
           \/ Observe \/ Fail
  <2>1. \E next \in Steps : Goto(next)
    BY <1>5 DEF Refuse, RecheckCandidate, Ci, AdoptBundle, AdoptTag, Observe,
                Fail, If, Steps
  <2> QED
    BY <1>3, <2>1 DEF IInv, Types
<1>6. CASE Proceed
  <2>1. stage \in 2..6
    BY <1>6, StageValues DEF IInv, OperationHolds, Holding, Proceed
  <2>2. FirstStep(stage) \in Steps
    BY <2>1, StageValues DEF FirstStep, Steps
  <2> QED
    BY <1>3, <1>6, <2>2 DEF IInv, Types, Proceed
<1>7. CASE ValidateStep
  <2>1. manifest # None /\ Validate(run) => manifest \in Manifest
    BY DEF IInv, Types, EvidenceTypeOK
  <2>2. found' \in Pointer \union {None}
    BY <1>7, <2>1 DEF ValidateStep, IInv, Types, EvidenceTypeOK, Pointer,
                      Validate
  <2> QED
    BY <1>7, <2>2 DEF ValidateStep, IInv, Types, Steps
<1> QED
  BY <1>2, <1>4, <1>5, <1>6, <1>7 DEF Quiet, Recheck, Kill, IInv, Types

\* A validation that passes is of the run's commit and build.
LEMMA ValidPointer ==
  ASSUME IInv, Validate(run)
  PROVE  PointerOf([manifest |-> manifest, matrix |-> matrix], This.commit, run)
<1>1. manifest \in Manifest /\ matrix \in Matrix
  BY DEF IInv, Types, EvidenceTypeOK, Validate
<1>2. ASSUME NEW s \in Scenarios
      PROVE  matrix.rows[s] = [evidence |-> This.commit, invalidatedBy |-> {}]
  <2>1. Covers(manifest, s) /\ manifest.matrix = matrix
    BY DEF Validate, GateAccepts
  <2>2. matrix.rows[s] \in Row
    BY <1>1 DEF Matrix
  <2> QED
    BY <2>1, <2>2 DEF Covers, Row, Validate, This
<1> QED
  BY <1>1, <1>2 DEF PointerOf, Pointer, Validate, This

\* and establish what the next step needs.
LEMMA QuietHolds ==
  ASSUME IInv, Quiet
  PROVE  OperationHolds'
<1>1. UNCHANGED <<head, tree, runs, releases, tags>>
  BY QuietArchive
<1>2. ASSUME NEW r \in Builds, NEW s \in Stages, Begin(r, s)
      PROVE  OperationHolds'
  BY <1>2 DEF IInv, Begin, OperationHolds, Idling, Holding, Advancing, Closing,
              MovedAway, Recording
<1>3. CASE Recheck \/ Kill
  BY <1>3, IdleHolds DEF Recheck, Kill
<1>4. CASE Goto("reject") /\ step # "idle"
  BY <1>4, RejectingHolds DEF IInv
<1>5. CASE Proceed
  <2>1. /\ run \in Builds /\ stage \in 2..6 /\ step' = FirstStep(stage)
        /\ UNCHANGED <<stage, run, seen, found, moved>>
        /\ runs[run].passed = stage - 1 /\ ~runs[run].failed /\ ~moved
    BY <1>5, StageValues DEF Proceed, IInv, OperationHolds, Holding, Goto, This,
                             Records, MovedAway
  <2>2. runs[run].path
    <3>1. RunHolds(run)
      BY <2>1 DEF IInv, ArchiveHolds
    <3> QED
      BY <2>1, <3>1 DEF RunHolds
  <2>3. step' \in StepsOf(stage) \ {"build", "recheck", "protect", "tag"}
    BY <2>1, StageValues, StageSteps DEF FirstStep
  <2>4. step' \notin {"idle", "candidate", "reject", "close", "record"}
    BY <2>1, <2>3, StageSteps
  <2> QED
    BY <1>1, <2>1, <2>2, <2>3, <2>4, StageValues
       DEF OperationHolds, Idling, Holding, Advancing, Closing, MovedAway,
           Recording, This
<1> DEFINE onward ==
      /\ UNCHANGED <<stage, run, seen, moved>>
      /\ run \in Builds /\ stage \in 1..6 /\ runs[run].path
      /\ ~runs[run].failed /\ runs[run].passed = stage - 1
      /\ stage = 1 => seen \in Merged
<1>6. CASE RecheckCandidate /\ step' = "record"
  <2>1. onward /\ stage = 1 /\ CandidateIs(seen) /\ step = "recheck"
    BY <1>6, RunningFacts, StageSteps, StageValues
       DEF RecheckCandidate, IInv, OperationHolds, Advancing, If, Goto
  <2>2. ~moved /\ runs[run].payload = Content[seen]
    BY <2>1 DEF IInv, OperationHolds, MovedAway, This
  <2> QED
    BY <1>1, <1>6, <2>1, <2>2, StageValues
       DEF OperationHolds, Idling, Holding, Advancing, Closing, MovedAway,
           Recording, This
<1>7. CASE Ci /\ step' # "reject"
  <2>1. onward /\ step = "ci" /\ ~moved
    BY <1>7, RunningFacts, StageValues
       DEF Ci, IInv, OperationHolds, Advancing, MovedAway, If, Goto
  <2>2. stage \in {2, 5}
    BY <2>1, RunningFacts, StageSteps
  <2>3. step' = IF stage = 5 THEN "validate" ELSE "record"
    BY <1>7, StageValues DEF Ci, If, Goto
  <2> QED
    BY <1>1, <2>1, <2>2, <2>3, StageValues, StageSteps
       DEF OperationHolds, Idling, Holding, Advancing, Closing, MovedAway,
           Recording, This
<1>8. CASE ValidateStep /\ step' # "reject"
  <2>1. onward /\ step = "validate" /\ ~moved
    BY <1>8, RunningFacts, StageValues
       DEF ValidateStep, IInv, OperationHolds, Advancing, MovedAway
  <2>2. stage \in {3, 5}
    BY <2>1, RunningFacts, StageSteps
  <2>3. /\ step' = IF stage = 5 THEN "tag" ELSE "record"
        /\ stage = 3 => /\ Validate(run)
                        /\ found' = [manifest |-> manifest, matrix |-> matrix]
    BY <1>8, <2>2, StageValues DEF ValidateStep
  <2>4. stage = 3 => PointerOf(found', This.commit, run)
    BY <2>3, ValidPointer
  <2>5. stage = 3 => PointerOf(found, This.commit, run)'
    BY <1>1, <2>1, <2>4 DEF PointerOf, This
  <2> QED
    BY <1>1, <2>1, <2>2, <2>3, <2>5, StageValues, StageSteps
       DEF OperationHolds, Idling, Holding, Advancing, Closing, MovedAway,
           Recording, This
<1>9. CASE AdoptBundle /\ step' # "reject"
  <2>1. onward /\ step = "bundle" /\ ~moved /\ step' = "protect"
    BY <1>9, RunningFacts, StageValues
       DEF AdoptBundle, IInv, OperationHolds, Advancing, MovedAway, If, Goto
  <2>2. stage = 4
    BY <2>1, RunningFacts, StageSteps
  <2>3. runs[run].commit \in Merged /\ VersionOf(run) \in Versions
    BY <2>1, <2>2, PassedFacts DEF IInv
  <2>4. /\ releases[VersionOf(run)] # None
        /\ [releases[VersionOf(run)] EXCEPT !.readonly = FALSE] = Unprotected
    BY <1>9, <2>1 DEF AdoptBundle, If, Goto
  <2>5. releases[VersionOf(run)] \in Bundle
    BY <2>3, <2>4 DEF IInv, Types
  <2>6. releases[VersionOf(run)].run = run
    BY <2>4, <2>5 DEF Bundle, Unprotected
  <2>7. VersionOf(run)' = VersionOf(run)
    BY <1>1, <2>1 DEF VersionOf
  <2> QED
    BY <1>1, <2>1, <2>2, <2>4, <2>6, <2>7, StageValues, StageSteps
       DEF OperationHolds, Idling, Holding, Advancing, Closing, MovedAway,
           Recording, This
<1>10. CASE AdoptTag /\ step' # "reject"
  <2>1. onward /\ step = "tag" /\ ~moved /\ step' = "record"
    BY <1>10, RunningFacts, StageValues
       DEF AdoptTag, IInv, OperationHolds, Advancing, MovedAway, If, Goto
  <2>2. stage = 5
    BY <2>1, RunningFacts, StageSteps
  <2>3. tags[VersionOf(run)] = NewTag
    BY <1>10, <2>1 DEF AdoptTag, If, Goto
  <2>4. VersionOf(run)' = VersionOf(run) /\ NewTag' = NewTag
    BY <1>1, <2>1 DEF VersionOf, NewTag, This
  <2> QED
    BY <1>1, <2>1, <2>2, <2>3, <2>4, StageValues, StageSteps
       DEF OperationHolds, Idling, Holding, Advancing, Closing, MovedAway,
           Recording, This
<1>11. CASE Observe /\ step' # "reject"
  <2>1. onward /\ step = "observe" /\ ~moved /\ step' = "record"
    BY <1>11, RunningFacts, StageValues
       DEF Observe, IInv, OperationHolds, Advancing, MovedAway, If, Goto
  <2>2. stage = 6
    BY <2>1, RunningFacts, StageSteps
  <2> QED
    BY <1>1, <2>1, <2>2, StageValues, StageSteps
       DEF OperationHolds, Idling, Holding, Advancing, Closing, MovedAway,
           Recording, This
<1>12. ASSUME \/ Refuse \/ Fail
              \/ /\ RecheckCandidate \/ Ci \/ AdoptBundle \/ AdoptTag \/ Observe
                 /\ step' = "reject"
       PROVE  Goto("reject") /\ step # "idle"
  BY <1>12 DEF Refuse, Fail, RecheckCandidate, Ci, AdoptBundle, AdoptTag,
               Observe, If, Goto
<1>13. CASE ValidateStep /\ step' = "reject"
  <2>1. /\ UNCHANGED <<stage, run, seen, moved>> /\ step = "validate"
        /\ run \in Builds /\ stage \in Stages /\ ~moved
    BY <1>13 DEF ValidateStep, IInv, OperationHolds, Holding, MovedAway
  <2> QED
    BY <1>13, <2>1 DEF OperationHolds, Idling, Holding, Advancing, Closing,
                       MovedAway, Recording
<1>14. RecheckCandidate => step' \in {"record", "reject"}
  BY DEF RecheckCandidate, If, Goto
<1> QED
  BY <1>2, <1>3, <1>4, <1>5, <1>6, <1>7, <1>8, <1>9, <1>10, <1>11, <1>12,
     <1>13, <1>14 DEF Quiet

\* The steps that write to the archive or make a tag
Writing == NewCandidate \/ Build \/ Record \/ Close \/ Reject
           \/ RenameBundle \/ Protect \/ CreateTag

\* They keep the types,
LEMMA WritingTypes ==
  ASSUME IInv, Writing
  PROVE  Types'
<1>1. EvidenceTypeOK'
  <2>1. UNCHANGED sources
    BY DEF Writing, NewCandidate, Build, Record, Close, Reject, RenameBundle,
           Protect, CreateTag
  <2> QED
    BY <2>1, SourceTypes DEF IInv, Types, sources
<1>2. /\ runs' \in [Builds -> Archived]
      /\ releases' \in [Versions -> Bundle \union {None}]
      /\ tags' \in [Versions -> Tag \union {None}]
  <2>1. CASE NewCandidate
    BY <2>1, NewCandidateEffect DEF IInv, OperationHolds, OnlyRun, Types,
                                    NewCandidate, outside
  <2>2. CASE Build
    BY <2>2, BuildEffect DEF IInv, OperationHolds, OnlyRun, Types, Build, outside
  <2>3. CASE Record
    BY <2>3, RecordEffect DEF IInv, OperationHolds, OnlyRun, Types, Record,
                              outside
  <2>4. CASE Close
    BY <2>4, CloseEffect DEF IInv, OperationHolds, OnlyRun, Types, Close, outside
  <2>5. CASE Reject
    BY <2>5, RejectEffect DEF IInv, OperationHolds, OnlyRun, Types, Reject,
                              outside
  <2>6. CASE RenameBundle
    BY <2>6, ArchiveRenamed DEF IInv, Types, RenameBundle, outside
  <2>7. CASE Protect
    BY <2>7, ArchiveProtected DEF IInv, Types, Protect, outside
  <2>8. CASE CreateTag
    BY <2>8, ArchiveTagged DEF IInv, Types, CreateTag, archive
  <2> QED
    BY <2>1, <2>2, <2>3, <2>4, <2>5, <2>6, <2>7, <2>8 DEF Writing
<1>3. /\ ci' = ci
      /\ stage' \in Stages \union {0} /\ run' \in Builds \union {None}
      /\ step' \in Steps /\ moved' \in BOOLEAN
      /\ seen' \in Commits \union {None} /\ found' \in Pointer \union {None}
  <2>1. CASE Close \/ Reject
    BY <2>1 DEF Close, Reject, Idle, Steps, outside
  <2>2. CASE NewCandidate
    BY <2>2 DEF NewCandidate, IInv, Types, EvidenceTypeOK, Steps, outside
  <2>3. CASE Build \/ Record \/ RenameBundle \/ Protect \/ CreateTag
    BY <2>3 DEF Build, Record, RenameBundle, Protect, CreateTag, Goto, IInv,
                Types, Steps, outside
  <2> QED
    BY <2>1, <2>2, <2>3 DEF Writing
<1> QED
  BY <1>1, <1>2, <1>3 DEF IInv, Types

\* what the archive says,
LEMMA WritingArchive ==
  ASSUME IInv, Writing
  PROVE  ArchiveHolds'
<1> DEFINE this == runs[run]
<1>1. CASE NewCandidate
  <2>1. run \in Builds /\ this \in Archived /\ UNCHANGED <<releases, tags>>
    BY <1>1 DEF IInv, Types, OperationHolds, Holding, NewCandidate, outside
  <2>2. OnlyRun([this EXCEPT !.path = TRUE])
    BY <1>1, NewCandidateEffect DEF IInv, OperationHolds
  <2>3. [this EXCEPT !.path = TRUE] \in Archived
    BY <2>1 DEF Archived
  <2> QED
    BY <2>1, <2>2, <2>3, RunTouched DEF IInv, Archived
<1>2. CASE Build
  <2>1. /\ run \in Builds /\ this \in Archived /\ UNCHANGED <<releases, tags>>
        /\ step = "build" /\ this.path
    BY <1>2, RunningFacts DEF Build, outside
  <2>2. this.passed = 0
    BY <2>1, RunningFacts, StageSteps
  <2>3. OnlyRun([this EXCEPT !.payload = tree])
    BY <1>2, BuildEffect DEF IInv, OperationHolds
  <2>4. [this EXCEPT !.payload = tree] \in Archived
    BY <2>1 DEF Archived, IInv, Types, EvidenceTypeOK
  <2> QED
    BY <2>1, <2>2, <2>3, <2>4, RunTouched DEF IInv, Archived
<1>3. CASE Record
  BY <1>3, ArchiveRecorded DEF IInv
<1>4. CASE Close
  <2>1. /\ run \in Builds /\ this \in Archived /\ UNCHANGED <<releases, tags>>
        /\ this.path
    BY <1>4 DEF IInv, Types, OperationHolds, Holding, Close, outside, Closing,
                This
  <2>2. OnlyRun([this EXCEPT !.open = FALSE])
    BY <1>4, CloseEffect DEF IInv, OperationHolds
  <2>3. [this EXCEPT !.open = FALSE] \in Archived
    BY <2>1 DEF Archived
  <2> QED
    BY <2>1, <2>2, <2>3, RunTouched DEF IInv, Archived
<1>5. CASE Reject
  <2> DEFINE next == [this EXCEPT !.failed = @ \/ this.path]
  <2>1. run \in Builds /\ this \in Archived /\ UNCHANGED <<releases, tags>>
    BY <1>5 DEF IInv, Types, OperationHolds, Holding, Reject, outside
  <2>2. OnlyRun(next)
    BY <1>5, RejectEffect DEF IInv, OperationHolds
  <2>3. (this.failed \/ this.path) \in BOOLEAN
    BY <2>1, RunFields
  <2>4. next \in Archived
    BY <2>1, <2>3 DEF Archived
  <2>5. /\ next.passed = this.passed /\ next.commit = this.commit
        /\ next.pointer = this.pointer /\ next.tag = this.tag
        /\ next.payload = this.payload /\ next.path = this.path
        /\ next.failed = (this.failed \/ this.path)
    BY <2>1 DEF Archived
  <2>6. this.failed \/ this.passed > 0 => this.path
    BY <2>1 DEF IInv, ArchiveHolds, RunHolds
  <2>7. next.failed \/ next.passed > 0 => next.path
    BY <2>5, <2>6
  <2> HIDE DEF next
  <2> QED
    BY <2>1, <2>2, <2>4, <2>5, <2>7, RunTouched DEF IInv
<1>6. CASE RenameBundle
  BY <1>6, ArchiveRenamed DEF IInv
<1>7. CASE Protect
  BY <1>7, ArchiveProtected DEF IInv
<1>8. CASE CreateTag
  BY <1>8, ArchiveTagged DEF IInv
<1> QED
  BY <1>1, <1>2, <1>3, <1>4, <1>5, <1>6, <1>7, <1>8 DEF Writing

\* and establish what the next step needs.
LEMMA WritingHolds ==
  ASSUME IInv, Writing
  PROVE  OperationHolds'
<1> USE DEF This
<1>1. CASE NewCandidate
  <2>1. /\ run \in Builds /\ runs[run] \in Archived /\ stage = 1
        /\ ~runs[run].path /\ ~moved /\ Clean /\ head \in Merged
        /\ UNCHANGED <<run, stage, moved, tree, head>>
        /\ seen' = head /\ step' = "build"
    BY <1>1, StageValues DEF IInv, Types, OperationHolds, Holding, MovedAway,
                             NewCandidate, sources
  <2>2. OnlyRun([runs[run] EXCEPT !.path = TRUE])
    BY <1>1, NewCandidateEffect DEF IInv, OperationHolds
  <2>3. runs[run].passed = 0 /\ ~runs[run].failed
    <3>1. RunHolds(run) /\ runs[run].passed \in 0..6
      BY <2>1, RunFields, StageValues DEF IInv, ArchiveHolds
    <3> QED
      BY <2>1, <3>1 DEF RunHolds
  <2>4. runs'[run].path /\ runs'[run].passed = 0 /\ ~runs'[run].failed
    BY <2>1, <2>2, <2>3 DEF OnlyRun, Archived
  <2>5. CandidateIs(seen)'
    BY <2>1 DEF CandidateIs, Clean
  <2> QED
    BY <2>1, <2>4, <2>5, StageValues, StageSteps
       DEF OperationHolds, Idling, Holding, Advancing, Closing, MovedAway,
           Recording
<1>2. CASE Build
  <2>1. /\ run \in Builds /\ runs[run] \in Archived
        /\ step = "build" /\ runs[run].path /\ ~runs[run].failed
    BY <1>2, RunningFacts DEF Build
  <2>2. stage = 1 /\ runs[run].passed = 0 /\ seen \in Merged
    BY <2>1, RunningFacts, StageSteps, StageValues
       DEF IInv, OperationHolds, Advancing
  <2>3. OnlyRun([runs[run] EXCEPT !.payload = tree])
    BY <1>2, BuildEffect DEF IInv, OperationHolds
  <2>4. /\ runs'[run].path /\ runs'[run].passed = 0 /\ ~runs'[run].failed
        /\ runs'[run].payload = tree
    BY <2>1, <2>2, <2>3 DEF OnlyRun, Archived
  <2>5. /\ UNCHANGED <<run, stage, seen, moved, head, tree>>
        /\ step' = "recheck"
    BY <1>2 DEF Build, Goto, sources
  <2>6. /\ ~moved => CandidateIs(seen) /\ tree = Content[seen]
        /\ moved => ~CandidateIs(seen)
    BY <2>1 DEF IInv, OperationHolds, MovedAway, CandidateIs, Clean
  <2>7. CandidateIs(seen)' = CandidateIs(seen)
    BY <2>5 DEF CandidateIs, Clean
  <2> QED
    BY <2>1, <2>2, <2>4, <2>5, <2>6, <2>7, StageValues, StageSteps
       DEF OperationHolds, Idling, Holding, Advancing, Closing, MovedAway,
           Recording
<1>3. CASE Record
  <2>1. /\ run \in Builds /\ stage \in Stages /\ OnlyRun(NewRecord)
        /\ runs[run] \in Archived
    BY <1>3, RecordEffect DEF IInv, OperationHolds, Types
  <2>2. runs[run].path /\ ~runs[run].failed /\ ~moved
    BY <1>3 DEF IInv, OperationHolds, Advancing, MovedAway, Record
  <2>3. runs'[run].path /\ ~runs'[run].failed
    BY <2>1, <2>2 DEF OnlyRun, NewRecord, Archived
  <2>4. /\ UNCHANGED <<run, stage, seen, moved>> /\ step' = "close"
    BY <1>3 DEF Record, Goto
  <2> QED
    BY <2>1, <2>2, <2>3, <2>4
       DEF OperationHolds, Idling, Holding, Advancing, Closing, MovedAway,
           Recording
<1>4. CASE Close \/ Reject
  BY <1>4, IdleHolds DEF Close, Reject
<1> DEFINE onward ==
      /\ UNCHANGED <<stage, run, seen, moved, runs>> /\ ~moved
      /\ run \in Builds /\ stage \in 1..6 /\ runs[run].path
      /\ ~runs[run].failed /\ runs[run].passed = stage - 1
<1>5. CASE RenameBundle
  <2>1. onward /\ step' = "protect" /\ step = "bundle"
    BY <1>5, RunningFacts
       DEF RenameBundle, IInv, OperationHolds, MovedAway, Goto
  <2>2. stage = 4
    BY <2>1, RunningFacts, StageSteps
  <2>3. VersionOf(run)' = VersionOf(run)
    BY <2>1 DEF VersionOf
  <2>4. /\ releases'[VersionOf(run)] # None
        /\ releases'[VersionOf(run)].run = run
    BY <1>5, ArchiveRenamed DEF IInv, Unprotected
  <2> QED
    BY <2>1, <2>2, <2>3, <2>4, StageValues, StageSteps
       DEF OperationHolds, Idling, Holding, Advancing, Closing, MovedAway,
           Recording
<1>6. CASE Protect
  <2>1. onward /\ step' = "record" /\ step = "protect"
    BY <1>6, RunningFacts DEF Protect, IInv, OperationHolds, MovedAway, Goto
  <2>2. stage = 4
    BY <2>1, RunningFacts, StageSteps
  <2>3. VersionOf(run)' = VersionOf(run)
    BY <2>1 DEF VersionOf
  <2>4. /\ releases'[VersionOf(run)] # None
        /\ releases'[VersionOf(run)].run = run
        /\ releases'[VersionOf(run)].readonly
    <3>1. releases[VersionOf(run)] \in Bundle
      BY <1>6, ArchiveProtected DEF IInv, Types
    <3> QED
      BY <1>6, <3>1, ArchiveProtected DEF IInv, Bundle
  <2> QED
    BY <2>1, <2>2, <2>3, <2>4, StageValues, StageSteps
       DEF OperationHolds, Idling, Holding, Advancing, Closing, MovedAway,
           Recording
<1>7. CASE CreateTag
  <2>1. onward /\ step' = "record" /\ step = "tag"
    BY <1>7, RunningFacts
       DEF CreateTag, IInv, OperationHolds, MovedAway, Goto, archive
  <2>2. stage = 5
    BY <2>1, RunningFacts, StageSteps
  <2>3. VersionOf(run)' = VersionOf(run) /\ NewTag' = NewTag
    BY <1>7, <2>1 DEF VersionOf, NewTag, CreateTag, archive
  <2>4. tags'[VersionOf(run)] = NewTag
    BY <1>7, ArchiveTagged DEF IInv
  <2> QED
    BY <2>1, <2>2, <2>3, <2>4, StageValues, StageSteps
       DEF OperationHolds, Idling, Holding, Advancing, Closing, MovedAway,
           Recording
<1> QED
  BY <1>1, <1>2, <1>3, <1>4, <1>5, <1>6, <1>7 DEF Writing

\* What the others do to checkout, evidence, checks and tags
LEMMA OthersHold ==
  ASSUME IInv, MoveTree \/ ChangeEvidence \/ HostedChecks \/ OtherTag
  PROVE  Types' /\ ArchiveHolds' /\ OperationHolds'
<1>1. CASE MoveTree
  <2>1. /\ UNCHANGED <<stage, run, step, seen, found, archive, outside>>
        /\ (Edit \/ Checkout) /\ EvidenceTypeOK'
        /\ (Preparing => ~moved) /\ moved' = Preparing
    BY <1>1, EvidenceTypeStep DEF MoveTree, IInv, Types
  <2>2. Types'
    BY <2>1 DEF IInv, Types, archive, outside, Preparing
  <2>3. ArchiveHolds'
    BY <2>1, ArchiveUntouched DEF IInv, archive, outside
  <2>4. CandidateIs(seen) => ~CandidateIs(seen)'
    <3>1. CASE Edit
      BY <2>1, <3>1 DEF Edit, CandidateIs, Clean
    <3>2. CASE Checkout
      BY <2>1, <3>2 DEF Checkout, CandidateIs
    <3> QED
      BY <2>1, <3>1, <3>2
  <2>5. MovedAway'
    <3>1. CASE Preparing
      <4>1. /\ step' = step /\ step \in {"build", "recheck"} /\ moved' /\ ~moved
            /\ seen' = seen
        BY <2>1, <3>1 DEF Preparing
      <4>2. ~CandidateIs(seen)'
        BY <2>4, <4>1 DEF IInv, OperationHolds, MovedAway
      <4> QED
        BY <4>1, <4>2 DEF MovedAway
    <3>2. CASE ~Preparing
      <4>1. step \notin {"build", "recheck"} /\ ~moved'
        <5>1. step \in {"build", "recheck"} => stage = 1
          BY RunningFacts, StageSteps
        <5> QED
          BY <2>1, <3>2, <5>1, StageValues DEF Preparing
      <4> QED
        BY <2>1, <4>1 DEF IInv, OperationHolds, MovedAway, This, archive
    <3> QED
      BY <3>1, <3>2
  <2>6. VersionOf(run)' = VersionOf(run) /\ NewTag' = NewTag
    BY <2>1 DEF VersionOf, NewTag, This, archive
  <2>7. PointerOf(found, This.commit, run)' <=> PointerOf(found, This.commit, run)
    BY <2>1 DEF PointerOf, This, archive
  <2>8. Idling' /\ Holding' /\ Advancing' /\ Closing' /\ Recording'
    BY <2>1, <2>6, <2>7
       DEF IInv, OperationHolds, Idling, Holding, Advancing, Closing, Recording,
           This, archive, outside
  <2> QED
    BY <2>2, <2>3, <2>5, <2>8 DEF OperationHolds
<1>2. CASE ChangeEvidence \/ HostedChecks
  <2>1. /\ UNCHANGED <<runs, releases, tags, operation, head, tree>>
        /\ EvidenceTypeOK' /\ ci' \subseteq Merged
    <3>1. CASE ChangeEvidence
      BY <3>1, EvidenceTypeStep
         DEF ChangeEvidence, Evidence, Refresh, Exercise, MarkVerified, Seal,
             Spoil, IInv, Types, archive, outside
    <3>2. CASE HostedChecks
      <4>1. EvidenceTypeOK'
        BY <3>2, SourceTypes DEF HostedChecks, IInv, Types
      <4> QED
        BY <3>2, <4>1 DEF HostedChecks, IInv, Types, archive
    <3> QED
      BY <1>2, <3>1, <3>2
  <2>2. Types'
    BY <2>1 DEF IInv, Types, operation
  <2>3. ArchiveHolds'
    BY <2>1, ArchiveUntouched DEF IInv
  <2>4. OperationHolds'
    BY <2>1 DEF IInv, OperationHolds, Idling, Holding, Advancing, Closing,
                MovedAway, Recording, This, operation, VersionOf, NewTag,
                CandidateIs, Clean, PointerOf
  <2> QED
    BY <2>2, <2>3, <2>4
<1>3. CASE OtherTag
  <2>1. /\ UNCHANGED <<head, tree, gate, runs, releases, ci, operation>>
        /\ EvidenceTypeOK'
    BY <1>3, SourceTypes DEF OtherTag, IInv, Types, archive
  <2>2. /\ ArchiveHolds' /\ tags' \in [Versions -> Tag \union {None}]
    BY <1>3, ArchiveOtherTag DEF IInv
  <2>3. Types'
    BY <2>1, <2>2 DEF IInv, Types, operation
  <2>4. step = "record" /\ stage = Tagged =>
          tags'[VersionOf(run)] = tags[VersionOf(run)]
    <3>1. ASSUME step = "record", stage = Tagged
          PROVE  tags[VersionOf(run)] # None /\ VersionOf(run) \in Versions
      <4>1. /\ run \in Builds /\ runs[run].passed = 4
            /\ tags[VersionOf(run)] = NewTag
        BY <3>1, RunningFacts, StageValues DEF IInv, OperationHolds, Recording
      <4>2. /\ VersionOf(run) \in Versions /\ SealHolds(run)
            /\ runs[run].commit \in Commits
        BY <4>1, PassedFacts DEF IInv
      <4>3. NewTag \in Tag
        BY <4>2 DEF NewTag, This, Tag, SealHolds, IInv, Types
      <4> QED
        BY <4>1, <4>2, <4>3, ReleaseAssumption
    <3> QED
      BY <1>3, <3>1 DEF OtherTag, IInv, Types
  <2>5. OperationHolds'
    BY <2>1, <2>4 DEF IInv, OperationHolds, Idling, Holding, Advancing, Closing,
                MovedAway, Recording, This, operation, VersionOf, NewTag,
                CandidateIs, Clean, PointerOf
  <2> QED
    BY <2>2, <2>3, <2>5
<1> QED
  BY <1>1, <1>2, <1>3

-----------------------------------------------------------------------------
(* The invariant *)

\* What the records leave is there: TypeOK says it, and the invariant too.
LEMMA InvariantIsTyped == IInv => TypeOK
<1> SUFFICES ASSUME IInv, NEW r \in Builds PROVE Recorded(runs[r])
  BY DEF IInv, Types, TypeOK
<1>1. RunHolds(r) /\ runs[r] \in Archived
  BY DEF IInv, ArchiveHolds, Types
<1>2. runs[r].passed >= 1 => runs[r].commit \in Commits
  BY PassedFacts DEF IInv
<1>3. runs[r].passed >= 3 => runs[r].pointer \in Pointer
  BY PassedFacts DEF IInv, PointerOf
<1>4. runs[r].passed >= 5 => runs[r].tag \in Tag
  <2>1. ASSUME runs[r].passed >= 5
        PROVE  /\ SealHolds(r) /\ VersionOf(r) \in Versions
               /\ runs[r].tag = [commit |-> runs[r].commit,
                                 bundle |-> releases[VersionOf(r)]]
    <3>1. runs[r].passed \in 0..6
      BY <1>1, RunFields, StageValues
    <3> QED
      BY <1>1, <2>1, <3>1, PassedFacts, StageValues DEF IInv, RunHolds
  <2>2. runs[r].passed >= 5 => runs[r].passed >= 1
    BY <1>1, RunFields, StageValues
  <2> QED
    BY <1>2, <2>1, <2>2 DEF Tag, SealHolds, IInv, Types
<1> QED
  BY <1>2, <1>3, <1>4, EvidenceAssumption, ReleaseAssumption, StageValues
     DEF Recorded

\* Nothing has been released yet.
LEMMA Initially == Init => IInv
<1> SUFFICES ASSUME Init PROVE IInv
  OBVIOUS
<1>1. EvidenceTypeOK
  <2>1. tree \in [Scopes -> Values] /\ head \in Commits
    BY ContentValues DEF Init, EvidenceInit
  <2>2. Unmarked \in Row
    BY DEF Unmarked, Row
  <2>3. matrix \in Matrix
    BY <2>1, <2>2 DEF Init, EvidenceInit, Matrix
  <2> QED
    BY <2>1, <2>3, EvidenceAssumption DEF Init, EvidenceInit, EvidenceTypeOK
<1>2. NoRun \in Archived
  BY StageValues DEF NoRun, Archived
<1>3. Types
  BY <1>1, <1>2 DEF Init, Types, Steps
<1>4. ArchiveHolds
  BY StageValues
     DEF Init, ArchiveHolds, RunHolds, ReleaseHolds, TagHolds, NoRun
<1>5. OperationHolds
  BY DEF Init, OperationHolds, Idling, Holding, Advancing, Closing, MovedAway,
         Recording
<1> QED
  BY <1>3, <1>4, <1>5 DEF IInv

\* One step of anybody
LEMMA Inductive == IInv /\ [Next]_vars => IInv'
<1> SUFFICES ASSUME IInv, [Next]_vars PROVE IInv'
  OBVIOUS
<1>1. CASE Quiet
  BY <1>1, QuietTypes, QuietArchive, QuietHolds DEF IInv
<1>2. CASE Writing
  BY <1>2, WritingTypes, WritingArchive, WritingHolds DEF IInv
<1>3. CASE MoveTree \/ ChangeEvidence \/ HostedChecks \/ OtherTag
  BY <1>3, OthersHold DEF IInv
<1>4. CASE UNCHANGED vars
  <2>1. UNCHANGED <<head, tree, matrix, evidence, manifest, expired, changes,
                    runs, releases, tags, ci, stage, run, step, seen, found,
                    moved>>
    BY <1>4 DEF vars, sources, gate, archive, outside, operation
  <2>2. Types'
    BY <2>1 DEF IInv, Types, EvidenceTypeOK
  <2>3. ArchiveHolds'
    BY <2>1, ArchiveUntouched DEF IInv
  <2>4. OperationHolds'
    BY <2>1 DEF IInv, OperationHolds, Idling, Holding, Advancing, Closing,
                MovedAway, Recording, This, VersionOf, NewTag, CandidateIs,
                Clean, PointerOf
  <2> QED
    BY <2>2, <2>3, <2>4 DEF IInv
<1> QED
  BY <1>1, <1>2, <1>3, <1>4 DEF Next, Operation, Others, Quiet, Writing

\* The invariant holds always.
LEMMA Invariance == Spec => []IInv
BY Initially, Inductive, PTL DEF Spec

-----------------------------------------------------------------------------
(* The theorems *)

\* Types, and that every record has left its data.
THEOREM TypeCorrect == Spec => []TypeOK
BY Invariance, InvariantIsTyped, PTL

\* What a record says is so, also when its operation was resumed over what an
\* earlier one had left (personal_release.py:378-385, 407-413).
THEOREM RecordsTrue == Spec => []RecordsAreTrue
<1>1. IInv => RecordsAreTrue
  <2> SUFFICES ASSUME IInv, NEW r \in Builds
               PROVE  /\ runs[r].passed >= Validated =>
                           /\ runs[r].pointer.manifest.evidence = runs[r].commit
                           /\ runs[r].pointer.manifest.build = r
                      /\ runs[r].passed >= Sealed => SealHolds(r)
                      /\ runs[r].passed >= Tagged =>
                           runs[r].tag = [commit |-> runs[r].commit,
                                          bundle |-> releases[VersionOf(r)]]
    BY DEF RecordsAreTrue
  <2>1. RunHolds(r)
    BY DEF IInv, ArchiveHolds
  <2> QED
    BY <2>1 DEF RunHolds, PointerOf
<1> QED
  BY <1>1, Invariance, PTL

\* REL-005: the tag of a release names a merged commit, its own build and
\* evidence that passed on this commit (personal_release.py:427-467).
THEOREM TaggedBacked == Spec => []TaggedIsBacked
<1>1. IInv => TaggedIsBacked
  <2> SUFFICES ASSUME IInv, NEW v \in Versions, tags[v] # None,
                      tags[v].bundle # None
               PROVE  LET commit == tags[v].commit
                          bundle == tags[v].bundle
                          rows   == bundle.pointer.matrix.rows
                      IN  /\ releases[v] = bundle /\ bundle.readonly
                          /\ commit \in Merged /\ Version[commit] = v
                          /\ runs[bundle.run].payload = Content[commit]
                          /\ bundle.pointer.manifest.build = bundle.run
                          /\ \A s \in Scenarios :
                               rows[s] = [evidence |-> commit,
                                          invalidatedBy |-> {}]
    BY DEF TaggedIsBacked
  <2> DEFINE r == releases[v].run
  <2>1. /\ tags[v].bundle = releases[v] /\ releases[v] # None
        /\ releases[v].readonly /\ tags[v].commit = runs[r].commit
    BY DEF IInv, ArchiveHolds, TagHolds
  <2>2. /\ r \in Builds /\ runs[r].passed >= 3 /\ VersionOf(r) = v
        /\ releases[v].pointer = runs[r].pointer /\ runs[r].passed \in 0..6
    BY <2>1, StageValues, RunFields
       DEF IInv, ArchiveHolds, ReleaseHolds, Types, Bundle
  <2>3. /\ runs[r].commit \in Merged /\ runs[r].payload = Content[runs[r].commit]
        /\ PointerOf(runs[r].pointer, runs[r].commit, r)
    BY <2>2, PassedFacts DEF IInv
  <2> QED
    BY <2>1, <2>2, <2>3 DEF PointerOf, VersionOf
<1> QED
  BY <1>1, Invariance, PTL

\* An expired scenario carries the change that expired it.
ExpiredHolds == \A s \in expired : matrix.rows[s].invalidatedBy # {}

\* Only the tools of the evidence touch the matrix.
LEMMA ExpiredStep ==
  ASSUME IInv, ExpiredHolds, [Next]_vars
  PROVE  ExpiredHolds'
<1>1. matrix \in Matrix /\ expired \subseteq Scenarios
  BY DEF IInv, Types, EvidenceTypeOK
<1>2. CASE Refresh
  <2>1. ASSUME NEW s \in expired'
        PROVE  s \in Scenarios /\ Refreshed(s).invalidatedBy # {}
    <3>1. s \in Scenarios /\ matrix.rows[s] \in Row
      BY <1>1, <1>2, <2>1 DEF Refresh, Matrix
    <3>2. Refreshed(s).invalidatedBy
            = matrix.rows[s].invalidatedBy
                \union (IF Verified(matrix.rows[s]) THEN Changed(s) ELSE {})
      BY <3>1 DEF Refreshed, Row
    <3>3. \/ matrix.rows[s].invalidatedBy # {}
          \/ Verified(matrix.rows[s]) /\ Changed(s) # {}
      BY <1>2, <2>1 DEF Refresh, ExpiredHolds
    <3> QED
      BY <3>1, <3>2, <3>3
  <2> QED
    BY <1>2, <2>1 DEF Refresh, ExpiredHolds
<1>3. CASE MarkVerified
  <2>1. PICK s \in Scenarios :
          /\ matrix' = [matrix EXCEPT !.rows[s] =
                          [evidence |-> evidence, invalidatedBy |-> {}]]
          /\ expired' = expired \ {s}
    BY <1>3 DEF MarkVerified
  <2>2. \A t \in Scenarios \ {s} : matrix'.rows[t] = matrix.rows[t]
    BY <1>1, <2>1 DEF Matrix
  <2> QED
    BY <1>1, <2>1, <2>2 DEF ExpiredHolds
<1>4. CASE UNCHANGED <<matrix, expired>>
  BY <1>4 DEF ExpiredHolds
<1>5. Refresh \/ MarkVerified \/ UNCHANGED <<matrix, expired>>
  BY DEF Next, Operation, Others, Begin, Recheck, Proceed, Refuse,
         RecheckCandidate, Ci, ValidateStep, AdoptBundle, AdoptTag, Observe,
         Fail, Kill, NewCandidate, Build, Record, Close, Reject, RenameBundle,
         Protect, CreateTag, MoveTree, ChangeEvidence, HostedChecks, OtherTag,
         Else, vars, sources, gate, Evidence, Exercise, Seal, Spoil, Edit,
         Checkout
<1> QED
  BY <1>2, <1>3, <1>4, <1>5

\* VAL-005: the gate refuses what has expired, also when the change was taken
\* back (update_capability_matrix.py:147-153).
THEOREM ExpiredRefused == Spec => []ExpiredIsRefused
<1>1. Init => ExpiredHolds
  BY DEF Init, EvidenceInit, ExpiredHolds
<1>2. IInv /\ ExpiredHolds => ExpiredIsRefused
  BY DEF IInv, Types, EvidenceTypeOK, ExpiredHolds, ExpiredIsRefused,
         GateAccepts, Covers
<1> QED
  BY <1>1, <1>2, ExpiredStep, Invariance, PTL DEF Spec

\* Who changes a release, and how
LEMMA ReleaseSteps ==
  ASSUME IInv, [Next]_vars, ~RenameBundle, ~Protect
  PROVE  UNCHANGED releases
BY DEF Next, Operation, Others, Begin, Recheck, Proceed, Refuse,
       RecheckCandidate, Ci, ValidateStep, AdoptBundle, AdoptTag, Observe, Fail,
       Kill, NewCandidate, Build, Record, Close, Reject, CreateTag, MoveTree,
       ChangeEvidence, HostedChecks, OtherTag, Else, archive, vars

\* A bundle in the archive is never replaced (personal_release.py:378-385).
THEOREM ReleasesImmutable == Spec => ReleasesAreImmutable
<1>1. ASSUME IInv, [Next]_vars, NEW v \in Versions, releases[v] # None
      PROVE  releases'[v]
               \in {releases[v], [releases[v] EXCEPT !.readonly = TRUE]}
  <2>1. CASE RenameBundle
    BY <1>1, <2>1, ArchiveRenamed DEF IInv, RenameBundle
  <2>2. CASE Protect
    BY <1>1, <2>2, ArchiveProtected DEF IInv
  <2>3. CASE ~RenameBundle /\ ~Protect
    BY <1>1, <2>3, ReleaseSteps
  <2> QED
    BY <2>1, <2>2, <2>3
<1>2. IInv /\ [Next]_vars =>
        [\A v \in Versions : releases[v] # None =>
           releases'[v] \in {releases[v],
                             [releases[v] EXCEPT !.readonly = TRUE]}]_vars
  BY <1>1
<1> QED
  BY <1>2, Invariance, PTL DEF Spec, ReleasesAreImmutable

\* REL-008: a rejected operation ends its run (personal_release.py:169-170).
THEOREM FailedFinal == Spec => FailedIsFinal
<1>1. ASSUME IInv, [Next]_vars, NEW r \in Builds, runs[r].failed
      PROVE  /\ runs'[r] = runs[r]
             /\ \A v \in Versions :
                  /\ releases'[v] # releases[v] => releases'[v].run # r
                  /\ tags'[v] \notin {None, tags[v]} /\ tags'[v].bundle # None
                       => tags'[v].bundle.run # r
  <2>1. r = run => /\ ~NewCandidate /\ ~Build /\ ~Record /\ ~Close
                   /\ ~RenameBundle /\ ~Protect /\ ~CreateTag
    <3>1. ASSUME r = run PROVE ~NewCandidate
      <4>1. runs[run].path
        BY <1>1, <3>1 DEF IInv, ArchiveHolds, RunHolds
      <4> QED
        BY <4>1 DEF NewCandidate, This
    <3>2. ASSUME r = run
          PROVE  ~Build /\ ~Record /\ ~RenameBundle /\ ~Protect /\ ~CreateTag
      BY <1>1, <3>2, RunningFacts
         DEF Build, Record, RenameBundle, Protect, CreateTag
    <3>3. ASSUME r = run PROVE ~Close
      BY <1>1, <3>3 DEF Close, IInv, OperationHolds, Closing, This
    <3> QED
      BY <3>1, <3>2, <3>3
  <2>2. runs'[r] = runs[r]
    <3>1. CASE NewCandidate
      BY <1>1, <2>1, <3>1, NewCandidateEffect
         DEF OnlyRun, IInv, OperationHolds
    <3>2. CASE Build
      BY <1>1, <2>1, <3>2, BuildEffect DEF OnlyRun, IInv, OperationHolds
    <3>3. CASE Record
      BY <1>1, <2>1, <3>3, RecordEffect DEF OnlyRun, IInv, OperationHolds
    <3>4. CASE Close
      BY <1>1, <2>1, <3>4, CloseEffect DEF OnlyRun, IInv, OperationHolds
    <3>5. CASE Reject
      <4> DEFINE next == [runs[run] EXCEPT !.failed = @ \/ runs[run].path]
      <4>1. OnlyRun(next)
        BY <1>1, <3>5, RejectEffect DEF IInv, OperationHolds
      <4>2. CASE r # run
        BY <4>1, <4>2 DEF OnlyRun
      <4>3. CASE r = run
        <5>1. runs[r] \in Archived /\ (runs[r].failed \/ runs[r].path) = TRUE
          BY <1>1 DEF IInv, Types
        <5>2. next = [runs[r] EXCEPT !.failed = TRUE]
          BY <4>3, <5>1
        <5>3. [runs[r] EXCEPT !.failed = TRUE] = runs[r]
          BY <1>1, <5>1 DEF Archived
        <5> QED
          BY <4>1, <4>3, <5>2, <5>3 DEF OnlyRun
      <4> QED
        BY <4>2, <4>3
    <3>6. CASE ~NewCandidate /\ ~Build /\ ~Record /\ ~Close /\ ~Reject
      BY <1>1, <3>6
         DEF Next, Operation, Others, Begin, Recheck, Proceed, Refuse,
             RecheckCandidate, Ci, ValidateStep, AdoptBundle, AdoptTag, Observe,
             Fail, Kill, RenameBundle, Protect, CreateTag, MoveTree,
             ChangeEvidence, HostedChecks, OtherTag, Else, archive, vars
    <3> QED
      BY <3>1, <3>2, <3>3, <3>4, <3>5, <3>6
  <2>3. ASSUME NEW v \in Versions, releases'[v] # releases[v]
        PROVE  releases'[v].run # r
    <3>1. CASE RenameBundle
      BY <1>1, <2>1, <2>3, <3>1, ArchiveRenamed DEF IInv, Unprotected
    <3>2. CASE Protect
      <4>1. /\ v = VersionOf(run) /\ releases[v].run = run
            /\ releases'[v] = [releases[v] EXCEPT !.readonly = TRUE]
            /\ releases[v] \in Bundle
        BY <1>1, <2>3, <3>2, ArchiveProtected DEF IInv, Types
      <4>2. releases'[v].run = run
        BY <4>1 DEF Bundle
      <4> QED
        BY <2>1, <3>2, <4>2
    <3>3. CASE ~RenameBundle /\ ~Protect
      BY <1>1, <2>3, <3>3, ReleaseSteps
    <3> QED
      BY <3>1, <3>2, <3>3
  <2>4. ASSUME NEW v \in Versions, tags'[v] \notin {None, tags[v]},
               tags'[v].bundle # None
        PROVE  tags'[v].bundle.run # r
    <3>1. CASE CreateTag
      BY <1>1, <2>1, <2>4, <3>1, ArchiveTagged DEF IInv
    <3>2. CASE OtherTag
      BY <1>1, <2>4, <3>2, ArchiveOtherTag DEF IInv
    <3>3. CASE ~CreateTag /\ ~OtherTag
      <4>1. tags' = tags
        BY <1>1, <3>3
           DEF Next, Operation, Others, Begin, Recheck, Proceed, Refuse,
               RecheckCandidate, Ci, ValidateStep, AdoptBundle, AdoptTag,
               Observe, Fail, Kill, NewCandidate, Build, Record, Close, Reject,
               RenameBundle, Protect, MoveTree, ChangeEvidence, HostedChecks,
               Else, outside, vars
      <4> QED
        BY <2>4, <4>1
    <3> QED
      BY <3>1, <3>2, <3>3
  <2> QED
    BY <2>2, <2>3, <2>4
<1> DEFINE keeps(r) ==
             /\ runs'[r] = runs[r]
             /\ \A v \in Versions :
                  /\ releases'[v] # releases[v] => releases'[v].run # r
                  /\ tags'[v] \notin {None, tags[v]} /\ tags'[v].bundle # None
                       => tags'[v].bundle.run # r
<1>2. IInv /\ [Next]_vars =>
        [\A r \in Builds : runs[r].failed => keeps(r)]_vars
  BY <1>1
<1> QED
  BY <1>2, Invariance, PTL DEF Spec, FailedIsFinal
=============================================================================
