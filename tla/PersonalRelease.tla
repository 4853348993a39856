--------------------------- MODULE PersonalRelease ---------------------------
(***************************************************************************)
(* Promotion of a commit to a personal release: scripts/personal_release.py *)
(* over the evidence of EvidenceGate.                                      *)
(*                                                                         *)
(* A run is a directory with one record for each stage passed; each record *)
(* is written, closed and never changed.  One operation at a time holds    *)
(* the lock of the archive; it advances the run by one stage, or checks a  *)
(* stage passed before.  An operation that is rejected invalidates its run. *)
(* It may also be killed between any two steps.  Meanwhile the checkout,   *)
(* the evidence, the hosted checks and the tags belong to everybody.       *)
(*                                                                         *)
(* Abstractions:                                                           *)
(* - a digest is what it is of; the archive is changed by this program     *)
(*   only, and the matrix given to it is the one on disk;                  *)
(* - the build is one step, its output the tree it has read; release notes,*)
(*   payload and privacy checks can only reject, and anything can be       *)
(*   rejected (Fail);                                                      *)
(* - a tag that is not this program's has no bundle in its message, or no  *)
(*   signature.                                                            *)
(***************************************************************************)
EXTENDS EvidenceGate

CONSTANTS
  Merged,      \* the commits on main
  Versions,
  Version      \* of each commit

Prepared == 1
CiPassed == 2
Validated == 3
Sealed == 4
Tagged == 5
Installed == 6
Stages == Prepared..Installed

VARIABLES
  runs,        \* the archive
  releases,
  tags, ci,             \* git and its host
  stage, run, step,     \* the operation that holds the lock
  seen, found,          \* its candidate commit and its validation pointer
  moved                 \* (ghost) the checkout has moved since it began

operation == <<stage, run, step, seen, found, moved>>
outside   == <<tags, ci>>
archive   == <<runs, releases>>
sources   == <<head, tree, gate, changes>>
vars      == <<sources, archive, outside, operation>>

Pointer == [manifest: Manifest, matrix: Matrix]
Bundle == [run: Builds, pointer: Pointer, readonly: BOOLEAN]
Tag == [commit: Commits, bundle: Bundle \union {None}]

ASSUME ReleaseAssumption ==
  /\ Merged \subseteq Commits /\ Version \in [Commits -> Versions]
  /\ None \notin Manifest \union Pointer \union Bundle \union Tag

\* "path" says whether the directory is there, "passed" counts the records,
\* "open" says that the last one is still being written.
Archived ==
  [path: BOOLEAN, passed: 0..Installed, open: BOOLEAN, failed: BOOLEAN,
   commit: Commits \union {None}, payload: [Scopes -> Values] \union {None},
   pointer: Pointer \union {None}, tag: Tag \union {None}]

\* Every stage leaves its data.
Recorded(archived) ==
  /\ archived.passed >= Prepared => archived.commit # None
  /\ archived.passed >= Validated => archived.pointer # None
  /\ archived.passed >= Tagged => archived.tag # None

Steps == {"idle", "candidate", "build", "recheck", "ci", "validate",
          "bundle", "protect", "tag", "observe", "record", "close", "reject"}

TypeOK ==
  /\ EvidenceTypeOK
  /\ runs \in [Builds -> Archived]
  /\ releases \in [Versions -> Bundle \union {None}]
  /\ tags \in [Versions -> Tag \union {None}]
  /\ \A r \in Builds : Recorded(runs[r])
  /\ ci \subseteq Merged
  /\ stage \in Stages \union {0} /\ run \in Builds \union {None}
  /\ step \in Steps /\ moved \in BOOLEAN
  /\ seen \in Commits \union {None} /\ found \in Pointer \union {None}

NoRun == [path |-> FALSE, passed |-> 0, open |-> FALSE, failed |-> FALSE,
          commit |-> None, payload |-> None, pointer |-> None, tag |-> None]

Idle == /\ stage' = 0 /\ run' = None /\ step' = "idle"
        /\ seen' = None /\ found' = None /\ moved' = FALSE

Init ==
  /\ EvidenceInit
  /\ runs = [b \in Builds |-> NoRun]
  /\ releases = [v \in Versions |-> None]
  /\ tags = [v \in Versions |-> None]
  /\ ci = {}
  /\ stage = 0 /\ run = None /\ step = "idle"
  /\ seen = None /\ found = None /\ moved = FALSE

-----------------------------------------------------------------------------
(* What the operations check *)

This == runs[run]
VersionOf(r) == Version[runs[r].commit]

\* Mutant: the mark of a failure is not looked for.
WholeRecords(r) ==
  /\ runs[r].passed > 0 /\ ~runs[r].open
  /\ runs[r].passed >= Tagged => tags[VersionOf(r)] = runs[r].tag

\* records: the chain is whole, its tag is as it was, nothing has failed.
Records(r) ==
  /\ runs[r].passed > 0 /\ ~runs[r].open
  /\ runs[r].passed >= Tagged => tags[VersionOf(r)] = runs[r].tag
  /\ ~runs[r].failed

CandidateIs(commit) == Clean /\ head = commit

\* verify_pointer
PointerHolds(p) ==
  p # None /\ manifest = p.manifest /\ matrix = p.matrix

\* Mutant: the manifest may be another commit's.
ValidateAnyCommit(r) ==
  /\ manifest # None /\ manifest.build = r
  /\ Current /\ GateAccepts

Validate(r) ==
  /\ manifest # None
  /\ manifest.evidence = runs[r].commit /\ manifest.build = r
  /\ Current /\ GateAccepts

\* verify_seal
SealHolds(r) == releases[VersionOf(r)] # None
                /\ releases[VersionOf(r)].run = r
                /\ releases[VersionOf(r)].readonly

\* What is checked again when a stage has been passed before
StillHolds(r, s) ==
  /\ runs[r].passed >= Validated => PointerHolds(runs[r].pointer)
  /\ runs[r].passed >= Sealed => SealHolds(r)
  /\ CASE s = CiPassed  -> runs[r].commit \in ci
       [] s = Validated -> Validate(r)
       [] s = Tagged    -> tags[VersionOf(r)] = runs[r].tag
       [] OTHER         -> TRUE

-----------------------------------------------------------------------------
(* An operation *)

Goto(next) == step' = next /\ UNCHANGED <<stage, run, seen, found, moved>>
If(check, next) == Goto(IF check THEN next ELSE "reject")
Else == UNCHANGED <<sources, archive, outside>>

InOrder(r, s) == s <= runs[r].passed + 1

\* A stage out of order is a mistake.
Begin(r, s) ==
  /\ step = "idle"
  /\ IF InOrder(r, s) THEN UNCHANGED changes ELSE Change
  /\ stage' = s /\ run' = r /\ step' = "candidate"
  /\ UNCHANGED <<seen, found, moved, head, tree, gate, archive, outside>>

FirstStep(s) ==
  CASE s = CiPassed -> "ci" [] s = Validated -> "validate"
    [] s = Sealed -> "bundle" [] s = Tagged -> "ci" [] s = Installed -> "observe"

\* prepare, when there is no such run yet
NewCandidate ==
  /\ step = "candidate" /\ stage = Prepared /\ ~This.path
  /\ Clean /\ head \in Merged
  /\ runs' = [runs EXCEPT ![run].path = TRUE]
  /\ step' = "build" /\ seen' = head
  /\ UNCHANGED <<stage, run, found, moved, sources, releases, outside>>

\* A stage that was passed before is verified and nothing is written.
Recheck ==
  /\ step = "candidate" /\ This.path
  /\ This.passed >= stage /\ Records(run) /\ CandidateIs(This.commit)
  /\ stage = Prepared => This.commit \in Merged
  /\ StillHolds(run, stage)
  /\ Idle /\ Else

Proceed ==
  /\ step = "candidate" /\ stage > Prepared /\ This.passed = stage - 1
  /\ Records(run) /\ CandidateIs(This.commit)
  /\ Goto(FirstStep(stage)) /\ Else

\* Anything else is refused, out of order stages and half a run included.
Refuse ==
  /\ step = "candidate"
  /\ ~ /\ stage = Prepared /\ ~This.path /\ Clean /\ head \in Merged
  /\ ~ /\ Records(run) /\ CandidateIs(This.commit)
       /\ This.passed >= stage - 1
       /\ stage = Prepared => This.commit \in Merged
       /\ This.passed >= stage => StillHolds(run, stage)
  /\ Goto("reject") /\ Else

Build ==
  /\ step = "build" /\ runs' = [runs EXCEPT ![run].payload = tree]
  /\ Goto("recheck") /\ UNCHANGED <<sources, releases, outside>>

\* "source changed during preparation"
RecheckCandidate ==
  step = "recheck" /\ If(CandidateIs(seen), "record") /\ Else

Ci ==
  /\ step = "ci"
  /\ If(This.commit \in ci, IF stage = Tagged THEN "validate" ELSE "record")
  /\ Else

ValidateStep ==
  /\ step = "validate"
  /\ LET valid == /\ Validate(run)
                  /\ stage = Tagged => PointerHolds(This.pointer)
     IN  /\ step' = IF ~valid THEN "reject"
                    ELSE IF stage = Tagged THEN "tag" ELSE "record"
         /\ found' = IF valid /\ stage = Validated
                       THEN [manifest |-> manifest, matrix |-> matrix]
                       ELSE found
  /\ UNCHANGED <<stage, run, seen, moved>> /\ Else

Unprotected == [run |-> run, pointer |-> This.pointer, readonly |-> FALSE]

\* Mutant: the new bundle replaces the old one.
ReplaceBundle ==
  /\ step = "bundle" /\ PointerHolds(This.pointer)
  /\ releases' = [releases EXCEPT ![VersionOf(run)] = Unprotected]
  /\ Goto("protect") /\ UNCHANGED <<sources, runs, outside>>

\* The bundle is staged beside and renamed when it is complete.
RenameBundle ==
  /\ step = "bundle" /\ PointerHolds(This.pointer)
  /\ releases[VersionOf(run)] = None
  /\ releases' = [releases EXCEPT ![VersionOf(run)] = Unprotected]
  /\ Goto("protect") /\ UNCHANGED <<sources, runs, outside>>

\* Mutant: a directory that is there already is always in the way.
RefuseBundle == step = "bundle" /\ releases[VersionOf(run)] # None
                /\ Goto("reject") /\ Else

\* One that is there already must be the same.
AdoptBundle ==
  /\ step = "bundle"
  /\ releases[VersionOf(run)] # None \/ ~PointerHolds(This.pointer)
  /\ If(/\ PointerHolds(This.pointer)
        /\ [releases[VersionOf(run)] EXCEPT !.readonly = FALSE] = Unprotected,
        "protect")
  /\ Else

Protect ==
  /\ step = "protect"
  /\ releases' = [releases EXCEPT ![VersionOf(run)].readonly = TRUE]
  /\ Goto("record") /\ UNCHANGED <<sources, runs, outside>>

NewTag == [commit |-> This.commit, bundle |-> releases[VersionOf(run)]]

CreateTag ==
  /\ step = "tag" /\ SealHolds(run) /\ tags[VersionOf(run)] = None
  /\ tags' = [tags EXCEPT ![VersionOf(run)] = NewTag]
  /\ Goto("record") /\ UNCHANGED <<sources, archive, ci>>

\* Mutant: whatever has the name is the tag.
AdoptAnyTag ==
  /\ step = "tag" /\ (~SealHolds(run) \/ tags[VersionOf(run)] # None)
  /\ If(SealHolds(run), "record") /\ Else

AdoptTag ==
  /\ step = "tag" /\ (~SealHolds(run) \/ tags[VersionOf(run)] # None)
  /\ If(SealHolds(run) /\ tags[VersionOf(run)] = NewTag, "record") /\ Else

\* verify_installed, of an installation made by somebody else
Observe == step = "observe" /\ If(SealHolds(run), "record") /\ Else

\* What the record of the stage adds to the run
NewRecord ==
  [This EXCEPT !.passed = stage, !.open = TRUE,
     !.commit = IF stage = Prepared THEN seen ELSE @,
     !.pointer = IF stage = Validated THEN found ELSE @,
     !.tag = IF stage = Tagged THEN tags[VersionOf(run)] ELSE @]

\* record: the file is created; its name is taken from then on.
Record ==
  /\ step = "record" /\ (stage = Prepared \/ Records(run))
  /\ stage = Tagged => tags[VersionOf(run)] # None
  /\ runs' = [runs EXCEPT ![run] = NewRecord]
  /\ Goto("close") /\ UNCHANGED <<sources, releases, outside>>

Close ==
  /\ step = "close" /\ runs' = [runs EXCEPT ![run].open = FALSE]
  /\ Idle /\ UNCHANGED <<sources, releases, outside>>

\* A command, a file or a check fails.
Fail ==
  /\ step \notin {"idle", "reject"} /\ Change
  /\ Goto("reject") /\ UNCHANGED <<head, tree, gate, archive, outside>>

\* failure: the run, if there is one, is marked.
Reject ==
  /\ step = "reject"
  /\ runs' = [runs EXCEPT ![run].failed = @ \/ This.path]
  /\ Idle /\ UNCHANGED <<sources, releases, outside>>

Kill ==
  /\ step # "idle" /\ Change
  /\ Idle /\ UNCHANGED <<head, tree, gate, archive, outside>>

-----------------------------------------------------------------------------
(* The others *)

\* They act between operations, and during one only in front of a step that
\* looks at what they change: with the other steps their actions commute.
Before(steps) == step \in {"idle"} \union steps

Preparing == stage = Prepared /\ step \in {"build", "recheck"}

\* Nobody moves the checkout away and back during one preparation.
MoveTree ==
  /\ Before({"build", "recheck", "validate"})
  /\ Edit \/ Checkout
  /\ Preparing => ~moved
  /\ moved' = Preparing
  /\ UNCHANGED <<stage, run, step, seen, found, archive, outside>>

\* A manifest names the build manifest of a prepared run.
ChangeEvidence ==
  /\ Before({"validate", "bundle"})
  /\ Evidence
  /\ manifest' \notin {None, manifest} => runs[manifest'.build].passed > 0
  /\ UNCHANGED <<archive, outside, operation>>

HostedChecks ==
  /\ Before({"ci"})
  /\ \/ \E c \in Merged \ ci : ci' = ci \union {c} /\ UNCHANGED changes
     \/ \E c \in ci : ci' = ci \ {c} /\ Change
  /\ UNCHANGED <<head, tree, gate, archive, tags, operation>>

\* Somebody else makes a tag, or deletes one while no operation runs.
OtherTag ==
  /\ Before({"tag", "record"}) /\ Change
  /\ \E v \in Versions :
       \/ /\ tags[v] = None
          /\ tags' = [tags EXCEPT ![v] = [commit |-> head, bundle |-> None]]
       \/ /\ tags[v] # None /\ step = "idle"
          /\ tags' = [tags EXCEPT ![v] = None]
  /\ UNCHANGED <<head, tree, gate, archive, ci, operation>>

-----------------------------------------------------------------------------

Operation ==
  \/ NewCandidate \/ Recheck \/ Proceed \/ Refuse \/ Build
  \/ RecheckCandidate \/ Ci \/ ValidateStep \/ RenameBundle \/ AdoptBundle
  \/ Protect \/ CreateTag \/ AdoptTag \/ Observe \/ Record \/ Close
  \/ Reject

Others ==
  \/ MoveTree \/ ChangeEvidence \/ HostedChecks \/ OtherTag \/ Fail \/ Kill

Next ==
  \/ \E r \in Builds, s \in Stages : Begin(r, s)
  \/ Operation
  \/ Others

Spec == Init /\ [][Next]_vars

Advance(r) == runs[r].passed \in 1..Sealed /\ Begin(r, runs[r].passed + 1)

\* An operation ends, and the maintainer comes back to each run.
FairSpec ==
  Spec /\ WF_vars(Operation) /\ \A r \in Builds : SF_vars(Advance(r))

-----------------------------------------------------------------------------
(* Properties *)

\* A release is what it claims (REL-005): its tag names a merged commit; the
\* bundle named in the tag is the one in the archive, read-only, built from
\* this commit; and every scenario rests on evidence that passed on this
\* commit, with this build (personal_release.py:427-467).
TaggedIsBacked ==
  \A v \in Versions :
    tags[v] # None /\ tags[v].bundle # None =>
      LET commit == tags[v].commit
          bundle == tags[v].bundle
          rows   == bundle.pointer.matrix.rows
      IN  /\ releases[v] = bundle /\ bundle.readonly
          /\ commit \in Merged /\ Version[commit] = v
          /\ runs[bundle.run].payload = Content[commit]
          /\ bundle.pointer.manifest.build = bundle.run
          /\ \A s \in Scenarios :
               rows[s] = [evidence |-> commit, invalidatedBy |-> {}]

\* A bundle that stands in releases is never replaced, nor a tag of this
\* program moved; two runs of one version cannot both be sealed
\* (personal_release.py:378-385).
ReleasesAreImmutable ==
  [][\A v \in Versions : releases[v] # None =>
       releases'[v] \in {releases[v], [releases[v] EXCEPT !.readonly = TRUE]}]_vars

\* A run that has failed gets no record, no bundle and no tag any more
\* (REL-008; personal_release.py:169-170).
FailedIsFinal ==
  [][\A r \in Builds : runs[r].failed =>
       /\ runs'[r] = runs[r]
       /\ \A v \in Versions :
            /\ releases'[v] # releases[v] => releases'[v].run # r
            /\ tags'[v] \notin {None, tags[v]} /\ tags'[v].bundle # None
                 => tags'[v].bundle.run # r]_vars

\* What a record says is so: a validated run rests on a manifest of its own
\* commit and build, a sealed one has its bundle, a tagged one a tag for its
\* commit and bundle, whatever was found there when an operation was resumed
\* (personal_release.py:378-385, 407-413).
RecordsAreTrue ==
  \A r \in Builds :
    /\ runs[r].passed >= Validated =>
         /\ runs[r].pointer.manifest.evidence = runs[r].commit
         /\ runs[r].pointer.manifest.build = r
    /\ runs[r].passed >= Sealed => SealHolds(r)
    /\ runs[r].passed >= Tagged =>
         runs[r].tag = [commit |-> runs[r].commit,
                        bundle |-> releases[VersionOf(r)]]

\* Nothing the run needs is missing, changed or taken.
Undisturbed(r) ==
  /\ runs[r].passed > 0 /\ CandidateIs(runs[r].commit)
  /\ runs[r].commit \in ci /\ Validate(r)
  /\ runs[r].pointer # None => PointerHolds(runs[r].pointer)
  /\ releases[VersionOf(r)] # None => releases[VersionOf(r)].run = r
  /\ tags[VersionOf(r)] # None => tags[VersionOf(r)].bundle # None

\* An interrupted promotion is resumed to its end (REL-004): whatever was
\* killed and wherever, as long as no operation was rejected before and no
\* record was left half written, repeating the next stage arrives at the tag
\* once nothing unexpected happens any more (personal_release.py:377-381,
\* 408-414, 427-447).
PromotionResumes ==
  \A r \in Builds, n \in 0..MaxChanges :
    <>(/\ step = "idle" /\ ~runs[r].failed /\ ~runs[r].open
       /\ [](Undisturbed(r) /\ changes = n))
      => <>(runs[r].passed >= Tagged)

=============================================================================
