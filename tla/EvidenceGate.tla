---------------------------- MODULE EvidenceGate ----------------------------
(***************************************************************************)
(* The validation evidence of a source tree and the gate that judges it:   *)
(* scripts/update_capability_matrix.py, scripts/seal_lifecycle_evidence.py *)
(* and scripts/validation_gate.py.                                         *)
(*                                                                         *)
(* The tools are run by hand, in any order, while the tree is edited and   *)
(* other commits are checked out.  The matrix says for every scenario what *)
(* evidence it rests on and which changes have expired it; a manifest      *)
(* seals the evidence of one validation run together with the matrix of    *)
(* that moment; the gate compares the two.                                 *)
(*                                                                         *)
(* Abstractions:                                                           *)
(* - the identity of a scope is its content, the digest of a file the file;*)
(* - what a row or a manifest copies of a validation run (commit, lock,    *)
(*   attempts, evidence digests, printer) is that run; its lock is part of *)
(*   its commit, and the host, the printer and the paths are always the    *)
(*   same ones;                                                            *)
(* - Scenarios are those the milestone requires; schemas, privacy checks,  *)
(*   measurements and repetition counts are left out;                      *)
(* - a validation run examines the commit it names: it is one step, and it *)
(*   refuses a changed tree (reference_lifecycle_validation.sh:621); the   *)
(*   manifest of a run that failed is refused at once and left out;        *)
(* - seal covers the scenarios of the lifecycle and names a build manifest *)
(*   of its own.  What a release needs is put together by hand in the same *)
(*   form, for a prepared build, and kept with its matrix in files that the*)
(*   checkout ignores (validation/runs); this is the matrix meant here.    *)
(***************************************************************************)
EXTENDS Integers, FiniteSets

CONSTANTS
  Commits, Builds,       \* of the repository; prepared release builds
  Scopes, Scenarios,     \* of the matrix
  Content,               \* of the scopes in each commit
  Affected,              \* the scopes each scenario depends on
  MaxChanges,            \* unexpected events
  None

Values == UNION { {Content[c][s] : s \in Scopes} : c \in Commits }

ASSUME EvidenceAssumption ==
  /\ Content \in [Commits -> [Scopes -> Nat]]
  /\ Affected \in [Scenarios -> SUBSET Scopes]
  /\ MaxChanges \in Nat
  /\ None \notin Commits \union Builds

VARIABLES
  head, tree,     \* the checkout: its commit and what the files hold
  matrix,         \* capability-matrix.json
  evidence,       \* the last validation run
  manifest,       \* the last sealed manifest
  expired,        \* (ghost) scenarios expired since they were marked
  changes

gate == <<matrix, evidence, manifest, expired>>

Row == [evidence: Commits \union {None}, invalidatedBy: SUBSET Scopes]
Matrix == [scopes: [Scopes -> Values], rows: [Scenarios -> Row]]
Manifest == [evidence: Commits, build: Builds, matrix: Matrix]

EvidenceTypeOK ==
  /\ head \in Commits /\ tree \in [Scopes -> Values]
  /\ matrix \in Matrix
  /\ evidence \in Commits \union {None}
  /\ manifest = None \/ manifest \in Manifest
  /\ expired \subseteq Scenarios
  /\ changes \in 0..MaxChanges

Clean == tree = Content[head]
Unmarked == [evidence |-> None, invalidatedBy |-> {}]
Verified(row) == row.evidence # None

EvidenceInit ==
  /\ head \in Commits /\ tree = Content[head]
  /\ matrix = [scopes |-> tree, rows |-> [s \in Scenarios |-> Unmarked]]
  /\ evidence = None /\ manifest = None
  /\ expired = {} /\ changes = 0

Change == changes < MaxChanges /\ changes' = changes + 1

-----------------------------------------------------------------------------
(* update_capability_matrix.py *)

\* The scopes of a row that are not what the matrix says they are
Changed(scenario) ==
  { s \in Affected[scenario] : matrix.scopes[s] # tree[s] }

\* Mutant: only the last change is kept.
RefreshedAnew(scenario) ==
  [matrix.rows[scenario] EXCEPT !.invalidatedBy =
     IF Verified(matrix.rows[scenario]) THEN Changed(scenario) ELSE {}]

\* A row that is verified is invalidated, and stays so.
Refreshed(scenario) ==
  [matrix.rows[scenario] EXCEPT !.invalidatedBy =
     @ \union (IF Verified(matrix.rows[scenario]) THEN Changed(scenario)
                                                  ELSE {})]

Refresh ==
  /\ matrix' = [scopes |-> tree,
                rows   |-> [s \in Scenarios |-> Refreshed(s)]]
  /\ expired' = expired \union
       { s \in Scenarios : Verified(matrix.rows[s]) /\ Changed(s) # {} }
  /\ UNCHANGED <<head, tree, evidence, manifest, changes>>

\* --check
Current == matrix.scopes = tree

-----------------------------------------------------------------------------
(* A validation run, and what the maintainer makes of it *)

Exercise ==
  /\ Clean
  /\ evidence' = head
  /\ UNCHANGED <<head, tree, matrix, manifest, expired, changes>>

\* The row is edited by hand; the tools keep what it says.
MarkVerified ==
  /\ evidence # None
  /\ \E s \in Scenarios :
       /\ matrix' = [matrix EXCEPT !.rows[s] =
                       [evidence |-> evidence, invalidatedBy |-> {}]]
       /\ expired' = expired \ {s}
  /\ UNCHANGED <<head, tree, evidence, manifest, changes>>

\* seal: the matrix is the one of this moment, the commit that of the run.
Seal ==
  /\ evidence # None
  /\ \E b \in Builds :
       manifest' = [evidence |-> evidence, build |-> b, matrix |-> matrix]
  /\ UNCHANGED <<head, tree, matrix, evidence, expired, changes>>

\* An evidence file is changed, made writable or lost: the manifest is void.
Spoil ==
  /\ manifest # None /\ Change
  /\ manifest' = None
  /\ UNCHANGED <<head, tree, matrix, evidence, expired>>

Edit ==
  /\ Change
  /\ \E s \in Scopes, v \in Values : tree' = [tree EXCEPT ![s] = v]
  /\ tree' # tree
  /\ UNCHANGED <<head, gate>>

Checkout ==
  /\ Clean /\ Change
  /\ head' \in Commits \ {head} /\ tree' = Content[head']
  /\ UNCHANGED gate

-----------------------------------------------------------------------------
(* validation_gate.py *)

\* The evidence files are there, immutable, and what the manifest says.
EvidenceHolds == manifest # None

\* What is demanded of each required scenario: its evidence is in this
\* manifest, so it is of the manifest's commit.
Covers(m, scenario) ==
  LET row == m.matrix.rows[scenario]
  IN  /\ Verified(row) /\ row.invalidatedBy = {}
      /\ row.evidence = m.evidence

GateAccepts ==
  /\ EvidenceHolds
  /\ manifest.matrix = matrix
  /\ \A s \in Scenarios : Covers(manifest, s)

-----------------------------------------------------------------------------

Evidence == Refresh \/ Exercise \/ MarkVerified \/ Seal \/ Spoil

\* A change that has been recorded is not forgotten when it is reverted: the
\* gate refuses the scenario until it is marked again (VAL-005;
\* update_capability_matrix.py:147-153).
ExpiredIsRefused == GateAccepts => expired = {}

\* "Evidence MUST expire by affected scope after component changes" (VAL-005):
\* what the gate accepts, when the matrix is current, was seen with the
\* affected scopes as they are.  This does not hold: the scopes of a manifest
\* are those of the matrix when it is sealed, not of the run it seals
\* (seal_lifecycle_evidence.py:222-247); see the README.
AcceptedIsCurrent ==
  GateAccepts /\ Current =>
    \A scenario \in Scenarios : \A s \in Affected[scenario] :
      Content[manifest.evidence][s] = tree[s]

=============================================================================
