---------------------------- MODULE HpljInstall ----------------------------
(***************************************************************************)
(* install, disable, enable and uninstall of scripts/personal_install.py:  *)
(* one helper that asks what is there and then runs one command after the  *)
(* other.  A command may fail; the helper may be killed, or the Mac        *)
(* restarted, between two commands or in the middle of one; then the       *)
(* administrator runs some operation again.                                *)
(*                                                                         *)
(* The helper is the sequence of the steps it still has to do, each with   *)
(* what a failure of it means: to raise, to note it in failures, nothing.  *)
(*                                                                         *)
(* Abstractions:                                                           *)
(* - the ten artifacts of the product are absent, ours, torn (begun and    *)
(*   not finished) or foreign; the private directories are one, and so are *)
(*   the files of the app and those of the logs;                           *)
(* - questions between two commands are one step: nobody else changes an   *)
(*   artifact;                                                             *)
(* - a run of two operations at a time, and of one during an update, is    *)
(*   left out (HpljUpdate has the second); so are the preview, the build   *)
(*   and the audit log.                                                    *)
(***************************************************************************)
EXTENDS Integers, Sequences

CONSTANTS
  Unreliable,  \* the commands that can fail
  Divisible,   \* the commands that can be left half done
  Deaf,        \* artifacts a question about them may fail to see
  Collisions,  \* sets of artifacts that may be foreign in the beginning
  Operations,  \* what the administrator uses
  Again,       \* and what they repeat when nothing fails any more
  MaxRuns      \* operations begun before

Artifacts == {"root", "marker", "data", "logs", "app", "plist", "queue",
              "user", "group", "receipt"}

ASSUME InstallAssumption ==
  /\ Unreliable \subseteq STRING /\ Divisible \subseteq STRING
  /\ Deaf \subseteq Artifacts
  /\ Collisions \subseteq SUBSET (Artifacts \ {"receipt"})
  /\ Operations \subseteq {"install", "disable", "enable", "uninstall"}
  /\ Again \in Operations
  /\ MaxRuns \in Nat

VARIABLES
  host,                       \* the artifacts
  held, off, loaded, serving, \* the queue is held, launchd's override is set,
                              \* the job is loaded, the provider listens
  todo, op, clause, failures, \* the helper
  result, runs,
  calm                        \* (ghost) nothing fails any more

machine == <<host, held, off, loaded, serving>>
helper  == <<todo, op, clause, failures>>
vars    == <<machine, helper, result, runs, calm>>

Results == {"none", "enabled", "disabled", "clean", "incomplete", "killed"}

Changing == {"make_root", "copy_app", "own_app", "make_marker", "make_plist",
             "make_paths", "create_user", "create_group", "delete_user",
             "delete_group", "make_queue", "remove_queue", "remove_logs",
             "remove_root", "remove_user", "remove_group", "remove_plist",
             "forget"}

Commands == Changing \union {"hold", "override", "bootout", "clear_override",
                             "bootstrap", "release"}

Questions == {"held?", "unloaded?", "silent?", "overridden?", "no_failures?",
              "may_install?", "valid?", "ours?", "serving?", "serves?",
              "account?", "no_blocking?", "settled?", "clean?"}

Decisions == {"uninstall", "account", "try", "enabled", "disabled", "clean",
              "fail"}

Steps == [do : Commands \union Questions \union Decisions,
          on : {"raise", "note", "ignore"}]

TypeOK ==
  /\ host \in [Artifacts -> {"absent", "ours", "torn", "foreign"}]
  /\ \A a \in Artifacts :
       host[a] = "torn" => a \in {"app", "user", "group"}
  /\ held \in BOOLEAN /\ off \in BOOLEAN
  /\ loaded \in BOOLEAN /\ serving \in BOOLEAN
  /\ todo \in Seq(Steps) /\ failures \in BOOLEAN /\ calm \in BOOLEAN
  /\ op \in Operations \union {"none"}
  /\ clause \in {"body", "started", "cleanup"}
  /\ result \in Results /\ runs \in 0..MaxRuns

Init ==
  /\ \E foreign \in Collisions, receipt \in {"absent", "ours"} :
       host = [a \in Artifacts |-> CASE a \in foreign -> "foreign"
                                     [] a = "receipt" -> receipt
                                     [] OTHER -> "absent"]
  /\ held = FALSE /\ off = FALSE /\ loaded = FALSE /\ serving = FALSE
  /\ todo = <<>> /\ op = "none" /\ clause = "body" /\ failures = FALSE
  /\ result = "none" /\ runs = 0 /\ calm = FALSE

-----------------------------------------------------------------------------
(* Questions about a view of the host *)

\* A query that fails reads like one that finds nothing.
Views ==
  { [a \in Artifacts |-> IF a \in hidden THEN "absent" ELSE host[a]] :
      hidden \in SUBSET (IF calm THEN {} ELSE Deaf) }

Ours(v, a) == v[a] = "ours"
There(v, a) == v[a] # "absent"

AccountMatches(v) == Ours(v, "user") /\ Ours(v, "group")

\* validate_existing_installation: nothing there is anybody else's.  The
\* owner of the private directories is known by name.
Valid(v) ==
  /\ \A a \in {"root", "marker", "app", "plist"} : v[a] \in {"absent", "ours"}
  /\ \A a \in {"data", "logs"} :
       There(v, a) => Ours(v, a) /\ AccountMatches(host)

\* product_owned; and has_product_ownership_evidence, when not all is valid
Owned(v) == \E a \in {"marker", "app", "plist"} : Ours(v, a)

ValidAccount(v, owned) ==
  /\ There(v, "user") /\ There(v, "group") => owned /\ AccountMatches(v)
  /\ There(v, "user") \/ There(v, "group") => owned

\* Mutant: nobody asks for the account.
MayInstallUnasked(v) ==
  /\ Valid(v) /\ ~There(v, "app")
  /\ v["queue"] # "foreign" /\ (Ours(v, "queue") => Owned(v))

\* The refusals of install, before it changes anything
MayInstall(v) ==
  /\ Valid(v) /\ ~There(v, "app") /\ ValidAccount(v, Owned(v))
  /\ v["queue"] # "foreign" /\ (Ours(v, "queue") => Owned(v))

Registration == {"plist", "launchd_job", "override"}

\* find_removal_residue
Residue(v) ==
  { a \in Artifacts : There(v, a) }
  \union (IF loaded THEN {"launchd_job"} ELSE {})
  \union (IF off THEN {"override"} ELSE {})

Serves == serving /\ Ours(host, "queue") /\ ~held

-----------------------------------------------------------------------------
(* The steps of each operation *)

Raise(do)  == <<[do |-> do, on |-> "raise"]>>
Note(do)   == <<[do |-> do, on |-> "note"]>>
Ignore(do) == <<[do |-> do, on |-> "ignore"]>>

\* Mutant: launchd is not told to leave it alone.
DisableForNow ==
  Note("hold") \o Note("held?") \o Ignore("bootout") \o Note("unloaded?")
  \o Note("silent?") \o Raise("no_failures?")

\* It tries everything and then looks at what it has reached.
Disable ==
  Note("hold") \o Note("held?") \o Note("override") \o Ignore("bootout")
  \o Note("unloaded?") \o Note("silent?") \o Note("overridden?")
  \o Raise("no_failures?")

StartService ==
  Raise("clear_override") \o Raise("bootstrap") \o Raise("serving?")
  \o Raise("make_queue")

InstallSteps ==
  Raise("may_install?")
  \o Raise("make_root") \o Raise("copy_app") \o Raise("own_app")
  \o Raise("make_marker") \o Raise("make_plist")
  \o Disable \o Raise("account") \o Raise("make_paths") \o Raise("valid?")
  \o Raise("try") \o Ignore("bootout") \o StartService
  \o Raise("serves?") \o Raise("enabled")

EnableSteps ==
  Raise("ours?") \o Ignore("bootout") \o Raise("make_paths") \o StartService
  \o Raise("release") \o Raise("serves?") \o Raise("enabled")

DisableSteps == Raise("ours?") \o Disable \o Raise("disabled")

\* Mutant: the registration goes first.
RemoveAllAtOnce ==
  Disable \o Raise("account?") \o Note("remove_queue") \o Note("remove_plist")
  \o Note("remove_logs") \o Note("remove_root")
  \o Note("remove_user") \o Note("remove_group") \o Raise("no_blocking?")
  \o Note("clear_override") \o Note("forget") \o Raise("settled?")
  \o Raise("clean?")

\* uninstall, once the installation is known to be ours
RemoveAll ==
  Disable \o Raise("account?") \o Note("remove_queue") \o Note("remove_logs")
  \o Note("remove_root") \o Note("remove_user") \o Note("remove_group")
  \o Raise("no_blocking?")
  \o Note("clear_override") \o Note("remove_plist") \o Note("forget")
  \o Raise("settled?") \o Raise("clean?")

ForgetOnly == Note("clear_override") \o Note("forget") \o Raise("settled?")
              \o Raise("clean?")

\* Mutant: a receipt alone is not ours to forget.
UninstallStepsOwned(v) ==
  CASE ~Valid(v) /\ Owned(v) -> Disable \o Raise("fail")
    [] Valid(v) /\ Residue(v) = {} -> Raise("clean")
    [] Valid(v) /\ Residue(v) # {} /\ Owned(v) -> RemoveAll
    [] OTHER -> Raise("fail")

\* uninstall up to its first command
UninstallSteps(v) ==
  CASE ~Valid(v) /\ Owned(v)  -> Disable \o Raise("fail")
    [] ~Valid(v) /\ ~Owned(v) -> Raise("fail")
    [] Valid(v) /\ Residue(v) = {} -> Raise("clean")
    [] Valid(v) /\ Residue(v) # {} /\ Owned(v) -> RemoveAll
    [] OTHER -> IF /\ Ours(v, "receipt")
                   /\ Residue(v) \subseteq {"receipt", "override"}
                  THEN ForgetOnly ELSE Raise("fail")

\* ensure_account: complete what is there, or begin again
AccountSteps(v) ==
  CASE AccountMatches(v) -> <<>>
    [] Ours(v, "group") /\ ~There(v, "user") -> Raise("create_user")
    [] Ours(v, "user") /\ ~There(v, "group") -> Raise("create_group")
    [] OTHER -> Ignore("delete_user") \o Ignore("delete_group")
                \o Raise("create_group") \o Raise("create_user")

-----------------------------------------------------------------------------
(* What the commands do *)

\* The artifacts a command changes. install -d makes the root as well, should
\* it be missing.
Affected ==
  [ make_root |-> {"root"}, copy_app |-> {"app"}, own_app |-> {"app"},
    make_marker |-> {"marker"}, make_plist |-> {"plist"},
    make_paths |-> {"root", "data", "logs"},
    create_user |-> {"user"}, create_group |-> {"group"},
    delete_user |-> {"user"}, delete_group |-> {"group"},
    make_queue |-> {"queue"}, remove_queue |-> {"queue"},
    remove_logs |-> {"logs"},
    remove_root |-> {"root", "marker", "app", "data"},
    remove_user |-> {"user"}, remove_group |-> {"group"},
    remove_plist |-> {"plist"}, forget |-> {"receipt"} ]

Removing == {"delete_user", "delete_group", "remove_queue", "remove_logs",
             "remove_root", "remove_user", "remove_group", "remove_plist",
             "forget"}

\* Mutant: the directories are made, but not given to the service.
LeftByRoot(do) == CASE do \in Removing -> "absent"
                    [] do \in {"copy_app", "make_paths"} -> "torn"
                    [] OTHER -> "ours"

\* ditto copies with the owner of the source; chown comes after it.
Left(do) == CASE do \in Removing -> "absent"
              [] do = "copy_app" -> "torn"
              [] OTHER -> "ours"

With(set, state) == [a \in Artifacts |-> IF a \in set THEN state ELSE host[a]]

\* What a command may have done when it did not come to its end
HalfDone(do) ==
  IF do \notin Divisible THEN {}
  ELSE CASE do \in {"create_user", "create_group"} ->
              {With(Affected[do], "torn")}
         [] do = "remove_root" ->
              {With(set, "absent") : set \in SUBSET {"marker", "app", "data"}}
              \union (IF There(host, "app")
                        THEN {[With(set, "absent") EXCEPT !["app"] = "torn"] :
                                set \in SUBSET {"marker", "data"}}
                        ELSE {})
         [] OTHER -> {}

\* What a command needs
Possible(do) ==
  CASE do = "hold"       -> host["queue"] # "foreign"
    [] do = "make_paths" -> AccountMatches(host)
    [] do = "bootstrap"  -> Ours(host, "plist") /\ ~off /\ ~loaded
    [] do = "make_queue" -> host["queue"] # "foreign" /\ serving
    [] do = "release"    -> Ours(host, "queue")
    [] OTHER -> TRUE

\* The commands that are only run for what was found there
Subject == [hold |-> "queue", remove_queue |-> "queue",
            remove_user |-> "user", remove_group |-> "group",
            delete_user |-> "user", delete_group |-> "group",
            forget |-> "receipt"]

\* The conditions the code puts before a command
Due(do) ==
  /\ do \in DOMAIN Subject => There(host, Subject[do])
  /\ do \in {"remove_root", "clear_override", "remove_plist", "forget"} =>
       ~failures
  /\ do \in {"remove_user", "remove_group"} =>
       ~There(host, "root") /\ ~There(host, "logs")

Overlooked(do) == do \in DOMAIN Subject /\ Subject[do] \in Deaf /\ ~calm

Effect(do) ==
  /\ host' = IF do \in Changing THEN With(Affected[do], Left(do)) ELSE host
  /\ held' = CASE do = "hold" -> TRUE
               [] do \in {"make_queue", "release", "remove_queue"} -> FALSE
               [] OTHER -> held
  /\ off' = CASE do = "override" -> TRUE
              [] do = "clear_override" -> FALSE
              [] OTHER -> off
  /\ loaded' = CASE do = "bootstrap" -> TRUE
                 [] do = "bootout" -> FALSE
                 [] OTHER -> loaded

-----------------------------------------------------------------------------
(* The helper *)

Idle == todo = <<>>
Next1 == Head(todo).do
Proceed == todo' = Tail(todo) /\ UNCHANGED <<op, clause>>
End(with) ==
  /\ todo' = <<>> /\ result' = with /\ failures' = FALSE
  /\ clause' = "body" /\ UNCHANGED op

Begin ==
  /\ Idle /\ (calm \/ runs < MaxRuns)
  /\ runs' = IF calm THEN runs ELSE runs + 1
  /\ \E o \in IF calm THEN {Again} ELSE Operations :
       /\ op' = o
       /\ todo' = CASE o = "install" -> InstallSteps
                    [] o = "enable"  -> EnableSteps
                    [] o = "disable" -> DisableSteps
                    [] o = "uninstall" -> Raise("uninstall")
  /\ clause' = "body" /\ failures' = FALSE /\ result' = "none"
  /\ UNCHANGED <<machine, calm>>

\* The except clauses: install's around the start of the service, main's
\* around enable and disable; a second failure ends the operation.
Raised ==
  IF clause = "started" \/ (clause = "body" /\ op \in {"enable", "disable"})
    THEN /\ todo' = Disable \o Raise("fail") /\ clause' = "cleanup"
         /\ failures' = FALSE /\ UNCHANGED <<op, result>>
    ELSE End("incomplete")

Failed ==
  CASE Head(todo).on = "raise"  -> Raised
    [] Head(todo).on = "note"   ->
         Proceed /\ failures' = TRUE /\ UNCHANGED result
    [] Head(todo).on = "ignore" -> Proceed /\ UNCHANGED <<failures, result>>

RunCommand ==
  /\ ~Idle /\ Next1 \in Commands /\ Due(Next1) /\ Possible(Next1)
  /\ Effect(Next1) /\ Proceed
  /\ UNCHANGED <<serving, failures, result, runs, calm>>

SkipCommand ==
  /\ ~Idle /\ Next1 \in Commands /\ (~Due(Next1) \/ Overlooked(Next1))
  /\ Proceed /\ UNCHANGED <<machine, failures, result, runs, calm>>

CommandFails ==
  /\ ~Idle /\ Next1 \in Commands /\ Due(Next1)
  /\ \/ ~Possible(Next1) /\ UNCHANGED host
     \/ Next1 \in Unreliable /\ ~calm
        /\ \/ UNCHANGED host
           \/ host' \in HalfDone(Next1)
  /\ Failed /\ UNCHANGED <<held, off, loaded, serving, runs, calm>>

\* After a failed removal the service is disabled again, if that works.
Settle(ok) == \/ off' = (off \/ ~ok)
              \/ "override" \in Unreliable /\ ~calm /\ UNCHANGED off

Answers(question, v) ==
  CASE question = "held?"       -> There(v, "queue") => held
    [] question = "unloaded?"   -> ~loaded
    [] question = "silent?"     -> ~serving
    [] question = "overridden?" -> off
    [] question = "no_failures?" -> ~failures
    [] question = "may_install?" -> MayInstall(v)
    [] question = "valid?"      -> Valid(v)
    [] question = "ours?"       -> Valid(v) /\ Owned(v)
    [] question = "serving?"    -> serving
    [] question = "serves?"     -> Serves
    [] question = "account?"    -> ValidAccount(v, TRUE)
    [] question = "no_blocking?" ->
         ~failures /\ Residue(v) \ (Registration \union {"receipt"}) = {}
    [] question = "settled?"    -> ~failures
    [] question = "clean?"      -> Residue(v) = {}

\* What takes time is waited for, but not for ever.
Ask ==
  /\ ~Idle /\ Next1 \in Questions
  /\ \E v \in Views :
       /\ calm /\ Next1 = "silent?" => ~serving
       /\ IF Next1 \in {"settled?", "clean?"}
            THEN Settle(Answers(Next1, v)) ELSE UNCHANGED off
       /\ IF ~Answers(Next1, v) THEN Failed
          ELSE IF Next1 = "clean?" THEN End("clean")
          ELSE Proceed /\ UNCHANGED <<failures, result>>
  /\ UNCHANGED <<host, held, loaded, serving, runs, calm>>

\* Steps that decide what is to be done
Decide ==
  /\ ~Idle
  /\ \/ /\ Next1 = "uninstall"
        /\ \E v \in Views : todo' = UninstallSteps(v)
        /\ UNCHANGED <<op, clause, failures, result>>
     \/ /\ Next1 = "account"
        /\ \E v \in Views : todo' = AccountSteps(v) \o Tail(todo)
        /\ UNCHANGED <<op, clause, failures, result>>
     \/ /\ Next1 = "try" /\ todo' = Tail(todo) /\ clause' = "started"
        /\ UNCHANGED <<op, failures, result>>
     \/ Next1 \in {"enabled", "disabled", "clean"} /\ End(Next1)
     \/ Next1 = "fail" /\ End("incomplete")
  /\ UNCHANGED <<machine, runs, calm>>

Helper == Begin \/ RunCommand \/ SkipCommand \/ CommandFails \/ Ask \/ Decide

-----------------------------------------------------------------------------
(* The others *)

Stopped ==
  /\ ~Idle /\ ~calm
  /\ \/ UNCHANGED host
     \/ host' \in HalfDone(Next1)
  /\ todo' = <<>> /\ result' = "killed" /\ clause' = "body"
  /\ failures' = FALSE /\ UNCHANGED op

Kill == Stopped /\ UNCHANGED <<held, off, loaded, serving, runs, calm>>

\* launchd loads what it finds and has not been told to leave alone.
Reboot ==
  /\ ~calm
  /\ \/ Stopped
     \/ Idle /\ UNCHANGED <<host, helper, result>>
  /\ loaded' = (host["plist"] = "ours" /\ ~off) /\ serving' = FALSE
  /\ UNCHANGED <<held, off, runs, calm>>

Whole == \A a \in {"app", "data", "user", "group"} : Ours(host, a)

ServiceUp ==
  /\ loaded /\ ~serving /\ Whole /\ serving' = TRUE
  /\ UNCHANGED <<host, held, off, loaded, helper, result, runs, calm>>

\* Once it is unloaded the provider ends its jobs and goes.
ServiceDown ==
  /\ serving /\ ~loaded /\ serving' = FALSE
  /\ UNCHANGED <<host, held, off, loaded, helper, result, runs, calm>>

\* From here on commands work, and uninstall is what is run.
BecomeCalm ==
  /\ ~calm /\ calm' = TRUE
  /\ UNCHANGED <<machine, helper, result, runs>>

Next == Helper \/ Kill \/ Reboot \/ ServiceUp \/ ServiceDown \/ BecomeCalm

Spec == Init /\ [][Next]_vars
FairSpec == /\ Spec /\ WF_vars(Helper) /\ WF_vars(ServiceDown)
            /\ WF_vars(ServiceUp) /\ WF_vars(BecomeCalm)

-----------------------------------------------------------------------------
(* Properties *)

Remains == { a \in Artifacts : There(host, a) }
ForeignFound == \E a \in Artifacts : host[a] = "foreign"
Startable == host["plist"] = "ours" /\ ~off

\* What an operation reports is so. "clean" is said only when nothing of the
\* product, and nothing under its names, is left (verify_clean_removal; story
\* 17: "the product never claims a clean state falsely"). After "disabled"
\* nothing serves, and a restart of the Mac does not change that. A disable,
\* enable or uninstall that is incomplete leaves a service that launchd does
\* not start, whatever failed but the override (INST-010).
ReportIsTrue ==
  /\ result = "clean" => Remains = {} /\ ~off /\ ~loaded /\ ~serving
  /\ result = "disabled" =>
       /\ ~serving /\ ~loaded /\ ~Startable
       /\ Ours(host, "queue") => held
  /\ result = "incomplete" /\ op # "install" => ~Startable

\* What somebody else owns under our names stays as it is (INST-003, INST-009).
ForeignUntouched ==
  [][\A a \in Artifacts : host[a] = "foreign" => host'[a] = "foreign"]_vars

\* What uninstall takes as ours and complete enough to remove
SoundIn(v) == Valid(v) /\ ValidAccount(v, TRUE) /\ v["queue"] # "foreign"
Sound == SoundIn(host)
Finished == Remains = {"receipt"} \/ (Remains = {} /\ ~off)
Removable == Sound /\ (Owned(host) \/ Finished)

\* rm -rf was stopped in the middle of the app. Validation refuses what is left
\* of it (a known divergence, see the README), and nothing else.
AppInPieces == host["app"] = "torn" /\ SoundIn(With({"app"}, "absent"))

\* No step of an uninstall, done, failed, half done or stopped, takes the evidence
\* away before the rest is gone, or leaves something that uninstall refuses to
\* remove, but for an app that rm -rf has left in pieces: the data go before the
\* account that owns them, and the plist is evidence to the end (730-790).
RemovalStaysPossible ==
  [][/\ op = "uninstall" /\ ~Idle
     /\ Sound /\ (Ours(host, "plist") \/ Remains = {"receipt"})
     => /\ (Ours(host, "plist") \/ Finished)'
        /\ Sound' \/ (Next1 = "remove_root" /\ AppInPieces')]_vars

\* Repeated, uninstall comes to its end from whatever is removable.
RemovalConverges == (calm /\ Idle /\ Removable) ~> (result = "clean")

(* What the documents say *)

\* A partial installation is removed by uninstall; install refuses it as soon
\* as there is an app (INST-007; story 14).
UninstallConverges ==
  (calm /\ Idle /\ There(host, "app") /\ ~ForeignFound) ~> (result = "clean")

\* A partial installation is completed by install (IMPLEMENTATION-SPEC:136).
InstallConverges ==
  (calm /\ Idle /\ op = "install" /\ result = "killed" /\ ~ForeignFound)
    ~> (result = "enabled")

\* Whenever an uninstall has begun to remove files and is not done, launchd
\* does not start the service (INST-010).
PartlyRemovedIsDisabled ==
  op = "uninstall" /\ result = "killed" /\ ~There(host, "app") => ~Startable

=============================================================================
